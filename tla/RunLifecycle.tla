---------------------------- MODULE RunLifecycle ----------------------------
(***************************************************************************)
(* Runs and the controller that drives them                                *)
(* (internal/controllers/run_controller.go): how a Run gets its            *)
(* Environment, starts its agent process there, follows it, and gives the  *)
(* Environment back when it ends, is cancelled or is deleted.              *)
(*                                                                         *)
(* Runs either claim one shared Environment, or one Run owns its           *)
(* Environment (env.own).  A Run here has no warm pool, no credential      *)
(* profile and no repository credential.  The Environment takes only the   *)
(* steps its own controller promises (EnvironmentLifecycle); the           *)
(* refinement of ExecutionDomain ties the two models.                      *)
(*                                                                         *)
(* The controller reads Runs and Environments from a cache that trails the *)
(* API server: `view' is the cached copy, runFresh and envFresh say        *)
(* whether it is still current, and so whether a write based on it         *)
(* succeeds.  Only the checks around a call into the sandbox read the API  *)
(* server.  A reconcile that makes one write is one step; `pc' is where a  *)
(* longer one stands.  One reconcile of a Run is in progress at a time.    *)
(***************************************************************************)
EXTENDS Integers

CONSTANTS
    Runs,
    Ownerships,  \* how a Run may have its Environment: "Claimed", "Owned"
    MaxGen,      \* bound: executions of the Environment
    MaxHold,     \* bound: hold-policy revisions
    MaxEpoch,    \* bound: suspensions for idleness
    Events       \* what users do and what goes wrong: a subset of EventKinds

EventKinds == {"cancel", "delete", "abort", "podLost", "unready", "idle", "envFails",
               "envDeleted", "rejected"}

ASSUME RunAssumption ==
    /\ "none" \notin Runs
    /\ Ownerships \subseteq {"Claimed", "Owned"}
    /\ "Owned" \in Ownerships => \E r \in Runs : Runs = {r}
    /\ MaxGen \in Nat /\ MaxHold \in Nat /\ MaxEpoch \in Nat
    /\ Events \subseteq EventKinds

VARIABLES
    run,       \* the Run objects
    env,       \* the Environment object
    live,      \* the Pod of the latest execution is there
    proc,      \* what sandboxd knows of each Run's process in that Pod
    ended,     \* history: the executions in which a Run's process has ended
    view, runFresh, envFresh,   \* the controller's cache, per Run
    pc,        \* what the reconcile of each Run does next
    result     \* what the adapter answered the reconcile in progress

vars == <<run, env, live, proc, ended, view, runFresh, envFresh, pc, result>>

Gens == 0 .. MaxGen
Terminals == {"Succeeded", "Failed", "Cancelled"}
States == {"none", "Allocating", "Paused", "EnvironmentReady", "AdapterAccepted", "Running"}
            \cup Terminals

\* accGen and accEpoch are the accepted execution (accGen = 0: none accepted).
\* "Running" stands for NeedsInput too.  verdict: the terminal state is how the
\* adapter saw the process end.  cond is the reason of the EnvironmentReady condition
\* where the controller reads it back.
RunType ==
    [exists : BOOLEAN, deleting : BOOLEAN, final : BOOLEAN, cancel : BOOLEAN,
     state : States, verdict : BOOLEAN, ref : BOOLEAN, attempted : BOOLEAN,
     accGen : Nat, accEpoch : Nat, cond : {"none", "NotReady", "Released", "Lost", "Fenced"}]

\* rev is the hold-policy revision: the hold is on at odd ones.  fence is the
\* sequence of the suspend request in spec or pending in status (0: none) and
\* fenceRev its policy revision.  obs: status has observed the latest spec.
\* "Creating" stands for Setup and Idle too: to a Run they are not ready.
EnvType ==
    [own : Ownerships, exists : BOOLEAN, claim : Runs \cup {"none"}, rev : Nat,
     wake : BOOLEAN, fence : Nat, fenceRev : Nat, susp : BOOLEAN,
     reason : {"none", "Idle", "Requested", "Hold"}, epoch : Nat, lastSeq : Nat,
     phase : {"Creating", "Ready", "Resuming", "Paused", "Failed"},
     gen : Nat, conn : Nat, obs : BOOLEAN]

NewRun ==
    [exists |-> TRUE, deleting |-> FALSE, final |-> FALSE, cancel |-> FALSE,
     state |-> "none", verdict |-> FALSE, ref |-> FALSE, attempted |-> FALSE,
     accGen |-> 0, accEpoch |-> 0, cond |-> "none"]
NewEnv(o) ==
    [own |-> o, exists |-> o = "Claimed", claim |-> "none", rev |-> 0, wake |-> FALSE,
     fence |-> 0, fenceRev |-> 0, susp |-> FALSE, reason |-> "none", epoch |-> 0, lastSeq |-> 0,
     phase |-> "Creating", gen |-> 0, conn |-> 0, obs |-> TRUE]

NoProc == [gen |-> 0, st |-> "none"]
ProcType == [gen : Nat, st : {"none", "running", "stopping", "exited"}]
Steps == {"idle", "wake", "ref", "refused", "call", "called", "confirmed", "released"}
Results == {"none", "Accepted", "Rejected", "Running", "Refused", "Succeeded", "Failed"}

TypeOK ==
    /\ run \in [Runs -> RunType] /\ env \in EnvType /\ live \in BOOLEAN
    /\ proc \in [Runs -> ProcType] /\ ended \in [Runs -> SUBSET Nat]
    /\ view \in [Runs -> [run : RunType, env : EnvType]]
    /\ runFresh \in [Runs -> BOOLEAN] /\ envFresh \in [Runs -> BOOLEAN]
    /\ pc \in [Runs -> Steps] /\ result \in [Runs -> Results]

Init ==
    /\ run = [r \in Runs |-> NewRun] /\ env \in {NewEnv(o) : o \in Ownerships} /\ live = FALSE
    /\ proc = [r \in Runs |-> NoProc] /\ ended = [r \in Runs |-> {}]
    /\ view = [r \in Runs |-> [run |-> NewRun, env |-> env]]
    /\ runFresh = [r \in Runs |-> TRUE] /\ envFresh = [r \in Runs |-> TRUE]
    /\ pc = [r \in Runs |-> "idle"] /\ result = [r \in Runs |-> "none"]

-----------------------------------------------------------------------------
(* The API server and the cache.                                           *)

sandbox == <<live, proc, ended>>

\* An unconditional write (the users' and the Environment controller's), and the
\* controller's: it fails unless the cached copy is current.
PutRun(r, u) ==
    /\ run' = [run EXCEPT ![r] = u]
    /\ runFresh' = [runFresh EXCEPT ![r] = FALSE]
PutEnv(e) ==
    /\ env' = e
    /\ envFresh' = [r \in Runs |-> FALSE]

\* Mutant: the update does not carry the version it was based on.
WriteRun_Blind(r, u) == PutRun(r, u) /\ UNCHANGED <<env, envFresh, view, sandbox>>
\* A status that would not change is not written.
WriteRun(r, u) ==
    /\ IF u = view[r].run THEN UNCHANGED <<run, runFresh>>
                          ELSE runFresh[r] /\ PutRun(r, u)
    /\ UNCHANGED <<env, envFresh, view, sandbox>>
WriteEnv(r, e) == envFresh[r] /\ PutEnv(e) /\ UNCHANGED <<run, runFresh, view, sandbox>>

Goto(r, step) == pc' = [pc EXCEPT ![r] = step]
Answer(r, a) == result' = [result EXCEPT ![r] = a]
Return(r) == Goto(r, "idle") /\ Answer(r, "none")

\* The watch delivers the latest version.  A delivery during a reconcile matters
\* only to the next one.
SyncRun(r) ==
    /\ ~runFresh[r] /\ pc[r] = "idle"
    /\ view' = [view EXCEPT ![r].run = run[r]]
    /\ runFresh' = [runFresh EXCEPT ![r] = TRUE]
    /\ UNCHANGED <<run, env, sandbox, envFresh, pc, result>>

SyncEnv(r) ==
    /\ ~envFresh[r] /\ pc[r] = "idle"
    /\ view' = [view EXCEPT ![r].env = env]
    /\ envFresh' = [envFresh EXCEPT ![r] = TRUE]
    /\ UNCHANGED <<run, env, sandbox, runFresh, pc, result>>

\* The reconcile fails: an error, a conflict, or the operator restarts.
Abort(r) ==
    /\ pc[r] # "idle" /\ "abort" \in Events
    /\ Return(r)
    /\ UNCHANGED <<run, env, sandbox, view, runFresh, envFresh>>

-----------------------------------------------------------------------------
(* What the controller decides from the cached Run u and Environment e.    *)

Hold(e) == e.rev % 2 = 1
Reachable(e) == e.gen > 0 /\ ~e.susp /\ e.phase = "Ready" /\ e.obs /\ e.conn # 0
Fenced(e) == e.susp /\ e.phase = "Paused" /\ e.conn = 0

\* getAllocatedEnvironment: the Environment is there and still this Run's.
Mine(e, r) == e.exists /\ e.claim = r

\* explicitClaimWakeReason
Wakeable(e) == e.susp => e.reason \in {"Idle", "Requested"}

MayHaveAccepted(u) == u.attempted \/ u.accGen # 0
AcceptedCurrent(u, e) == e.gen > 0 /\ u.accGen = e.gen /\ u.accEpoch = e.epoch

\* Which of its paths Reconcile takes.
Path(u) ==
    CASE u.deleting -> "finalize"
      [] ~u.deleting /\ u.state \in Terminals -> "cleanup"
      [] ~u.deleting /\ u.state \notin Terminals /\ u.cancel -> "cancel"
      [] OTHER -> "work"

\* A reconcile starts on a path.  Every path but cleanup needs the finalizer.
On(r, path) ==
    LET u == view[r].run
    IN  pc[r] = "idle" /\ u.exists /\ Path(u) = path /\ (path # "cleanup" => u.final)

\* The checks around a call into the sandbox read the API server: still this Run's
\* Environment, same execution, same epoch, same hold policy, reachable, and the
\* Pod is there.
ExecutionCurrent(r) ==
    LET e == view[r].env
    IN  /\ Mine(env, r)
        /\ env.gen = e.gen /\ env.epoch = e.epoch /\ env.rev = e.rev
        /\ Reachable(env) /\ live

SetState(u, s) == [u EXCEPT !.state = s, !.cond = "none"]

-----------------------------------------------------------------------------
(* Allocation.                                                             *)

AddFinalizer(r) ==
    LET u == view[r].run
    IN  /\ pc[r] = "idle" /\ u.exists /\ ~u.final /\ Path(u) \in {"work", "cancel"}
        /\ WriteRun(r, [u EXCEPT !.final = TRUE])
        /\ UNCHANGED <<pc, result>>

\* recoverEnvironmentReference on the way to Cancelled: an allocation whose record
\* was lost is recorded first.
CancelBeforeAllocation(r) ==
    LET u == view[r].run
    IN  /\ On(r, "cancel") /\ ~u.ref
        /\ WriteRun(r, IF Mine(view[r].env, r)
                       THEN [SetState(u, "Allocating") EXCEPT !.ref = TRUE]
                       ELSE SetState(u, "Cancelled"))
        /\ UNCHANGED <<pc, result>>

Allocating(r) == On(r, "work") /\ ~view[r].run.ref

\* allocateEnvironment for an explicit reference: the claim is a compare-and-swap
\* on the Environment's status.
ClaimEnvironment(r) ==
    LET e == view[r].env
    IN  /\ env.own = "Claimed" /\ Allocating(r)
        /\ e.exists /\ ~Hold(e) /\ Wakeable(e) /\ e.claim = "none"
        /\ WriteEnv(r, [e EXCEPT !.claim = r])
        /\ Goto(r, "wake") /\ UNCHANGED result

RefuseAllocation(r) ==
    LET e == view[r].env
    IN  /\ env.own = "Claimed" /\ Allocating(r)
        /\ e.exists /\ e.claim # r
        /\ Hold(e) \/ ~Wakeable(e) \/ e.claim # "none"
        /\ WriteRun(r, SetState(view[r].run, "Failed"))
        /\ UNCHANGED <<pc, result>>

\* A claim whose record was lost: used, or given up if it can no longer be woken.
RecoverClaim(r) ==
    LET e == view[r].env
    IN  /\ env.own = "Claimed" /\ Allocating(r) /\ Mine(e, r)
        /\ IF Hold(e) \/ ~Wakeable(e)
           THEN WriteEnv(r, [e EXCEPT !.claim = "none"]) /\ Goto(r, "refused")
           ELSE Goto(r, "wake") /\ UNCHANGED <<run, env, sandbox, view, runFresh, envFresh>>
        /\ UNCHANGED result

\* wakeExplicitClaim: only if the claimed Environment is suspended, and only under
\* the hold policy it was claimed under.
WakeClaim(r) ==
    LET e == view[r].env
    IN  /\ pc[r] = "wake" /\ e.susp
        /\ env.exists /\ env.rev = e.rev
        /\ IF env.wake THEN UNCHANGED <<env, envFresh>>
                       ELSE PutEnv([env EXCEPT !.wake = TRUE, !.obs = FALSE])
        /\ Goto(r, "ref")
        /\ UNCHANGED <<run, sandbox, view, runFresh, result>>

\* An owned Environment has a name derived from the Run's UID: creating it again
\* finds it.  (One that was deleted is not created again here: it would be another
\* Environment.)
CreateEnvironment(r) ==
    /\ env.own = "Owned" /\ Allocating(r)
    /\ IF env.exists THEN UNCHANGED <<env, envFresh>>
                     ELSE /\ env.gen = 0
                          /\ PutEnv([NewEnv("Owned") EXCEPT !.exists = TRUE, !.claim = r])
    /\ Goto(r, "ref")
    /\ UNCHANGED <<run, sandbox, view, runFresh, result>>

RecordAllocation(r) ==
    LET u == view[r].run
    IN  /\ pc[r] = "ref" \/ (pc[r] = "wake" /\ ~view[r].env.susp)
        /\ WriteRun(r, [SetState(u, "Allocating") EXCEPT !.ref = TRUE])
        /\ Return(r)

RecordRefusal(r) ==
    /\ pc[r] = "refused"
    /\ WriteRun(r, SetState(view[r].run, "Failed"))
    /\ Return(r)

-----------------------------------------------------------------------------
(* A Run at work follows its Environment and calls the agent's adapter.    *)

LoseEnvironment(r) ==
    LET u == view[r].run
    IN  /\ On(r, "work") \/ On(r, "cancel")
        /\ u.ref /\ ~Mine(view[r].env, r)
        /\ WriteRun(r, [SetState(u, "Failed") EXCEPT !.cond = "Lost"])
        /\ UNCHANGED <<pc, result>>

Working(r) == On(r, "work") /\ view[r].run.ref /\ Mine(view[r].env, r)

\* Mutant: what was accepted once stays accepted.
StateFrom_OnceAccepted(u, e) ==
    CASE ~e.obs -> IF u.accGen # 0 THEN u.state ELSE "Allocating"
      [] e.obs /\ e.phase = "Failed" -> "Failed"
      [] e.obs /\ e.phase \in {"Paused", "Resuming"} -> "Paused"
      [] e.obs /\ (e.phase = "Creating" \/ (e.phase = "Ready" /\ ~Reachable(e))) -> "Allocating"
      [] OTHER -> IF u.accGen # 0 THEN "Running"
                  ELSE IF u.state \in {"none", "Allocating", "Paused"} THEN "EnvironmentReady"
                  ELSE u.state
\* The state a Run takes from its Environment before it may call the adapter.
StateFrom(u, e) ==
    IF ~e.obs THEN IF u.accGen # 0 THEN u.state ELSE "Allocating"
    ELSE CASE e.phase \in {"Paused", "Resuming"} -> "Paused"
           [] e.phase = "Failed" -> "Failed"
           [] e.phase = "Creating" -> "Allocating"
           [] e.phase = "Ready" /\ ~Reachable(e) -> "Allocating"
           [] OTHER -> IF \/ u.accGen # 0 /\ ~AcceptedCurrent(u, e)
                          \/ u.state \in {"none", "Allocating", "Paused"}
                       THEN "EnvironmentReady" ELSE u.state

FollowEnvironment(r) ==
    LET u == view[r].run
        s == StateFrom(u, view[r].env)
    IN  /\ Working(r) /\ s # u.state
        /\ WriteRun(r, SetState(u, s))
        /\ UNCHANGED <<pc, result>>

AtWork(r) ==
    LET u == view[r].run
        e == view[r].env
    IN  Working(r) /\ Reachable(e) /\ StateFrom(u, e) = u.state

\* markAcceptanceAttempted: durable before the first call that may start a process.
MarkAcceptanceAttempted(r) ==
    LET u == view[r].run
    IN  /\ AtWork(r) /\ u.state = "EnvironmentReady" /\ ~u.attempted
        /\ WriteRun(r, [u EXCEPT !.attempted = TRUE])
        /\ UNCHANGED <<pc, result>>

\* Mutants: an attempt whose answer was lost does not count; a fenced Environment is
\* called too.
MustStop_Accepted(u, e) == u.accGen # 0 /\ ~Fenced(e)
\* A Run that is ending must stop a process it may have started, unless the
\* Environment is fenced.
MustStop(u, e) == MayHaveAccepted(u) /\ ~Fenced(e)

\* Mutant: a Run that once missed its Environment does not look again.
Leaving_UnlessLost(r) ==
    LET u == view[r].run
        e == view[r].env
    IN  /\ Mine(e, r) /\ u.cond # "Lost"
        /\ \/ On(r, "finalize")
           \/ On(r, "cancel") /\ u.ref
           \/ /\ On(r, "cleanup") /\ u.ref
              /\ env.own = "Claimed" => u.cond # "Released"
              /\ Reachable(e) \/ u.cond = "NotReady"
\* An ending Run that still has its Environment.  cleanupTerminal first notes an
\* unreachable Environment on the Run.
Leaving(r) ==
    LET u == view[r].run
        e == view[r].env
    IN  /\ Mine(e, r)
        /\ \/ On(r, "finalize")
           \/ On(r, "cancel") /\ u.ref
           \/ /\ On(r, "cleanup") /\ u.ref
              /\ env.own = "Claimed" => u.cond # "Released"
              /\ Reachable(e) \/ u.cond = "NotReady"

\* The last of the checks before the call.
BeginCall(r) ==
    LET u == view[r].run
        e == view[r].env
    IN  /\ \/ AtWork(r) /\ (u.state = "EnvironmentReady" => u.attempted)
           \/ Leaving(r) /\ MustStop(u, e) /\ Reachable(e)
        /\ ExecutionCurrent(r)
        /\ Goto(r, "call")
        /\ UNCHANGED <<run, env, sandbox, view, runFresh, envFresh, result>>

\* The call reaches sandboxd in the Pod of the execution it was resolved for.
Calling(r) == pc[r] = "call" /\ live /\ env.gen = view[r].env.gen

Called(r, a) ==
    /\ Goto(r, "called") /\ Answer(r, a)
    /\ UNCHANGED <<run, env, live, ended, view, runFresh, envFresh>>

\* adapter.EnsureAccepted: starting a process again finds it.
StartProcess(r) ==
    LET u == view[r].run
    IN  /\ Calling(r) /\ Path(u) = "work" /\ u.state = "EnvironmentReady"
        /\ \/ /\ proc' = IF proc[r].st = "none"
                         THEN [proc EXCEPT ![r] = [gen |-> env.gen, st |-> "running"]]
                         ELSE proc
              /\ Called(r, "Accepted")
           \/ /\ "rejected" \in Events /\ UNCHANGED proc
              /\ Called(r, "Rejected")

\* adapter.Observe: a process sandboxd does not know has failed, and so has one whose
\* output the transcript refuses, though it may still run.
Observe(r) ==
    LET u == view[r].run
    IN  /\ Calling(r) /\ Path(u) = "work" /\ u.state # "EnvironmentReady"
        /\ \E a \in CASE proc[r].st = "none" -> {"Failed"}
                      [] proc[r].st = "exited" -> {"Succeeded", "Failed"}
                      [] OTHER -> {"Running"} \cup (IF "rejected" \in Events THEN {"Refused"} ELSE {}) :
             Called(r, a)
        /\ UNCHANGED proc

\* adapter.Cancel: pending until the process has exited.
StopProcess(r) ==
    /\ Calling(r) /\ Path(view[r].run) # "work"
    /\ IF proc[r].st \in {"running", "stopping"}
       THEN /\ proc' = [proc EXCEPT ![r].st = "stopping"]
            /\ Return(r)
            /\ UNCHANGED <<run, env, live, ended, view, runFresh, envFresh>>
       ELSE Called(r, "none") /\ UNCHANGED proc

\* allocatedExecutionCurrent: the answer counts only if nothing has moved.
Confirm(r) ==
    /\ pc[r] = "called"
    /\ IF ExecutionCurrent(r) THEN Goto(r, "confirmed") /\ UNCHANGED result ELSE Return(r)
    /\ UNCHANGED <<run, env, sandbox, view, runFresh, envFresh>>

\* The call finds no Pod, a write loses to another, or an earlier suspend request is
\* still outstanding.
Fail(r) ==
    /\ \/ pc[r] = "call" /\ ~Calling(r)
       \/ pc[r] \in {"wake", "ref", "refused", "confirmed", "released"} /\ ~runFresh[r]
       \/ pc[r] = "wake" /\ view[r].env.susp /\ ~(env.exists /\ env.rev = view[r].env.rev)
       \/ /\ pc[r] = "confirmed" /\ result[r] = "none" /\ Path(view[r].run) # "cancel"
          /\ ~envFresh[r] \/ view[r].env.fence # 0
    /\ Return(r)
    /\ UNCHANGED <<run, env, sandbox, view, runFresh, envFresh>>

RecordAcceptance(r) ==
    LET u == view[r].run
        e == view[r].env
    IN  /\ pc[r] = "confirmed" /\ result[r] \in {"Accepted", "Rejected"}
        /\ WriteRun(r, IF result[r] = "Rejected" THEN SetState(u, "Failed")
                       ELSE [SetState(u, "AdapterAccepted") EXCEPT !.accGen = e.gen,
                                                                   !.accEpoch = e.epoch])
        /\ Return(r)

RecordObservation(r) ==
    LET u == view[r].run
        s == IF result[r] = "Refused" THEN "Failed" ELSE result[r]
    IN  /\ pc[r] = "confirmed" /\ result[r] \in {"Running", "Refused", "Succeeded", "Failed"}
        /\ WriteRun(r, [SetState(u, s) EXCEPT !.verdict = result[r] \in {"Succeeded", "Failed"}])
        /\ Return(r)

-----------------------------------------------------------------------------
(* A Run that is cancelled, has ended or is deleted.                       *)

\* cleanupTerminal notes that the Environment is lost, unreachable or was never there.
NoteEnvironment(r) ==
    LET u == view[r].run
        e == view[r].env
        c == IF ~u.ref THEN "Released" ELSE IF ~Mine(e, r) THEN "Lost" ELSE "NotReady"
    IN  /\ On(r, "cleanup") /\ u.cond # c
        /\ u.ref /\ env.own = "Claimed" => u.cond # "Released"
        /\ c = "NotReady" => ~Reachable(e)
        /\ WriteRun(r, [u EXCEPT !.cond = c])
        /\ UNCHANGED <<pc, result>>

\* The process is known to be stopped, or was never started, or cannot be running.
Stopped(r) ==
    \/ Leaving(r) /\ ~MustStop(view[r].run, view[r].env)
    \/ pc[r] = "confirmed" /\ result[r] = "none"

\* Mutant: a Run at work asks for it too.
RequestEnvironmentFence_AtWork(r) ==
    LET e == view[r].env
        seq == (IF e.epoch > e.lastSeq THEN e.epoch ELSE e.lastSeq) + 1
    IN  /\ ~e.susp /\ (Leaving(r) \/ Working(r)) /\ MustStop(view[r].run, e) /\ ~Reachable(e)
        /\ env.exists /\ env.rev = e.rev /\ seq > env.lastSeq /\ env.fence < seq
        /\ PutEnv([env EXCEPT !.fence = seq, !.fenceRev = env.rev, !.obs = FALSE])
        /\ Return(r)
        /\ UNCHANGED <<run, sandbox, view, runFresh>>
\* requestEnvironmentFence: the process may be running and cannot be reached, or the
\* Run owns the Environment and has ended.
RequestEnvironmentFence(r) ==
    LET u == view[r].run
        e == view[r].env
        seq == (IF e.epoch > e.lastSeq THEN e.epoch ELSE e.lastSeq) + 1
    IN  /\ ~e.susp
        /\ \/ Leaving(r) /\ MustStop(u, e) /\ ~Reachable(e)
           \/ Stopped(r) /\ env.own = "Owned" /\ Path(u) = "cleanup" /\ e.fence = 0
        /\ env.exists /\ env.rev = e.rev
        /\ seq > env.lastSeq /\ env.fence < seq
        /\ PutEnv([env EXCEPT !.fence = seq, !.fenceRev = env.rev, !.obs = FALSE])
        /\ Return(r)
        /\ UNCHANGED <<run, sandbox, view, runFresh>>

RecordCancelled(r) ==
    LET u == view[r].run
    IN  /\ Stopped(r) /\ Path(u) = "cancel"
        /\ WriteRun(r, SetState(u, "Cancelled"))
        /\ Return(r)

\* Mutant: whether or not a suspend request is outstanding.
ReleaseClaim_Anyway(r) ==
    /\ Stopped(r) /\ Path(view[r].run) \in {"cleanup", "finalize"} /\ env.own = "Claimed"
    /\ WriteEnv(r, [view[r].env EXCEPT !.claim = "none"])
    /\ Goto(r, "released") /\ Answer(r, "none")
\* releaseClaim, by a Run that has ended or is deleted: never while a suspend
\* request is outstanding.
ReleaseClaim(r) ==
    LET e == view[r].env
    IN  /\ Stopped(r) /\ Path(view[r].run) \in {"cleanup", "finalize"}
        /\ env.own = "Claimed" /\ e.fence = 0
        /\ WriteEnv(r, [e EXCEPT !.claim = "none"])
        /\ Goto(r, "released") /\ Answer(r, "none")

RecordReleased(r) ==
    LET u == view[r].run
    IN  /\ pc[r] = "released" /\ Path(u) = "cleanup"
        /\ WriteRun(r, [u EXCEPT !.cond = "Released"])
        /\ Return(r)

RecordFenced(r) ==
    LET u == view[r].run
        e == view[r].env
    IN  /\ env.own = "Owned" /\ Leaving(r) /\ Path(u) = "cleanup"
        /\ Fenced(e) /\ e.fence = 0
        /\ WriteRun(r, [u EXCEPT !.cond = "Fenced"])
        /\ UNCHANGED <<pc, result>>

\* finalize ends by removing the finalizer, and with it the Run.
RemoveFinalizer(r) ==
    LET u == view[r].run
        e == view[r].env
    IN  /\ Path(u) = "finalize"
        /\ \/ pc[r] = "released"
           \/ On(r, "finalize") /\ ~Mine(e, r)
           \/ Stopped(r) /\ env.own = "Owned" /\ e.fence = 0
        /\ WriteRun(r, [u EXCEPT !.exists = FALSE, !.final = FALSE])
        /\ Return(r)

Reconcile(r) ==
    \/ AddFinalizer(r) \/ CancelBeforeAllocation(r) \/ ClaimEnvironment(r)
    \/ RefuseAllocation(r) \/ RecoverClaim(r) \/ WakeClaim(r) \/ CreateEnvironment(r)
    \/ RecordAllocation(r) \/ RecordRefusal(r) \/ LoseEnvironment(r)
    \/ FollowEnvironment(r) \/ MarkAcceptanceAttempted(r) \/ BeginCall(r)
    \/ StartProcess(r) \/ Observe(r) \/ StopProcess(r) \/ Confirm(r) \/ Fail(r)
    \/ RecordAcceptance(r) \/ RecordObservation(r) \/ NoteEnvironment(r)
    \/ RequestEnvironmentFence(r) \/ RecordCancelled(r) \/ ReleaseClaim(r)
    \/ RecordReleased(r) \/ RecordFenced(r) \/ RemoveFinalizer(r)

-----------------------------------------------------------------------------
(* The Environment, as its controller promises.                            *)

EnvStep(e) ==
    /\ env.exists /\ PutEnv(e)
    /\ UNCHANGED <<run, runFresh, view, pc, result>>

EnvStarts ==
    /\ ~live /\ ~env.susp /\ env.conn = 0 /\ env.phase \in {"Creating", "Resuming"}
    /\ env.gen < MaxGen
    /\ live' = TRUE
    /\ EnvStep([env EXCEPT !.gen = @ + 1])
    /\ UNCHANGED <<proc, ended>>

\* PublishedOnlyWhileAllowed
EnvPublishes ==
    /\ live /\ ~env.susp /\ ~Hold(env) /\ env.fence = 0 /\ (env.conn = 0 \/ ~env.obs)
    /\ EnvStep([env EXCEPT !.conn = env.gen, !.phase = "Ready", !.obs = TRUE])
    /\ UNCHANGED sandbox

EnvWithdraws ==
    /\ ~env.susp /\ env.conn # 0 /\ (~live \/ "unready" \in Events)
    /\ \E p \in {"Creating", "Resuming"} :
         EnvStep([env EXCEPT !.conn = 0, !.phase = p, !.obs = TRUE])
    /\ UNCHANGED sandbox

EnvFails ==
    /\ "envFails" \in Events /\ ~env.susp /\ env.phase \notin {"Paused", "Failed"}
    /\ EnvStep([env EXCEPT !.conn = 0, !.phase = "Failed", !.obs = TRUE])
    /\ UNCHANGED sandbox

\* The Pod and its processes go: deleted once the connection is withdrawn, or lost.
EnvStops ==
    /\ live /\ ((env.susp /\ env.conn = 0) \/ "podLost" \in Events)
    /\ live' = FALSE
    /\ proc' = [r \in Runs |-> NoProc]
    /\ UNCHANGED <<run, env, ended, view, runFresh, envFresh, pc, result>>

FenceNew == env.fence > env.lastSeq /\ env.fenceRev = env.rev

\* reconcileLifecycleIntent: a hold, a new suspend request, or idleness without an
\* active Run (IdleNeverOvertakes).
EnvSuspends ==
    LET active(r) == env.claim = r /\ run[r].exists /\ run[r].state \notin Terminals
        idle == /\ "idle" \in Events /\ ~env.susp /\ env.fence = 0 /\ env.epoch < MaxEpoch
                /\ \A r \in Runs : ~active(r)
        why == IF Hold(env) THEN "Hold" ELSE IF FenceNew THEN "Requested" ELSE "Idle"
    IN  /\ (Hold(env) /\ env.reason # "Hold") \/ FenceNew \/ idle
        /\ EnvStep([env EXCEPT !.susp = TRUE, !.reason = why,
                               !.epoch = IF env.susp THEN @ ELSE @ + 1,
                               !.lastSeq = IF FenceNew THEN env.fence ELSE @,
                               !.wake = @ /\ why = env.reason,
                               !.obs = @ /\ why = "Idle"])
        /\ UNCHANGED sandbox

\* A request under an older hold policy, or already carried out.
EnvDiscards ==
    /\ env.fence > env.lastSeq /\ env.fenceRev # env.rev
    /\ EnvStep([env EXCEPT !.fence = 0, !.obs = FALSE])
    /\ UNCHANGED sandbox

\* PausedMeansAbsent, AcknowledgedAfterFence
EnvPauses ==
    /\ env.susp
    /\ \/ env.conn # 0 /\ EnvStep([env EXCEPT !.conn = 0, !.phase = "Creating", !.obs = TRUE])
       \/ /\ env.conn = 0 /\ ~live
          /\ env.phase # "Paused" \/ ~env.obs
          /\ EnvStep([env EXCEPT !.phase = "Paused", !.obs = TRUE])
       \/ /\ env.phase = "Paused" /\ env.fence # 0 /\ env.fence = env.lastSeq
          /\ EnvStep([env EXCEPT !.fence = 0])
    /\ UNCHANGED sandbox

\* Mutant: a wake does not wait for the Pod to go.
EnvReleases_Early ==
    /\ env.susp /\ env.fence = 0 /\ ~Hold(env)
    /\ EnvStep([env EXCEPT !.susp = FALSE, !.reason = "none", !.wake = FALSE, !.obs = FALSE])
    /\ UNCHANGED sandbox
\* ReleaseAfterFence, ReleaseIsAuthorized.  Anyone may wake an idle Environment.
EnvReleases ==
    /\ env.susp /\ env.phase = "Paused" /\ env.fence = 0 /\ ~Hold(env)
    /\ env.reason \in {"Hold", "Idle"} \/ env.wake
    /\ EnvStep([env EXCEPT !.susp = FALSE, !.reason = "none", !.wake = FALSE,
                           !.obs = FALSE])
    /\ UNCHANGED sandbox

EnvResumes ==
    /\ ~env.susp /\ env.phase = "Paused"
    /\ EnvStep([env EXCEPT !.phase = "Resuming", !.obs = TRUE])
    /\ UNCHANGED sandbox

\* The Environment is deleted, its Pod first; an owned one goes with its Run.
EnvDeleted ==
    /\ ~live
    /\ \/ "envDeleted" \in Events
       \/ env.own = "Owned" /\ \E r \in Runs : env.claim = r /\ ~run[r].exists
    /\ EnvStep([env EXCEPT !.exists = FALSE, !.conn = 0])
    /\ UNCHANGED sandbox

Environment ==
    EnvStarts \/ EnvPublishes \/ EnvWithdraws \/ EnvFails \/ EnvStops \/ EnvSuspends
    \/ EnvDiscards \/ EnvPauses \/ EnvReleases \/ EnvResumes \/ EnvDeleted

-----------------------------------------------------------------------------
(* Users, and the agent's process.                                         *)

UserStep(r, u) ==
    /\ PutRun(r, u)
    /\ UNCHANGED <<env, sandbox, view, envFresh, pc, result>>

CancelRun(r) ==
    /\ "cancel" \in Events /\ run[r].exists /\ ~run[r].cancel
    /\ UserStep(r, [run[r] EXCEPT !.cancel = TRUE])

DeleteRun(r) ==
    /\ "delete" \in Events /\ run[r].exists /\ ~run[r].deleting
    /\ UserStep(r, IF run[r].final THEN [run[r] EXCEPT !.deleting = TRUE]
                                   ELSE [run[r] EXCEPT !.exists = FALSE])

\* A wake request under another hold policy counts as none.
SetHold ==
    /\ env.rev < MaxHold
    /\ EnvStep([env EXCEPT !.rev = @ + 1, !.wake = FALSE, !.obs = FALSE])
    /\ UNCHANGED sandbox

ProcessExits(r) ==
    /\ proc[r].st \in {"running", "stopping"}
    /\ proc' = [proc EXCEPT ![r].st = "exited"]
    /\ ended' = [ended EXCEPT ![r] = @ \cup {proc[r].gen}]
    /\ UNCHANGED <<run, env, live, view, runFresh, envFresh, pc, result>>

Next ==
    \/ Environment \/ SetHold
    \/ \E r \in Runs :
         Reconcile(r) \/ SyncRun(r) \/ SyncEnv(r) \/ Abort(r)
         \/ CancelRun(r) \/ DeleteRun(r) \/ ProcessExits(r)

Spec == Init /\ [][Next]_vars

\* Every controller keeps reconciling, and the cache catches up however often a
\* reconcile is in progress when an update arrives.  A process that was told to stop
\* exits (sandboxd kills it); one that was not may run for ever.
Fairness ==
    /\ \A r \in Runs :
         /\ WF_vars(Reconcile(r)) /\ SF_vars(SyncRun(r)) /\ SF_vars(SyncEnv(r))
         /\ WF_vars(proc[r].st = "stopping" /\ ProcessExits(r))
    /\ WF_vars(EnvStarts) /\ WF_vars(EnvPublishes) /\ WF_vars(EnvSuspends)
    /\ WF_vars(EnvDiscards) /\ WF_vars(EnvPauses) /\ WF_vars(EnvResumes)
    /\ WF_vars(env.susp /\ EnvStops) /\ WF_vars(~live /\ EnvWithdraws)

FairSpec == Spec /\ Fairness

-----------------------------------------------------------------------------
(* Properties.                                                             *)

\* A Run's agent process runs only while the Environment is the Run's, and only if
\* the Run has on record that it may have started one: the claim is given back, and
\* the Run goes, only once the process has exited or its Pod is gone, whatever the
\* cache showed and wherever the reconcile was interrupted.
ProcessHasClaim ==
    \A r \in Runs : proc[r].st \in {"running", "stopping"} =>
        env.exists /\ env.claim = r /\ run[r].exists /\ run[r].attempted

\* A Run that was cancelled, or whose agent was seen to end, has no process left:
\* none is started again behind the recorded outcome.
EndedMeansStopped ==
    \A r \in Runs : run[r].state = "Cancelled" \/ run[r].verdict =>
        proc[r].st \notin {"running", "stopping"}

\* A Run succeeds, or fails on how its process ended, only after its process has
\* ended in the execution that accepted it: an Environment that moved on never
\* passes for a failed agent.
OutcomeIsReal ==
    \A r \in Runs : run[r].verdict => run[r].accGen \in ended[r]

\* A terminal Run stays as it is, however late a result or a conflict arrives.
TerminalIsFinalStep ==
    \A r \in Runs : run[r].state \in Terminals => run'[r].state = run[r].state
TerminalIsFinal == [][TerminalIsFinalStep]_vars

\* Only a Run that is ending, and that still has the Environment, asks for it to be
\* suspended: a late request never suspends the next Run.
FenceByLeaverStep ==
    (env'.fence > env.fence) =>
        \E r \in Runs : env.claim = r /\ Path(run[r]) # "work"
FenceByLeaver == [][FenceByLeaverStep]_vars

\* A claim is given back only when no suspend request of its Run is left behind to
\* suspend the next one.
ReleasedClean == env.claim = "none" => env.fence = 0

Domain == INSTANCE ExecutionDomain WITH gen <- env.gen, conn <- env.conn, susp <- env.susp
\* The Environment of this module does nothing that ExecutionDomain does not allow: it
\* keeps to what EnvironmentLifecycle is shown to implement.
UsesDomain == Domain!Spec

\* recoverEnvironmentReference "closes the gap where allocation succeeded but its Run
\* status update was lost": a Run that is gone has left no claim on an Environment it
\* does not own.
NoClaimLeft ==
    env.own = "Claimed" => \A r \in Runs : ~run[r].exists => env.claim # r

\* A Run fails with EnvironmentLost only if its Environment "is gone or no longer
\* claimed by this run".
LostMeansLostStep ==
    \A r \in Runs : run[r].state \notin Terminals /\ run'[r].cond = "Lost" =>
        ~(env.exists /\ env.claim = r)
LostMeansLost == [][LostMeansLostStep]_vars

\* A deleted Run goes: its finalizer is not held for ever by an Environment that
\* fails, is held or cannot be reached.
DeletedIsGone == \A r \in Runs : run[r].deleting ~> ~run[r].exists

\* A cancelled Run reaches a terminal state.
CancelledEnds ==
    \A r \in Runs : run[r].cancel ~> run[r].state \in Terminals \/ ~run[r].exists

\* A Run that has ended gives its claim back, even if a stale cache made it take the
\* Environment for lost.  (What deletion does to the claim: NoClaimLeft.)
ClaimReturned ==
    \A r \in Runs :
        env.own = "Claimed" /\ run[r].state \in Terminals /\ run[r].ref
            ~> env.claim # r \/ run[r].deleting \/ ~run[r].exists

\* A Run that has ended stops being written: what it says of its Environment settles.
TerminalSettles ==
    \A r \in Runs : ~([]<>(run[r].cond = "Fenced") /\ []<>(run[r].cond = "NotReady"))

\* A Run's variables keep their types, its process runs only under its claim, and none is
\* left behind a recorded end.
RunSound == TypeOK /\ ProcessHasClaim /\ EndedMeansStopped

\* Runs that share an Environment: one process at a time, and no suspend request of a Run
\* that has left.
SharedClean == ProcessHasClaim /\ ReleasedClean

\* Deletion and cancellation complete, and an ended Run gives its claim back.
RunEnds == DeletedIsGone /\ CancelledEnds /\ ClaimReturned
=============================================================================
