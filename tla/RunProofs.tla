----------------------------- MODULE RunProofs -----------------------------
(***************************************************************************)
(* Proofs about RunLifecycle, for any number of Runs: what stands between a*)
(* Run, the controller's cached copies, its claim and its process in every *)
(* reachable state (the inductive invariant), the invariants and action    *)
(* properties that follow from it, and that the Environment Runs are driven*)
(* against implements ExecutionDomain.                                     *)
(*                                                                         *)
(* A step is taken by one Run or by the Environment.  What it does to that *)
(* Run is one of a few kinds, each shown to keep what stands for the Run;  *)
(* what every other Run sees of it is Aside.                               *)
(***************************************************************************)
EXTENDS RunLifecycle, TLAPS

-----------------------------------------------------------------------------
(* What stands in every reachable state.                                   *)

\* The Run's agent process is there, and not known to have ended.
HasProcess(r) == proc[r].st \in {"running", "stopping"}
\* Where a reconcile stands from the checks before a call into the sandbox to the write after it.
Calls == {"call", "called", "confirmed"}
Answered == {"called", "confirmed"}

\* A Run object on its own, current or cached.
RecordStanding(u) ==
    /\ u.attempted => u.ref
    /\ u.accGen # 0 => u.attempted
    /\ u.exists /\ u.attempted => u.final
    /\ u.state \in {"AdapterAccepted", "Running"} => u.accGen # 0
    /\ u.verdict => u.state \in Terminals

\* A Run never goes back: w is what u has become.
Later(u, w) ==
    /\ u.deleting => w.deleting
    /\ u.cancel => w.cancel
    /\ u.state \in Terminals => w.state = u.state
    /\ u.attempted => w.attempted
    /\ Path(u) # "work" => w.attempted = u.attempted /\ w.accGen = u.accGen

\* The cached Run is an earlier version of the Run: a Run that the cache shows off the work
\* path is off it, and one that the cache shows without an Environment never started a process.
CacheStanding(r) ==
    LET u == view[r].run
    IN  /\ RecordStanding(run[r]) /\ RecordStanding(u)
        /\ runFresh[r] => u = run[r]
        /\ Later(u, run[r])
        /\ ~u.ref => ~run[r].attempted
        /\ u.exists /\ ~u.deleting /\ u.attempted => run[r].exists
        /\ run[r].verdict => ~(Path(u) = "work" /\ u.state = "EnvironmentReady")
        /\ run[r].state = "Cancelled" => Path(u) # "work"

\* A Pod serves an existing Environment, a paused or deleted one is not connected, a held one
\* cannot be reached, and an outstanding suspend request has a claimant.
PodStanding ==
    /\ live => env.exists /\ env.gen > 0
    /\ env.phase = "Paused" => ~live /\ env.conn = 0
    /\ ~env.exists => env.conn = 0
    /\ Hold(env) => ~Reachable(env)
    /\ env.fence # 0 => env.claim # "none"
\* The processes are those of the Pod that is there.
SandboxStanding ==
    \A r \in Runs : /\ proc[r].st # "none" => live /\ proc[r].gen = env.gen
                    /\ proc[r].st = "exited" => proc[r].gen \in ended[r]
EnvStanding == PodStanding /\ SandboxStanding

\* Executions are numbered in order, and a live execution that accepted the Run knows its
\* process: sandboxd's answer that there is none is never about that execution.
ExecutionStanding(r) ==
    LET u == view[r].run
        e == view[r].env
    IN  /\ envFresh[r] => e = env
        /\ Hold(e) => ~Reachable(e)
        /\ e.gen <= env.gen /\ run[r].accGen <= env.gen /\ u.accGen <= env.gen
        /\ live /\ env.gen \in {run[r].accGen, u.accGen} => proc[r].st # "none"

\* A process runs under the Run's claim, for a Run that records the attempt, and the cache shows
\* the Environment as the Run's and not as paused; a recorded end leaves none.
ProcessStanding(r) ==
    LET u == view[r].run
        e == view[r].env
    IN  /\ HasProcess(r) => /\ env.exists /\ env.claim = r
                            /\ run[r].exists /\ run[r].attempted
                            /\ Mine(e, r) /\ e.phase # "Paused"
        /\ run[r].state = "Cancelled" \/ run[r].verdict => ~HasProcess(r)
        /\ run[r].verdict => run[r].accGen \in ended[r]

\* What a reconcile in progress has found out, and what the sandbox answered it.
StepStanding(r) ==
    LET u == view[r].run
        e == view[r].env
    IN  /\ pc[r] \in {"wake", "ref", "refused"} => Path(u) = "work"
        /\ pc[r] \in Calls =>
            /\ env.claim = r /\ Mine(e, r) /\ Reachable(e) /\ u.attempted
            /\ Path(u) = "work" => run[r].exists /\ (u.state # "EnvironmentReady" => u.accGen = e.gen)
        /\ pc[r] = "released" => ~HasProcess(r)
        /\ pc[r] \in Answered /\ result[r] = "none" => Path(u) # "work" /\ ~HasProcess(r)
        /\ pc[r] \in Answered /\ result[r] # "none" =>
             /\ Path(u) = "work"
             /\ u.state = "EnvironmentReady" <=> result[r] \in {"Accepted", "Rejected"}
        /\ pc[r] \in Answered /\ result[r] = "Accepted" /\ live /\ env.gen = e.gen => proc[r].st # "none"
        /\ pc[r] \in Answered /\ result[r] \in {"Succeeded", "Failed"} =>
             ~HasProcess(r) /\ u.accGen \in ended[r]

\* A cached claim that is gone was given back by the Run itself, after its process was known to
\* be stopped, so a stale reconcile has no ground to suspend the Environment of the next Run; and
\* a suspend request of a claimant is of one that is ending.
ClaimStanding(r) ==
    LET e == view[r].env
    IN  /\ Mine(e, r) /\ env.claim # r =>
             env.own = "Claimed" /\ (Fenced(e) \/ Reachable(e) \/ ~run[r].attempted)
        /\ env.fence # 0 /\ env.claim = r => Path(view[r].run) # "work"

\* All that stands for one Run.
StandingOf(r) ==
    /\ CacheStanding(r) /\ ExecutionStanding(r) /\ ProcessStanding(r)
    /\ StepStanding(r) /\ ClaimStanding(r)

\* The inductive invariant: the Environment's part, and that of every Run.
RunInductive == EnvStanding /\ \A r \in Runs : StandingOf(r)

-----------------------------------------------------------------------------
(* Types.                                                                  *)

\* The conditions a Run's status may show.
Conds == {"none", "NotReady", "Released", "Lost", "Fenced"}

\* Setting one field of a Run keeps it a Run.
LEMMA RunFields ==
    ASSUME NEW u \in RunType, NEW s \in States, NEW b \in BOOLEAN, NEW n \in Nat, NEW m \in Nat,
           NEW c \in Conds
    PROVE  /\ [u EXCEPT !.state = s, !.cond = "none"] \in RunType
           /\ [u EXCEPT !.exists = b] \in RunType
           /\ [u EXCEPT !.exists = FALSE, !.final = FALSE] \in RunType
           /\ [u EXCEPT !.final = b] \in RunType
           /\ [u EXCEPT !.deleting = b] \in RunType
           /\ [u EXCEPT !.cancel = b] \in RunType
           /\ [u EXCEPT !.ref = b] \in RunType
           /\ [u EXCEPT !.attempted = b] \in RunType
           /\ [u EXCEPT !.verdict = b] \in RunType
           /\ [u EXCEPT !.accGen = n, !.accEpoch = m] \in RunType
           /\ [u EXCEPT !.cond = c] \in RunType
<1>1. [u EXCEPT !.state = s, !.cond = "none"] \in RunType
  BY Zenon DEF RunType, States, Terminals
<1>2. [u EXCEPT !.exists = b] \in RunType
  BY Zenon DEF RunType
<1>3. [u EXCEPT !.exists = FALSE, !.final = FALSE] \in RunType
  BY Zenon DEF RunType
<1>4. [u EXCEPT !.final = b] \in RunType
  BY Zenon DEF RunType
<1>5. [u EXCEPT !.deleting = b] \in RunType
  BY Zenon DEF RunType
<1>6. [u EXCEPT !.cancel = b] \in RunType
  BY Zenon DEF RunType
<1>7. [u EXCEPT !.ref = b] \in RunType
  BY Zenon DEF RunType
<1>8. [u EXCEPT !.attempted = b] \in RunType
  BY Zenon DEF RunType
<1>9. [u EXCEPT !.verdict = b] \in RunType
  BY Zenon DEF RunType
<1>10. [u EXCEPT !.accGen = n, !.accEpoch = m] \in RunType
  BY Zenon DEF RunType
<1>11. [u EXCEPT !.cond = c] \in RunType
  BY Zenon DEF RunType, Conds
<1> QED
  BY Zenon, <1>1, <1>2, <1>3, <1>4, <1>5, <1>6, <1>7, <1>8, <1>9, <1>10, <1>11

\* The types, in the parts that a step changes together.
ObjectsOK ==
    /\ run \in [Runs -> RunType] /\ env \in EnvType
    /\ view \in [Runs -> [run : RunType, env : EnvType]]
    /\ runFresh \in [Runs -> BOOLEAN] /\ envFresh \in [Runs -> BOOLEAN]
SandboxOK == live \in BOOLEAN /\ proc \in [Runs -> ProcType] /\ ended \in [Runs -> SUBSET Nat]
ReconcileOK == pc \in [Runs -> Steps] /\ result \in [Runs -> Results]

\* The steps of a Run's reconcile, by what they change: the Run ...
RunWrites(r) ==
    \/ AddFinalizer(r) \/ CancelBeforeAllocation(r) \/ RefuseAllocation(r)
    \/ RecordAllocation(r) \/ RecordRefusal(r) \/ LoseEnvironment(r) \/ FollowEnvironment(r)
    \/ MarkAcceptanceAttempted(r) \/ RecordAcceptance(r) \/ RecordObservation(r)
    \/ NoteEnvironment(r) \/ RecordCancelled(r) \/ RecordReleased(r) \/ RecordFenced(r)
    \/ RemoveFinalizer(r)
\* ... the Environment ...
EnvWrites(r) ==
    \/ ClaimEnvironment(r) \/ RecoverClaim(r) \/ WakeClaim(r) \/ CreateEnvironment(r)
    \/ RequestEnvironmentFence(r) \/ ReleaseClaim(r)
\* ... the process in the sandbox ...
SandboxCalls(r) == StartProcess(r) \/ Observe(r) \/ StopProcess(r)
\* ... or only where the reconcile stands.
Advances(r) == BeginCall(r) \/ Confirm(r) \/ Fail(r) \/ Abort(r)

\* Every step is one of these.
LEMMA StepKinds ==
    ASSUME [Next]_vars
    PROVE  \/ UNCHANGED vars
           \/ Environment \/ SetHold
           \/ \E r \in Runs : \/ RunWrites(r) \/ EnvWrites(r) \/ SandboxCalls(r) \/ Advances(r)
                              \/ SyncRun(r) \/ SyncEnv(r) \/ CancelRun(r) \/ DeleteRun(r)
                              \/ ProcessExits(r)
BY Zenon DEF Next, Reconcile, RunWrites, EnvWrites, SandboxCalls, Advances

\* A reconcile writes Runs of the right type, and then it is over.
LEMMA RunWritesTyped ==
    ASSUME TypeOK, NEW r \in Runs, RunWrites(r)
    PROVE  \E u \in RunType : /\ WriteRun(r, u)
                              /\ UNCHANGED <<pc, result>> \/ Return(r)
<1> DEFINE u == view[r].run
           e == view[r].env
<1>t. /\ u \in RunType /\ e \in EnvType /\ result[r] \in Results
      /\ e.gen \in Nat /\ e.epoch \in Nat /\ u.state \in States
  BY Zenon DEF TypeOK, EnvType, RunType
<1>s. \A s \in States : SetState(u, s) \in RunType
  BY Zenon, <1>t, RunFields DEF SetState, Conds
<1>l. {"Allocating", "Failed", "Cancelled", "AdapterAccepted", "Paused", "EnvironmentReady"}
        \subseteq States
  BY Zenon DEF States, Terminals
<1> HIDE DEF u, e
<1>1. CASE AddFinalizer(r)
  <2>1. [u EXCEPT !.final = TRUE] \in RunType
    BY Zenon, <1>t, RunFields DEF Conds
  <2> QED
    BY Zenon, <1>1, <2>1 DEF AddFinalizer, u
<1>2. CASE CancelBeforeAllocation(r)
  <2>1. [SetState(u, "Allocating") EXCEPT !.ref = TRUE] \in RunType
    BY Zenon, <1>s, <1>l, RunFields DEF Conds
  <2>2. SetState(u, "Cancelled") \in RunType
    BY Zenon, <1>s, <1>l
  <2> QED
    BY Zenon, <1>2, <2>1, <2>2 DEF CancelBeforeAllocation, u
<1>3. CASE RefuseAllocation(r)
  <2>2. SetState(u, "Failed") \in RunType
    BY Zenon, <1>s, <1>l
  <2> QED
    BY Zenon, <1>3, <2>2 DEF RefuseAllocation, u
<1>4. CASE RecordAllocation(r)
  <2>1. [SetState(u, "Allocating") EXCEPT !.ref = TRUE] \in RunType
    BY <1>s, <1>l, RunFields DEF Conds
  <2> QED
    BY Zenon, <1>4, <2>1 DEF RecordAllocation, u
<1>5. CASE RecordRefusal(r)
  <2>2. SetState(u, "Failed") \in RunType
    BY <1>s, <1>l
  <2> QED
    BY Zenon, <1>5, <2>2 DEF RecordRefusal, u
<1>6. CASE LoseEnvironment(r)
  <2>1. [SetState(u, "Failed") EXCEPT !.cond = "Lost"] \in RunType
    BY Zenon, <1>s, <1>l, RunFields DEF Conds
  <2> QED
    BY Zenon, <1>6, <2>1 DEF LoseEnvironment, u
<1>7. CASE FollowEnvironment(r)
  <2>1. StateFrom(u, e) \in States
    BY Zenon, <1>t, <1>l DEF StateFrom
  <2>2. SetState(u, StateFrom(u, e)) \in RunType
    BY Zenon, <1>s, <2>1
  <2> QED
    BY Zenon, <1>7, <2>2 DEF FollowEnvironment, u, e
<1>8. CASE MarkAcceptanceAttempted(r)
  <2>1. [u EXCEPT !.attempted = TRUE] \in RunType
    BY Zenon, <1>t, RunFields DEF Conds
  <2> QED
    BY Zenon, <1>8, <2>1 DEF MarkAcceptanceAttempted, u
<1>9. CASE RecordAcceptance(r)
  <2>1. SetState(u, "Failed") \in RunType
    BY <1>s, <1>l
  <2>2. [SetState(u, "AdapterAccepted") EXCEPT !.accGen = e.gen, !.accEpoch = e.epoch] \in RunType
    BY Zenon, <1>s, <1>l, <1>t, RunFields DEF Conds
  <2> QED
    BY Zenon, <1>9, <2>1, <2>2 DEF RecordAcceptance, u, e
<1>10. CASE RecordObservation(r)
  <2> DEFINE s == IF result[r] = "Refused" THEN "Failed" ELSE result[r]
             b == result[r] \in {"Succeeded", "Failed"}
  <2>1. s \in States /\ b \in BOOLEAN
    BY <1>10 DEF RecordObservation, States, Terminals
  <2>2. SetState(u, s) \in RunType
    BY Zenon, <1>s, <2>1
  <2> HIDE DEF s, b
  <2>3. [SetState(u, s) EXCEPT !.verdict = b] \in RunType
    BY Zenon, <2>1, <2>2, RunFields DEF Conds
  <2> QED
    BY Zenon, <1>10, <2>3 DEF RecordObservation, u, s, b
<1>11. CASE NoteEnvironment(r)
  <2>1. \A c \in Conds : [u EXCEPT !.cond = c] \in RunType
    BY Zenon, <1>t, <1>l, RunFields
  <2>2. PICK c \in Conds : WriteRun(r, [u EXCEPT !.cond = c]) /\ UNCHANGED <<pc, result>>
    BY Zenon, <1>11 DEF NoteEnvironment, Conds, u
  <2> QED
    BY Zenon, <2>1, <2>2
<1>12. CASE RecordCancelled(r)
  <2>1. SetState(u, "Cancelled") \in RunType
    BY <1>s, <1>l
  <2> QED
    BY Zenon, <1>12, <2>1 DEF RecordCancelled, u
<1>13. CASE RecordReleased(r)
  <2>1. [u EXCEPT !.cond = "Released"] \in RunType
    BY Zenon, <1>t, <1>l, RunFields DEF Conds
  <2> QED
    BY Zenon, <1>13, <2>1 DEF RecordReleased, u
<1>14. CASE RecordFenced(r)
  <2>1. [u EXCEPT !.cond = "Fenced"] \in RunType
    BY Zenon, <1>t, <1>l, RunFields DEF Conds
  <2> QED
    BY Zenon, <1>14, <2>1 DEF RecordFenced, u
<1>15. CASE RemoveFinalizer(r)
  <2>1. [u EXCEPT !.exists = FALSE, !.final = FALSE] \in RunType
    BY Zenon, <1>t, <1>l, RunFields DEF Conds
  <2> QED
    BY Zenon, <1>15, <2>1 DEF RemoveFinalizer, u
<1> QED
  BY Zenon, <1>1, <1>2, <1>3, <1>4, <1>5, <1>6, <1>7, <1>8, <1>9, <1>10, <1>11, <1>12, <1>13, <1>14,
     <1>15 DEF RunWrites

\* A write to the Environment, if there is one, is of the right type: by a reconcile ...
LEMMA EnvWritesTyped ==
    ASSUME TypeOK, NEW r \in Runs, EnvWrites(r)
    PROVE  /\ UNCHANGED <<run, sandbox, view, runFresh>> /\ ReconcileOK'
           /\ UNCHANGED <<env, envFresh>> \/ \E e \in EnvType : PutEnv(e)
<1> DEFINE e == view[r].env
<1>t. e \in EnvType /\ env \in EnvType /\ pc \in [Runs -> Steps] /\ result \in [Runs -> Results]
  BY Zenon DEF TypeOK
<1>n. /\ e.epoch \in Nat /\ e.lastSeq \in Nat /\ env.rev \in Nat
      /\ {"Creating", "Ready"} \subseteq {"Creating", "Ready", "Resuming", "Paused", "Failed"}
      /\ r \in Runs \cup {"none"} /\ "none" \in Runs \cup {"none"}
  BY Zenon, <1>t DEF EnvType
<1>c. /\ [e EXCEPT !.claim = r] \in EnvType /\ [e EXCEPT !.claim = "none"] \in EnvType
      /\ [env EXCEPT !.wake = TRUE, !.obs = FALSE] \in EnvType
  <2>1. ASSUME NEW q \in Runs \cup {"none"} PROVE [e EXCEPT !.claim = q] \in EnvType
    BY Zenon, <1>t DEF EnvType
  <2>2. [env EXCEPT !.wake = TRUE, !.obs = FALSE] \in EnvType
    BY Zenon, <1>t, <1>n DEF EnvType
  <2> QED
    BY Zenon, <2>1, <2>2, <1>n
<1>p. /\ \A s \in Steps : Goto(r, s) => pc' \in [Runs -> Steps]
      /\ \A a \in Results : Answer(r, a) => result' \in [Runs -> Results]
  BY Zenon, <1>t DEF Goto, Answer
<1>q. /\ {"idle", "wake", "ref", "refused", "released"} \subseteq Steps /\ "none" \in Results
      /\ UNCHANGED result => result' \in [Runs -> Results]
  BY Zenon, <1>t DEF Steps, Results
<1> HIDE DEF e
<1>1. CASE ClaimEnvironment(r)
  BY Zenon, <1>1, <1>c, <1>p, <1>q DEF ClaimEnvironment, WriteEnv, ReconcileOK, e
<1>2. CASE RecoverClaim(r)
  BY Zenon, <1>2, <1>c, <1>p, <1>q DEF RecoverClaim, WriteEnv, ReconcileOK, e
<1>3. CASE WakeClaim(r)
  BY Zenon, <1>3, <1>c, <1>p, <1>q DEF WakeClaim, ReconcileOK, e
<1>4. CASE CreateEnvironment(r)
  <2> DEFINE f == [NewEnv("Owned") EXCEPT !.exists = TRUE, !.claim = r]
  <2>1. "Owned" \in Ownerships
    BY Zenon, <1>4, <1>t DEF CreateEnvironment, EnvType
  <2>2. NewEnv("Owned") \in EnvType
    BY Zenon, <2>1 DEF NewEnv, EnvType
  <2>3. f \in EnvType
    BY Zenon, <2>2, <1>n DEF EnvType
  <2> HIDE DEF f
  <2> QED
    BY Zenon, <1>4, <2>3, <1>p, <1>q DEF CreateEnvironment, ReconcileOK, f
<1>5. CASE RequestEnvironmentFence(r)
  <2> DEFINE seq == (IF e.epoch > e.lastSeq THEN e.epoch ELSE e.lastSeq) + 1
             f == [env EXCEPT !.fence = seq, !.fenceRev = env.rev, !.obs = FALSE]
  <2>1. seq \in Nat
    BY <1>n
  <2> HIDE DEF seq
  <2>2. f \in EnvType
    BY Zenon, <2>1, <1>n, <1>t DEF EnvType
  <2>3. PutEnv(f) /\ Return(r) /\ UNCHANGED <<run, sandbox, view, runFresh>>
    BY Zenon, <1>5 DEF RequestEnvironmentFence, seq, e
  <2> HIDE DEF f
  <2> QED
    BY Zenon, <2>2, <2>3, <1>p, <1>q DEF Return, ReconcileOK
<1>6. CASE ReleaseClaim(r)
  BY Zenon, <1>6, <1>c, <1>p, <1>q DEF ReleaseClaim, WriteEnv, ReconcileOK, e
<1> QED
  BY Zenon, <1>1, <1>2, <1>3, <1>4, <1>5, <1>6 DEF EnvWrites

\* ... or by the Environment's own controller.
LEMMA EnvironmentTyped ==
    ASSUME TypeOK, Environment \/ SetHold
    PROVE  /\ UNCHANGED <<run, view, runFresh, pc, result>> /\ SandboxOK'
           /\ UNCHANGED <<env, envFresh>> \/ \E e \in EnvType : PutEnv(e)
<1> DEFINE Phases == {"Creating", "Ready", "Resuming", "Paused", "Failed"}
           Reasons == {"none", "Idle", "Requested", "Hold"}
<1>t. /\ env \in EnvType /\ live \in BOOLEAN /\ proc \in [Runs -> ProcType]
      /\ ended \in [Runs -> SUBSET Nat]
  BY Zenon DEF TypeOK
<1>n. /\ env.gen \in Nat /\ env.rev \in Nat /\ env.epoch \in Nat /\ env.lastSeq \in Nat
      /\ env.fence \in Nat /\ env.wake \in BOOLEAN /\ env.obs \in BOOLEAN
      /\ 0 \in Nat /\ TRUE \in BOOLEAN /\ FALSE \in BOOLEAN
      /\ "none" \in Runs \cup {"none"} /\ "none" \in Reasons /\ "Paused" \in Phases
  BY Zenon, <1>t DEF EnvType
<1>u. UNCHANGED sandbox => SandboxOK'
  BY Zenon, <1>t DEF sandbox, SandboxOK
<1>s. \A e : EnvStep(e) => PutEnv(e) /\ UNCHANGED <<run, view, runFresh, pc, result>>
  BY Zenon DEF EnvStep
<1>p. ASSUME NEW n \in Nat, NEW p \in Phases
      PROVE  /\ [env EXCEPT !.conn = n, !.phase = p, !.obs = TRUE] \in EnvType
             /\ [env EXCEPT !.phase = p, !.obs = TRUE] \in EnvType
  BY Zenon, <1>t, <1>n DEF EnvType
<1>1. CASE EnvStarts
  <2>1. [env EXCEPT !.gen = @ + 1] \in EnvType
    <3>1. env.gen + 1 \in Nat
      BY <1>n
    <3> QED
      BY Zenon, <3>1, <1>t, <1>n DEF EnvType
  <2>2. SandboxOK'
    BY Zenon, <1>1, <1>t DEF EnvStarts, SandboxOK
  <2> QED
    BY Zenon, <1>1, <2>1, <2>2, <1>s DEF EnvStarts
<1>2. CASE EnvPublishes
  BY Zenon, <1>2, <1>p, <1>n, <1>s, <1>u DEF EnvPublishes
<1>3. CASE EnvWithdraws
  BY Zenon, <1>3, <1>p, <1>n, <1>s, <1>u DEF EnvWithdraws
<1>4. CASE EnvFails
  BY Zenon, <1>4, <1>p, <1>n, <1>s, <1>u DEF EnvFails
<1>5. CASE EnvStops
  BY Zenon, <1>5, <1>t DEF EnvStops, SandboxOK, NoProc, ProcType
<1>6. CASE EnvSuspends
  <2>1. PICK why \in Reasons, n \in Nat, m \in Nat :
          /\ EnvStep([env EXCEPT !.susp = TRUE, !.reason = why, !.epoch = n, !.lastSeq = m,
                                 !.wake = @ /\ why = env.reason, !.obs = @ /\ why = "Idle"])
          /\ UNCHANGED sandbox
    <3> DEFINE why == IF Hold(env) THEN "Hold" ELSE IF FenceNew THEN "Requested" ELSE "Idle"
               n == IF env.susp THEN env.epoch ELSE env.epoch + 1
               m == IF FenceNew THEN env.fence ELSE env.lastSeq
               P(x, y, z) ==
                  /\ EnvStep([env EXCEPT !.susp = TRUE, !.reason = x, !.epoch = y, !.lastSeq = z,
                                         !.wake = @ /\ x = env.reason, !.obs = @ /\ x = "Idle"])
                  /\ UNCHANGED sandbox
    <3>1. why \in Reasons /\ n \in Nat /\ m \in Nat
      BY <1>n
    <3>2. P(why, n, m)
      BY Zenon, <1>6 DEF EnvSuspends
    <3> HIDE DEF why, n, m, P
    <3>3. \E x \in Reasons, y \in Nat, z \in Nat : P(x, y, z)
      BY Zenon, <3>1, <3>2
    <3> QED
      BY Zenon, <3>3 DEF P
  <2> DEFINE b == env.wake /\ why = env.reason
             c == env.obs /\ why = "Idle"
             f == [env EXCEPT !.susp = TRUE, !.reason = why, !.epoch = n, !.lastSeq = m,
                              !.wake = b, !.obs = c]
  <2>2. b \in BOOLEAN /\ c \in BOOLEAN
    BY Zenon, <1>n
  <2>3. EnvStep(f)
    BY Zenon, <2>1
  <2> HIDE DEF b, c
  <2>4. f \in EnvType
    BY Zenon, <2>2, <1>t, <1>n DEF EnvType
  <2> HIDE DEF f
  <2> QED
    BY Zenon, <2>1, <2>3, <2>4, <1>s, <1>u
<1>7. CASE EnvDiscards
  <2>1. [env EXCEPT !.fence = 0, !.obs = FALSE] \in EnvType
    BY Zenon, <1>t, <1>n DEF EnvType
  <2> QED
    BY Zenon, <1>7, <2>1, <1>s, <1>u DEF EnvDiscards
<1>8. CASE EnvPauses
  <2>1. [env EXCEPT !.fence = 0] \in EnvType
    BY Zenon, <1>t, <1>n DEF EnvType
  <2> QED
    BY Zenon, <1>8, <2>1, <1>p, <1>n, <1>s, <1>u DEF EnvPauses
<1>9. CASE EnvReleases
  <2>1. [env EXCEPT !.susp = FALSE, !.reason = "none", !.wake = FALSE, !.obs = FALSE] \in EnvType
    BY Zenon, <1>t, <1>n DEF EnvType
  <2> QED
    BY Zenon, <1>9, <2>1, <1>s, <1>u DEF EnvReleases
<1>10. CASE EnvResumes
  BY Zenon, <1>10, <1>p, <1>n, <1>s, <1>u DEF EnvResumes
<1>11. CASE EnvDeleted
  <2>1. [env EXCEPT !.exists = FALSE, !.conn = 0] \in EnvType
    BY Zenon, <1>t, <1>n DEF EnvType
  <2> QED
    BY Zenon, <1>11, <2>1, <1>s, <1>u DEF EnvDeleted
<1>12. CASE SetHold
  <2>1. [env EXCEPT !.rev = @ + 1, !.wake = FALSE, !.obs = FALSE] \in EnvType
    <3>1. env.rev + 1 \in Nat
      BY <1>n
    <3> QED
      BY Zenon, <3>1, <1>t, <1>n DEF EnvType
  <2> QED
    BY Zenon, <1>12, <2>1, <1>s, <1>u DEF SetHold
<1> QED
  BY Zenon, <1>1, <1>2, <1>3, <1>4, <1>5, <1>6, <1>7, <1>8, <1>9, <1>10, <1>11, <1>12 DEF Environment

\* No step of a Run's reconcile, its cache, its users or its Environment leaves the types.
LEMMA TypeStep == TypeOK /\ [Next]_vars => TypeOK'
<1> SUFFICES ASSUME TypeOK, [Next]_vars PROVE TypeOK'
  OBVIOUS
<1>o. ObjectsOK /\ SandboxOK /\ ReconcileOK
  BY Zenon DEF TypeOK, ObjectsOK, SandboxOK, ReconcileOK
<1> SUFFICES ObjectsOK' /\ SandboxOK' /\ ReconcileOK'
  BY Zenon DEF TypeOK, ObjectsOK, SandboxOK, ReconcileOK
<1>s. UNCHANGED sandbox => SandboxOK'
  BY Zenon, <1>o DEF SandboxOK, sandbox
<1>c. UNCHANGED <<pc, result>> => ReconcileOK'
  BY Zenon, <1>o DEF ReconcileOK
<1>r. \A r \in Runs : Return(r) => ReconcileOK'
  BY Zenon, <1>o DEF ReconcileOK, Return, Goto, Answer, Steps, Results
<1>e. (\E e \in EnvType : PutEnv(e)) /\ UNCHANGED <<run, view, runFresh>> => ObjectsOK'
  BY Zenon, <1>o DEF ObjectsOK, PutEnv
<1>u. UNCHANGED <<run, env, view, runFresh, envFresh>> => ObjectsOK'
  BY Zenon, <1>o DEF ObjectsOK
<1>1. CASE UNCHANGED vars
  BY Zenon, <1>1, <1>s, <1>c, <1>u DEF vars, sandbox
<1>2. CASE Environment \/ SetHold
  BY Zenon, <1>2, <1>c, <1>u, <1>e, EnvironmentTyped
<1>3. ASSUME NEW r \in Runs, RunWrites(r) PROVE ObjectsOK' /\ SandboxOK' /\ ReconcileOK'
  <2>1. PICK u \in RunType : WriteRun(r, u) /\ (UNCHANGED <<pc, result>> \/ Return(r))
    BY Zenon, <1>3, RunWritesTyped
  <2>2. run' \in [Runs -> RunType] /\ runFresh' \in [Runs -> BOOLEAN]
    BY Zenon, <2>1, <1>o DEF WriteRun, PutRun, ObjectsOK
  <2> QED
    BY Zenon, <2>1, <2>2, <1>o, <1>s, <1>c, <1>r DEF WriteRun, ObjectsOK
<1>4. ASSUME NEW r \in Runs, EnvWrites(r) PROVE ObjectsOK' /\ SandboxOK' /\ ReconcileOK'
  BY Zenon, <1>4, <1>s, <1>u, <1>e, EnvWritesTyped
<1>5. ASSUME NEW r \in Runs, SandboxCalls(r) PROVE ObjectsOK' /\ SandboxOK' /\ ReconcileOK'
  <2>1. UNCHANGED <<run, env, view, runFresh, envFresh, live, ended>>
    BY Zenon, <1>5 DEF SandboxCalls, StartProcess, Observe, StopProcess, Called
  <2>2. proc' \in [Runs -> ProcType]
    <3>1. proc \in [Runs -> ProcType] /\ env.gen \in Nat
      BY Zenon, <1>o DEF SandboxOK, ObjectsOK, EnvType
    <3>2. [gen |-> env.gen, st |-> "running"] \in ProcType
      BY Zenon, <3>1 DEF ProcType
    <3>3. [proc EXCEPT ![r].st = "stopping"] \in [Runs -> ProcType]
      BY Zenon, <3>1 DEF ProcType
    <3> QED
      BY Zenon, <1>5, <3>1, <3>2, <3>3 DEF SandboxCalls, StartProcess, Observe, StopProcess
  <2>3. ReconcileOK'
    <3>1. \A a \in Results : Called(r, a) => ReconcileOK'
      BY Zenon, <1>o DEF ReconcileOK, Called, Goto, Answer, Steps
    <3>2. {"none", "Accepted", "Rejected", "Failed", "Succeeded", "Running", "Refused"} \subseteq Results
      BY Zenon DEF Results
    <3>3. CASE StartProcess(r)
      BY Zenon, <3>1, <3>2, <3>3 DEF StartProcess
    <3>4. CASE Observe(r)
      <4> DEFINE A == CASE proc[r].st = "none" -> {"Failed"}
                        [] proc[r].st = "exited" -> {"Succeeded", "Failed"}
                        [] OTHER -> {"Running"} \cup (IF "rejected" \in Events THEN {"Refused"} ELSE {})
      <4>1. A \subseteq Results
        BY Zenon, <3>2
      <4>2. PICK a \in A : Called(r, a)
        BY Zenon, <3>4 DEF Observe
      <4> QED
        BY Zenon, <3>1, <4>1, <4>2
    <3>5. CASE StopProcess(r)
      BY Zenon, <3>1, <3>2, <3>5, <1>r DEF StopProcess
    <3> QED
      BY Zenon, <1>5, <3>3, <3>4, <3>5 DEF SandboxCalls
  <2> QED
    BY Zenon, <2>1, <2>2, <2>3, <1>u, <1>o DEF SandboxOK
<1>6. ASSUME NEW r \in Runs, Advances(r) PROVE ObjectsOK' /\ SandboxOK' /\ ReconcileOK'
  <2>1. UNCHANGED <<run, env, sandbox, view, runFresh, envFresh>>
    BY Zenon, <1>6 DEF Advances, BeginCall, Confirm, Fail, Abort
  <2>2. ReconcileOK'
    <3>1. Goto(r, "call") /\ UNCHANGED result => ReconcileOK'
      BY Zenon, <1>o DEF ReconcileOK, Goto, Steps
    <3>2. Goto(r, "confirmed") /\ UNCHANGED result => ReconcileOK'
      BY Zenon, <1>o DEF ReconcileOK, Goto, Steps
    <3> QED
      BY Zenon, <1>6, <3>1, <3>2, <1>r DEF Advances, BeginCall, Confirm, Fail, Abort
  <2> QED
    BY Zenon, <2>1, <2>2, <1>s, <1>u
<1>7. ASSUME NEW r \in Runs, SyncRun(r) \/ SyncEnv(r)
      PROVE  ObjectsOK' /\ SandboxOK' /\ ReconcileOK'
  <2>1. UNCHANGED <<run, env, sandbox, pc, result>>
    BY Zenon, <1>7 DEF SyncRun, SyncEnv
  <2>2. runFresh' \in [Runs -> BOOLEAN] /\ envFresh' \in [Runs -> BOOLEAN]
    BY Zenon, <1>7, <1>o DEF SyncRun, SyncEnv, ObjectsOK
  <2>3. view' \in [Runs -> [run : RunType, env : EnvType]]
    <3>1. /\ view \in [Runs -> [run : RunType, env : EnvType]] /\ env \in EnvType
          /\ run[r] \in RunType
      BY Zenon, <1>o DEF ObjectsOK
    <3>2. /\ [view EXCEPT ![r].run = run[r]] \in [Runs -> [run : RunType, env : EnvType]]
          /\ [view EXCEPT ![r].env = env] \in [Runs -> [run : RunType, env : EnvType]]
      BY Zenon, <3>1
    <3> QED
      BY Zenon, <1>7, <3>2 DEF SyncRun, SyncEnv
  <2> QED
    BY Zenon, <2>1, <2>2, <2>3, <1>o, <1>s, <1>c DEF ObjectsOK
<1>8. ASSUME NEW r \in Runs, CancelRun(r) \/ DeleteRun(r)
      PROVE  ObjectsOK' /\ SandboxOK' /\ ReconcileOK'
  <2>t. run[r] \in RunType
    BY Zenon, <1>o DEF ObjectsOK
  <2>1. /\ [run[r] EXCEPT !.cancel = TRUE] \in RunType
        /\ [run[r] EXCEPT !.deleting = TRUE] \in RunType
        /\ [run[r] EXCEPT !.exists = FALSE] \in RunType
    BY Zenon, <2>t DEF RunType
  <2>2. \E u \in RunType : UserStep(r, u)
    BY Zenon, <1>8, <2>1 DEF CancelRun, DeleteRun
  <2>3. PICK u \in RunType : UserStep(r, u)
    BY Zenon, <2>2
  <2>4. run' \in [Runs -> RunType] /\ runFresh' \in [Runs -> BOOLEAN]
    BY Zenon, <2>3, <1>o DEF UserStep, PutRun, ObjectsOK
  <2> QED
    BY Zenon, <2>3, <2>4, <1>o, <1>s, <1>c DEF UserStep, ObjectsOK
<1>9. ASSUME NEW r \in Runs, ProcessExits(r) PROVE ObjectsOK' /\ SandboxOK' /\ ReconcileOK'
  <2>1. UNCHANGED <<run, env, live, view, runFresh, envFresh, pc, result>>
    BY Zenon, <1>9 DEF ProcessExits
  <2>2. proc' \in [Runs -> ProcType] /\ ended' \in [Runs -> SUBSET Nat]
    <3>1. /\ proc \in [Runs -> ProcType] /\ ended \in [Runs -> SUBSET Nat]
          /\ proc[r].gen \in Nat
      BY Zenon, <1>o DEF SandboxOK, ProcType
    <3>2. [proc EXCEPT ![r].st = "exited"] \in [Runs -> ProcType]
      BY Zenon, <3>1 DEF ProcType
    <3>3. [ended EXCEPT ![r] = @ \cup {proc[r].gen}] \in [Runs -> SUBSET Nat]
      BY Zenon, <3>1
    <3> QED
      BY Zenon, <1>9, <3>2, <3>3 DEF ProcessExits
  <2> QED
    BY Zenon, <2>1, <2>2, <1>u, <1>c, <1>o DEF SandboxOK
<1> QED
  BY Zenon, StepKinds, <1>1, <1>2, <1>3, <1>4, <1>5, <1>6, <1>7, <1>8, <1>9

\* A new Run and an Environment that is not there yet are of their types.
LEMMA TypeStart == Init => TypeOK
<1> SUFFICES ASSUME Init PROVE TypeOK
  OBVIOUS
<1>1. NewRun \in RunType
  BY Zenon DEF NewRun, RunType, States
<1>2. PICK o \in Ownerships : env = NewEnv(o)
  BY Zenon DEF Init
<1>3. env \in EnvType
  BY Zenon, <1>2 DEF NewEnv, EnvType
<1>4. NoProc \in ProcType
  BY Zenon DEF NoProc, ProcType
<1>5. [run |-> NewRun, env |-> env] \in [run : RunType, env : EnvType]
  BY Zenon, <1>1, <1>3
<1> QED
  BY Zenon, <1>1, <1>3, <1>4, <1>5 DEF Init, TypeOK, Steps, Results

-----------------------------------------------------------------------------
(* What a reconcile may write to its Run.                                  *)

\* The conditions of Reconcile's paths.
LEMMA Paths ==
    ASSUME NEW u \in RunType
    PROVE  /\ Path(u) = "work" <=> ~u.deleting /\ u.state \notin Terminals /\ ~u.cancel
           /\ Path(u) = "cancel" <=> ~u.deleting /\ u.state \notin Terminals /\ u.cancel
           /\ Path(u) = "cleanup" <=> ~u.deleting /\ u.state \in Terminals
           /\ Path(u) = "finalize" <=> u.deleting
           /\ Path(u) \in {"work", "cancel", "cleanup", "finalize"}
<1>t. u.deleting \in BOOLEAN /\ u.cancel \in BOOLEAN
  BY Zenon DEF RunType
<1>1. CASE u.deleting
  BY Zenon, <1>1 DEF Path
<1>2. CASE ~u.deleting /\ u.state \in Terminals
  BY Zenon, <1>2 DEF Path
<1>3. CASE ~u.deleting /\ u.state \notin Terminals /\ u.cancel
  BY Zenon, <1>3 DEF Path
<1>4. CASE ~u.deleting /\ u.state \notin Terminals /\ ~u.cancel
  BY Zenon, <1>4 DEF Path
<1> QED
  BY Zenon, <1>t, <1>1, <1>2, <1>3, <1>4

\* What a reconcile of r, having read u and e from its cache, may make of the Run: a later
\* version of it, with an attempt only where the Environment can be reached, an acceptance only
\* by the execution it read, an end only where no process is left, and a verdict only on a
\* process that ended in the execution that accepted it.
Edit(r, w) ==
    LET u == view[r].run
        e == view[r].env
    IN  /\ RecordStanding(w) /\ Later(u, w)
        /\ w.attempted /\ ~u.attempted => u.ref /\ Reachable(e)
        /\ \/ w.accGen = u.accGen
           \/ w.accGen = e.gen /\ (live /\ env.gen = e.gen => proc[r].st # "none")
        /\ w.exists \/ ~u.exists \/ (u.deleting /\ ~HasProcess(r))
        /\ w.state = "Cancelled" /\ u.state # "Cancelled" => Path(u) # "work" /\ ~HasProcess(r)
        /\ w.verdict =>
             /\ w.accGen = u.accGen
             /\ \/ u.verdict
                \/ /\ ~HasProcess(r) /\ u.accGen \in ended[r]
                   /\ ~(Path(u) = "work" /\ u.state = "EnvironmentReady")

\* A step that writes the Run that way, or meets a conflict, and returns.
Edited(r) ==
    /\ UNCHANGED <<env, envFresh, view, sandbox>>
    /\ pc' = [pc EXCEPT ![r] = "idle"]
    /\ \A q \in Runs \ {r} : result'[q] = result[q] /\ run'[q] = run[q] /\ runFresh'[q] = runFresh[q]
    /\ \/ UNCHANGED <<run, runFresh>>
       \/ view[r].run = run[r] /\ ~runFresh'[r] /\ Edit(r, run'[r])

\* The fields of a Run that a write may change, after it.
LEMMA SetStateFields ==
    ASSUME NEW u \in RunType, NEW s
    PROVE  LET w == SetState(u, s)
           IN  /\ w.state = s /\ w.exists = u.exists /\ w.deleting = u.deleting /\ w.final = u.final
               /\ w.cancel = u.cancel /\ w.verdict = u.verdict /\ w.ref = u.ref
               /\ w.attempted = u.attempted /\ w.accGen = u.accGen
BY Zenon DEF SetState, RunType

\* A Run at rest, given another state that is not an outcome of its process.
Moved(u, w) ==
    /\ w.exists = u.exists /\ w.deleting = u.deleting /\ w.cancel = u.cancel
    /\ w.verdict = u.verdict /\ w.attempted = u.attempted /\ w.accGen = u.accGen
    /\ u.final => w.final
    /\ u.ref => w.ref

\* Writing only the state: it must not leave a terminal one, and claims no acceptance
\* that was not there.
LEMMA MovedIsEdit ==
    ASSUME NEW r \in Runs, NEW w \in RunType, NEW u \in RunType, u = view[r].run, RecordStanding(u),
           Moved(u, w),
           u.state \in Terminals => w.state = u.state,
           w.state \in {"AdapterAccepted", "Running"} => u.accGen # 0,
           w.state = "Cancelled" /\ u.state # "Cancelled" => Path(u) # "work" /\ ~HasProcess(r)
    PROVE  Edit(r, w)
<1>1. RecordStanding(w)
  BY Zenon DEF RecordStanding, Moved
<1>2. Later(u, w)
  BY Zenon DEF Later, Moved
<1> QED
  BY Zenon, <1>1, <1>2 DEF Edit, Moved

\* A Run write that is an edit, and returns.
LEMMA EditWrites ==
    ASSUME TypeOK, NEW r \in Runs, NEW w \in RunType, CacheStanding(r),
           WriteRun(r, w), Edit(r, w), (UNCHANGED <<pc, result>> /\ pc[r] = "idle") \/ Return(r)
    PROVE  Edited(r)
<1>1. pc' = [pc EXCEPT ![r] = "idle"] /\ \A q \in Runs \ {r} : result'[q] = result[q]
  BY Zenon DEF TypeOK, Return, Goto, Answer
<1>2. \/ UNCHANGED <<run, runFresh>>
      \/ /\ runFresh[r] /\ run' = [run EXCEPT ![r] = w]
         /\ runFresh' = [runFresh EXCEPT ![r] = FALSE]
  BY Zenon DEF WriteRun, PutRun
<1>3. \A q \in Runs \ {r} : run'[q] = run[q] /\ runFresh'[q] = runFresh[q]
  BY Zenon, <1>2 DEF TypeOK
<1>4. UNCHANGED <<run, runFresh>> \/ (view[r].run = run[r] /\ ~runFresh'[r] /\ Edit(r, run'[r]))
  <2>1. CASE UNCHANGED <<run, runFresh>>
    BY Zenon, <2>1
  <2>2. CASE ~UNCHANGED <<run, runFresh>>
    <3>1. view[r].run = run[r] /\ run'[r] = w /\ ~runFresh'[r]
      BY Zenon, <1>2, <2>2 DEF TypeOK, CacheStanding
    <3> QED
      BY Zenon, <3>1
  <2> QED
    BY Zenon, <2>1, <2>2
<1> QED
  BY Zenon, <1>1, <1>3, <1>4 DEF Edited, WriteRun

\* What Stopped promises when it is the basis of a write: no process of the Run is left.
LEMMA StoppedHasNone ==
    ASSUME TypeOK, NEW r \in Runs, CacheStanding(r), ProcessStanding(r), StepStanding(r), Stopped(r)
    PROVE  ~HasProcess(r)
<1> DEFINE u == view[r].run
           e == view[r].env
<1>t. u \in RunType
  BY Zenon DEF TypeOK
<1>1. CASE Leaving(r) /\ ~MustStop(u, e)
  <2>1. Path(u) # "work"
    BY Zenon, <1>1, <1>t DEF Leaving, On
  <2>2. CASE ~MayHaveAccepted(u)
    <3>1. ~u.attempted
      BY Zenon, <2>2 DEF MayHaveAccepted
    <3>2. ~run[r].attempted
      BY Zenon, <2>1, <3>1 DEF CacheStanding, Later
    <3> QED
      BY Zenon, <3>2 DEF ProcessStanding
  <2>3. CASE Fenced(e)
    BY Zenon, <2>3 DEF Fenced, ProcessStanding
  <2> QED
    BY Zenon, <1>1, <2>2, <2>3 DEF MustStop
<1>2. CASE pc[r] = "confirmed" /\ result[r] = "none"
  BY Zenon, <1>2 DEF StepStanding, Answered
<1> QED
  BY Zenon, <1>1, <1>2 DEF Stopped

\* Every write of a reconcile to its Run is an edit.
LEMMA RunEdits ==
    ASSUME TypeOK, NEW r \in Runs, RunWrites(r),
           CacheStanding(r), ProcessStanding(r), StepStanding(r)
    PROVE  Edited(r)
<1> DEFINE u == view[r].run
           e == view[r].env
<1>t. /\ u \in RunType /\ e \in EnvType /\ pc[r] \in Steps /\ result[r] \in Results
      /\ u.state \in States
  BY Zenon DEF TypeOK, RunType
<1>r. RecordStanding(u)
  BY Zenon DEF CacheStanding
<1>p. /\ Path(u) = "work" <=> ~u.deleting /\ u.state \notin Terminals /\ ~u.cancel
      /\ Path(u) = "cancel" <=> ~u.deleting /\ u.state \notin Terminals /\ u.cancel
      /\ Path(u) = "cleanup" <=> ~u.deleting /\ u.state \in Terminals
      /\ Path(u) = "finalize" <=> u.deleting
  BY Zenon, <1>t, Paths
<1>s. ASSUME NEW s \in States
      PROVE  SetState(u, s) \in RunType /\ SetState(u, s).state = s /\ Moved(u, SetState(u, s))
  <2>1. SetState(u, s) \in RunType
    BY Zenon, <1>t DEF SetState, RunType, States, Terminals
  <2> QED
    BY <2>1, <1>t, SetStateFields DEF Moved
<1>f. [u EXCEPT !.final = TRUE] \in RunType
  BY Zenon, <1>t, RunFields DEF Conds
<1>c. {"Allocating", "Failed", "Cancelled", "AdapterAccepted"} \subseteq States
  BY Zenon DEF States, Terminals
<1>v. u = view[r].run /\ e = view[r].env
  OBVIOUS
<1>m. ASSUME NEW w \in RunType, Moved(u, w), u.state \in Terminals => w.state = u.state,
             w.state \in {"AdapterAccepted", "Running"} => u.accGen # 0,
             w.state = "Cancelled" /\ u.state # "Cancelled" => Path(u) # "work" /\ ~HasProcess(r),
             WriteRun(r, w), (UNCHANGED <<pc, result>> /\ pc[r] = "idle") \/ Return(r)
      PROVE  Edited(r)
  <2>1. Edit(r, w)
    BY Zenon, <1>m, <1>t, <1>r, <1>v, MovedIsEdit
  <2> QED
    BY Zenon, <1>m, <2>1, EditWrites
<1> HIDE DEF u, e
<1>a. ASSUME NEW s \in {"Allocating", "Failed"}, u.state \notin Terminals, WriteRun(r, SetState(u, s)),
             (UNCHANGED <<pc, result>> /\ pc[r] = "idle") \/ Return(r)
      PROVE  Edited(r)
  BY Zenon, <1>a, <1>s, <1>m, <1>c
<1>1. CASE AddFinalizer(r)
  <2> DEFINE w == [u EXCEPT !.final = TRUE]
  <2>1. w.state = u.state /\ Moved(u, w)
    BY Zenon, <1>t DEF Moved, RunType
  <2>2. WriteRun(r, w) /\ UNCHANGED <<pc, result>> /\ pc[r] = "idle"
    BY Zenon, <1>1 DEF AddFinalizer, u
  <2>3. w \in RunType
    BY Zenon, <1>f
  <2> HIDE DEF w
  <2> QED
    BY Zenon, <2>1, <2>2, <2>3, <1>m, <1>r DEF RecordStanding
<1>l. ASSUME u.state \notin Terminals
      PROVE  LET w == [SetState(u, "Allocating") EXCEPT !.ref = TRUE]
             IN  w \in RunType /\ w.state = "Allocating" /\ Moved(u, w)
  <2>1. SetState(u, "Allocating") \in RunType /\ SetState(u, "Allocating").state = "Allocating"
        /\ Moved(u, SetState(u, "Allocating"))
    BY Zenon, <1>s, <1>c
  <2>2. PICK x \in RunType : x = SetState(u, "Allocating")
    BY Zenon, <2>1
  <2>3. [x EXCEPT !.ref = TRUE] \in RunType
    BY Zenon, <1>c, <2>2, RunFields DEF Conds
  <2>4. [x EXCEPT !.ref = TRUE].state = x.state /\ Moved(u, [x EXCEPT !.ref = TRUE])
    BY Zenon, <2>1, <2>2 DEF Moved, RunType
  <2> QED
    BY Zenon, <2>1, <2>2, <2>3, <2>4
<1>2. CASE CancelBeforeAllocation(r)
  <2>1. /\ pc[r] = "idle" /\ Path(u) = "cancel" /\ ~u.ref /\ UNCHANGED <<pc, result>>
        /\ WriteRun(r, IF Mine(e, r) THEN [SetState(u, "Allocating") EXCEPT !.ref = TRUE]
                                     ELSE SetState(u, "Cancelled"))
    BY Zenon, <1>2 DEF CancelBeforeAllocation, On, u, e
  <2>2. ~HasProcess(r)
    BY Zenon, <2>1 DEF CacheStanding, ProcessStanding, u
  <2>3. CASE Mine(e, r)
    BY Zenon, <2>1, <2>3, <1>l, <1>p, <1>m
  <2>4. CASE ~Mine(e, r)
    <3>1. PICK w \in RunType : w = SetState(u, "Cancelled") /\ w.state = "Cancelled" /\ Moved(u, w)
      BY Zenon, <1>s, <1>c
    <3> QED
      BY Zenon, <2>1, <2>2, <2>4, <3>1, <1>m, <1>p
  <2> QED
    BY Zenon, <2>3, <2>4
<1>3. CASE RefuseAllocation(r)
  <2>1. /\ pc[r] = "idle" /\ Path(u) = "work" /\ UNCHANGED <<pc, result>>
        /\ WriteRun(r, SetState(u, "Failed"))
    BY Zenon, <1>3 DEF RefuseAllocation, Allocating, On, u
  <2> QED
    BY Zenon, <2>1, <1>a, <1>p
<1>4. CASE RecordAllocation(r)
  <2>1. /\ WriteRun(r, [SetState(u, "Allocating") EXCEPT !.ref = TRUE]) /\ Return(r)
        /\ Path(u) = "work"
    BY Zenon, <1>4 DEF RecordAllocation, StepStanding, u
  <2> QED
    BY Zenon, <2>1, <1>l, <1>p, <1>m
<1>5. CASE RecordRefusal(r)
  <2>1. WriteRun(r, SetState(u, "Failed")) /\ Return(r) /\ Path(u) = "work"
    BY Zenon, <1>5 DEF RecordRefusal, StepStanding, u
  <2> QED
    BY Zenon, <2>1, <1>a, <1>p
<1>6. CASE LoseEnvironment(r)
  <2>1. /\ WriteRun(r, [SetState(u, "Failed") EXCEPT !.cond = "Lost"])
        /\ UNCHANGED <<pc, result>> /\ pc[r] = "idle" /\ Path(u) \in {"work", "cancel"}
    BY Zenon, <1>6 DEF LoseEnvironment, On, u
  <2>2. PICK x \in RunType : x = SetState(u, "Failed") /\ x.state = "Failed" /\ Moved(u, x)
    BY Zenon, <1>s, <1>c
  <2>3. [x EXCEPT !.cond = "Lost"] \in RunType
    BY Zenon, <1>c, RunFields DEF Conds
  <2>4. [x EXCEPT !.cond = "Lost"].state = "Failed" /\ Moved(u, [x EXCEPT !.cond = "Lost"])
    BY Zenon, <2>2 DEF Moved, RunType
  <2> QED
    BY Zenon, <2>1, <2>2, <2>3, <2>4, <1>p, <1>m
<1>7. CASE FollowEnvironment(r)
  <2> DEFINE s == StateFrom(u, e)
  <2>1. /\ WriteRun(r, SetState(u, s)) /\ UNCHANGED <<pc, result>> /\ pc[r] = "idle"
        /\ Path(u) = "work" /\ s # u.state
    BY Zenon, <1>7 DEF FollowEnvironment, Working, On, u, e
  <2>2. s \in {"Allocating", "Paused", "Failed", "EnvironmentReady"} /\ s \in States
    <3>1. s = u.state \/ s \in {"Allocating", "Paused", "Failed", "EnvironmentReady"}
      BY Zenon, <1>t DEF StateFrom
    <3> QED
      BY Zenon, <2>1, <3>1 DEF States, Terminals
  <2> HIDE DEF s
  <2>3. PICK w \in RunType : w = SetState(u, s) /\ w.state = s /\ Moved(u, w)
    BY Zenon, <1>s, <2>2
  <2> QED
    BY Zenon, <2>1, <2>2, <2>3, <1>m, <1>p
<1>8. CASE MarkAcceptanceAttempted(r)
  <2>1. /\ WriteRun(r, [u EXCEPT !.attempted = TRUE]) /\ UNCHANGED <<pc, result>> /\ pc[r] = "idle"
        /\ Path(u) = "work" /\ u.state = "EnvironmentReady" /\ u.ref /\ u.final /\ Reachable(e)
    BY Zenon, <1>8 DEF MarkAcceptanceAttempted, AtWork, Working, On, u, e
  <2>2. PICK w \in RunType : w = [u EXCEPT !.attempted = TRUE]
    BY Zenon, <1>t, RunFields, <1>c DEF Conds
  <2>3. /\ w.attempted /\ w.ref = u.ref /\ w.final = u.final /\ w.exists = u.exists
        /\ w.state = u.state /\ w.accGen = u.accGen /\ w.verdict = u.verdict
        /\ w.deleting = u.deleting /\ w.cancel = u.cancel
    BY Zenon, <2>2, <1>t DEF RunType
  <2>4. RecordStanding(w) /\ Later(u, w)
    BY Zenon, <2>1, <2>3, <1>r, <1>p DEF RecordStanding, Later
  <2>5. Edit(r, w)
    BY Zenon, <2>1, <2>3, <2>4 DEF Edit, u, e
  <2> QED
    BY Zenon, <2>1, <2>2, <2>5, EditWrites
<1>9. CASE RecordAcceptance(r)
  <2>1. /\ pc[r] = "confirmed" /\ result[r] \in {"Accepted", "Rejected"} /\ Return(r)
        /\ WriteRun(r, IF result[r] = "Rejected" THEN SetState(u, "Failed")
                       ELSE [SetState(u, "AdapterAccepted") EXCEPT !.accGen = e.gen,
                                                                   !.accEpoch = e.epoch])
    BY Zenon, <1>9 DEF RecordAcceptance, u, e
  <2>2. Path(u) = "work" /\ u.attempted /\ Reachable(e)
    <3>1. u.attempted /\ Reachable(e)
      BY Zenon, <2>1 DEF StepStanding, Calls, u, e
    <3>2. Path(u) = "work"
      BY Zenon, <2>1 DEF StepStanding, Answered, u
    <3> QED
      BY Zenon, <3>1, <3>2
  <2>3. CASE result[r] = "Rejected"
    BY Zenon, <2>1, <2>2, <2>3, <1>a, <1>p
  <2>4. CASE result[r] # "Rejected"
    <3> DEFINE w == [SetState(u, "AdapterAccepted") EXCEPT !.accGen = e.gen, !.accEpoch = e.epoch]
    <3>1. PICK x \in RunType : x = SetState(u, "AdapterAccepted") /\ x.state = "AdapterAccepted"
                               /\ Moved(u, x) /\ x.ref = u.ref /\ x.final = u.final
      BY Zenon, <1>s, <1>c, <1>t, SetStateFields
    <3>2. e.gen \in Nat /\ e.epoch \in Nat /\ e.gen > 0
      BY Zenon, <2>2, <1>t DEF Reachable, EnvType
    <3>3. w \in RunType
      BY Zenon, <3>1, <3>2, <1>c, RunFields DEF Conds
    <3>4. /\ w.attempted = x.attempted /\ w.ref = u.ref /\ w.final = u.final /\ w.exists = x.exists
          /\ w.state = "AdapterAccepted" /\ w.accGen = e.gen /\ w.verdict = x.verdict
          /\ w.deleting = x.deleting /\ w.cancel = x.cancel
      BY Zenon, <3>1 DEF RunType
    <3>5. PICK z \in RunType : z = w
      BY Zenon, <3>3
    <3> HIDE DEF w
    <3>m. /\ z.attempted = u.attempted /\ z.ref = u.ref /\ z.final = u.final /\ z.exists = u.exists
          /\ z.state = "AdapterAccepted" /\ z.accGen = e.gen /\ z.verdict = u.verdict
          /\ z.deleting = u.deleting /\ z.cancel = u.cancel
      BY Zenon, <3>1, <3>4, <3>5 DEF Moved
    <3>6. RecordStanding(z) /\ Later(u, z)
      <4>1. RecordStanding(z)
        BY <3>m, <3>2, <2>2, <1>r, <1>p DEF RecordStanding
      <4>2. Later(u, z)
        BY Zenon, <3>m, <2>2, <1>p DEF Later
      <4> QED
        BY Zenon, <4>1, <4>2
    <3>7. live /\ env.gen = e.gen => proc[r].st # "none"
      BY Zenon, <2>1, <2>4 DEF StepStanding, Answered, e
    <3>8. ~z.verdict
      BY Zenon, <3>1, <3>4, <3>5, <2>2, <1>p, <1>r DEF Moved, RecordStanding
    <3>9. z.exists = u.exists /\ z.attempted = u.attempted
      BY Zenon, <3>1, <3>4, <3>5 DEF Moved
    <3>10. Edit(r, z)
      BY Zenon, <3>4, <3>5, <3>6, <3>7, <3>8, <3>9 DEF Edit, u, e
    <3> QED
      BY Zenon, <2>1, <2>4, <3>5, <3>10, EditWrites DEF w
  <2> QED
    BY Zenon, <2>3, <2>4
<1>10. CASE RecordObservation(r)
  <2> DEFINE s == IF result[r] = "Refused" THEN "Failed" ELSE result[r]
             b == result[r] \in {"Succeeded", "Failed"}
             w == [SetState(u, s) EXCEPT !.verdict = b]
  <2>1. /\ pc[r] = "confirmed" /\ result[r] \in {"Running", "Refused", "Succeeded", "Failed"}
        /\ Return(r) /\ WriteRun(r, w)
    BY Zenon, <1>10 DEF RecordObservation, u
  <2>2. /\ Path(u) = "work" /\ u.state # "EnvironmentReady" /\ u.attempted /\ Reachable(e)
        /\ u.accGen = e.gen
    <3>1. u.attempted /\ Reachable(e)
      BY Zenon, <2>1 DEF StepStanding, Calls, u, e
    <3>2. Path(u) = "work" /\ u.state # "EnvironmentReady"
      BY Zenon, <2>1 DEF StepStanding, Answered, u
    <3>3. u.accGen = e.gen
      BY Zenon, <2>1, <3>2 DEF StepStanding, Calls, u, e
    <3> QED
      BY Zenon, <3>1, <3>2, <3>3
  <2>3. b => ~HasProcess(r) /\ u.accGen \in ended[r]
    BY Zenon, <2>1 DEF StepStanding, Answered, u
  <2>4. /\ s \in {"Running", "Succeeded", "Failed"} /\ s \in States /\ b \in BOOLEAN
        /\ b => s \in {"Succeeded", "Failed"}
    BY <2>1 DEF States, Terminals
  <2> HIDE DEF s, b
  <2>5. PICK x \in RunType : x = SetState(u, s) /\ x.state = s /\ Moved(u, x)
                             /\ x.ref = u.ref /\ x.final = u.final
    BY <1>s, <2>4, <1>t, SetStateFields
  <2>6. w \in RunType
    BY Zenon, <2>4, <2>5, RunFields DEF Conds
  <2>7. /\ w.attempted = x.attempted /\ w.ref = u.ref /\ w.final = u.final /\ w.exists = x.exists
        /\ w.state = s /\ w.accGen = x.accGen /\ w.verdict = b
        /\ w.deleting = x.deleting /\ w.cancel = x.cancel
    BY Zenon, <2>5 DEF RunType
  <2>8. PICK z \in RunType : z = w
    BY Zenon, <2>6
  <2> HIDE DEF w
  <2>9. /\ z.attempted = u.attempted /\ z.ref = u.ref /\ z.final = u.final /\ z.exists = u.exists
        /\ z.state = s /\ z.accGen = u.accGen /\ z.verdict = b
        /\ z.deleting = u.deleting /\ z.cancel = u.cancel
    BY Zenon, <2>5, <2>7, <2>8 DEF Moved
  <2>10. e.gen \in Nat /\ e.gen > 0
    BY Zenon, <2>2, <1>t DEF Reachable, EnvType
  <2>11. RecordStanding(z) /\ Later(u, z)
    BY <2>2, <2>4, <2>9, <2>10, <1>r, <1>p DEF RecordStanding, Later, Terminals
  <2>12. Edit(r, z)
    BY Zenon, <2>2, <2>3, <2>4, <2>9, <2>11 DEF Edit, u, e
  <2> QED
    BY Zenon, <2>1, <2>8, <2>12, EditWrites
<1>k. ASSUME NEW c \in Conds, WriteRun(r, [u EXCEPT !.cond = c]),
             (UNCHANGED <<pc, result>> /\ pc[r] = "idle") \/ Return(r)
      PROVE  Edited(r)
  <2>1. PICK w \in RunType : w = [u EXCEPT !.cond = c]
    BY Zenon, <1>t, <1>c, RunFields
  <2>2. w.state = u.state /\ Moved(u, w)
    BY Zenon, <2>1, <1>t DEF Moved, RunType
  <2> QED
    BY Zenon, <1>k, <2>1, <2>2, <1>m, <1>r DEF RecordStanding
<1>11. CASE NoteEnvironment(r)
  <2>1. PICK c \in Conds : WriteRun(r, [u EXCEPT !.cond = c])
    BY Zenon, <1>11 DEF NoteEnvironment, Conds, u
  <2>2. UNCHANGED <<pc, result>> /\ pc[r] = "idle"
    BY Zenon, <1>11 DEF NoteEnvironment, On
  <2> QED
    BY Zenon, <2>1, <2>2, <1>k
<1>12. CASE RecordCancelled(r)
  <2>1. WriteRun(r, SetState(u, "Cancelled")) /\ Return(r) /\ Path(u) = "cancel" /\ Stopped(r)
    BY Zenon, <1>12 DEF RecordCancelled, u
  <2>2. PICK w \in RunType : w = SetState(u, "Cancelled") /\ w.state = "Cancelled" /\ Moved(u, w)
    BY <1>s, <1>c
  <2> QED
    BY Zenon, <2>1, <2>2, StoppedHasNone, <1>m, <1>p
<1>13. CASE RecordReleased(r)
  BY Zenon, <1>13, <1>k DEF RecordReleased, Conds, u
<1>14. CASE RecordFenced(r)
  BY Zenon, <1>14, <1>k DEF RecordFenced, Leaving, On, Conds, u
<1>15. CASE RemoveFinalizer(r)
  <2>1. WriteRun(r, [u EXCEPT !.exists = FALSE, !.final = FALSE]) /\ Return(r) /\ Path(u) = "finalize"
    BY Zenon, <1>15 DEF RemoveFinalizer, u
  <2>2. ~HasProcess(r)
    <3>1. CASE pc[r] = "released"
      BY Zenon, <3>1 DEF StepStanding
    <3>2. CASE ~Mine(e, r)
      BY Zenon, <3>2 DEF ProcessStanding, e
    <3> QED
      BY Zenon, <1>15, <3>1, <3>2, StoppedHasNone DEF RemoveFinalizer, e
  <2>3. PICK w \in RunType : w = [u EXCEPT !.exists = FALSE, !.final = FALSE]
    BY Zenon, <1>t, <1>c, RunFields DEF Conds
  <2>4. /\ w.attempted = u.attempted /\ w.ref = u.ref /\ ~w.exists
        /\ w.state = u.state /\ w.accGen = u.accGen /\ w.verdict = u.verdict
        /\ w.deleting = u.deleting /\ w.cancel = u.cancel
    BY Zenon, <2>3, <1>t DEF RunType
  <2>5. RecordStanding(w) /\ Later(u, w)
    BY Zenon, <2>4, <1>r DEF RecordStanding, Later
  <2>6. Edit(r, w)
    BY Zenon, <2>1, <2>2, <2>4, <2>5, <1>p DEF Edit, u, e
  <2> QED
    BY Zenon, <2>1, <2>3, <2>6, EditWrites
<1> QED
  BY Zenon, <1>1, <1>2, <1>3, <1>4, <1>5, <1>6, <1>7, <1>8, <1>9, <1>10, <1>11, <1>12, <1>13, <1>14,
     <1>15 DEF RunWrites

-----------------------------------------------------------------------------
(* What a reconcile may do to the Environment.                             *)

\* A Run that may still suspend its Environment still has it.
LEMMA LeaverHasClaim ==
    ASSUME TypeOK, NEW r \in Runs, CacheStanding(r), StepStanding(r), ClaimStanding(r),
           RequestEnvironmentFence(r)
    PROVE  env.claim = r /\ Path(view[r].run) # "work"
<1> DEFINE u == view[r].run
           e == view[r].env
<1>1. CASE Leaving(r) /\ MustStop(u, e) /\ ~Reachable(e)
  <2>1. Mine(e, r) /\ Path(u) # "work" /\ ~Fenced(e) /\ MayHaveAccepted(u)
    BY Zenon, <1>1 DEF Leaving, On, MustStop
  <2>2. run[r].attempted
    BY Zenon, <2>1 DEF MayHaveAccepted, CacheStanding, RecordStanding, Later
  <2> QED
    BY Zenon, <1>1, <2>1, <2>2 DEF ClaimStanding
<1>2. CASE Stopped(r) /\ env.own = "Owned" /\ Path(u) = "cleanup"
  <2>1. Mine(e, r)
    BY Zenon, <1>2 DEF Stopped, Leaving, StepStanding, Calls
  <2> QED
    BY Zenon, <1>2, <2>1 DEF ClaimStanding
<1> QED
  BY Zenon, <1>1, <1>2 DEF RequestEnvironmentFence

\* What a reconcile of r may make of the Environment: it takes or gives back its own claim only,
\* gives it back only without a process, and asks for a suspension only under the claim of a
\* Run that is ending.
EnvEdit(r) ==
    LET u == view[r].run
        e == view[r].env
    IN  /\ env'.own = env.own /\ env'.gen = env.gen /\ env'.conn = env.conn
        /\ env.exists => env'.exists
        /\ env'.susp # env.susp => ~env'.susp /\ ~env.exists
        /\ env'.phase = env.phase \/ (env'.phase = "Creating" /\ env'.conn = 0)
        /\ Reachable(env') => Reachable(env) /\ env'.rev = env.rev
        /\ env'.claim # env.claim => env.claim \in {r, "none"} /\ env'.claim \in {r, "none"}
        /\ env.claim = r /\ env'.claim # r =>
             /\ env.own = "Claimed" /\ ~HasProcess(r)
             /\ Fenced(e) \/ Reachable(e) \/ ~run[r].attempted
        /\ env'.claim = "none" => env'.fence = 0
        /\ env'.fence # 0 /\ env'.fence # env.fence =>
             env.claim = r /\ env'.claim = r /\ Path(u) # "work"
        /\ env'.fence # 0 /\ env'.claim # env.claim => FALSE

\* A step that writes the Environment that way, or not at all.
EnvEdited(r) ==
    /\ UNCHANGED <<run, sandbox, view, runFresh>>
    /\ UNCHANGED <<env, envFresh>> \/ (EnvEdit(r) /\ envFresh' = [q \in Runs |-> FALSE])
    /\ \A q \in Runs \ {r} : pc'[q] = pc[q] /\ result'[q] = result[q]
    /\ \/ pc'[r] \in {"wake", "ref", "refused"} /\ Path(view[r].run) = "work"
       \/ pc'[r] = "idle"
       \/ pc'[r] = "released" /\ ~HasProcess(r)

\* Every write of a reconcile to the Environment (claim, recovered claim, wake, creation, suspend
\* request, release) is such an edit.
LEMMA EnvEdits ==
    ASSUME TypeOK, NEW r \in Runs, EnvWrites(r), PodStanding,
           CacheStanding(r), ExecutionStanding(r), ProcessStanding(r), StepStanding(r),
           ClaimStanding(r)
    PROVE  EnvEdited(r)
<1> DEFINE u == view[r].run
           e == view[r].env
<1>t. e \in EnvType /\ env \in EnvType /\ u \in RunType
  BY Zenon DEF TypeOK
<1>r. "none" \notin Runs /\ r # "none"
  BY Zenon, RunAssumption
<1>f. /\ UNCHANGED <<run, sandbox, view, runFresh>>
      /\ UNCHANGED <<env, envFresh>> \/ \E f \in EnvType : PutEnv(f)
  BY Zenon, EnvWritesTyped
<1>p. /\ \A s \in Steps, q \in Runs : Goto(r, s) => pc'[q] = IF q = r THEN s ELSE pc[q]
      /\ \A a \in Results, q \in Runs : Answer(r, a) => (q # r => result'[q] = result[q])
  BY Zenon DEF TypeOK, Goto, Answer
<1>s. {"wake", "ref", "refused", "idle", "released"} \subseteq Steps /\ "none" \in Results
  BY Zenon DEF Steps, Results
<1>w. ASSUME NEW f, WriteEnv(r, f)
      PROVE  e = env /\ env' = f /\ envFresh' = [q \in Runs |-> FALSE]
  BY Zenon, <1>w DEF WriteEnv, PutEnv, ExecutionStanding
<1>c. ASSUME NEW c, WriteEnv(r, [e EXCEPT !.claim = c])
      PROVE  /\ env'.claim = c /\ env'.own = env.own /\ env'.gen = env.gen /\ env'.conn = env.conn
             /\ env'.exists = env.exists /\ env'.phase = env.phase /\ env'.rev = env.rev
             /\ env'.fence = env.fence /\ env'.susp = env.susp /\ env'.obs = env.obs
  <2>1. env' = [env EXCEPT !.claim = c]
    BY Zenon, <1>c, <1>w
  <2> QED
    BY Zenon, <2>1, <1>t DEF EnvType
<1>1. CASE ClaimEnvironment(r)
  <2>1. /\ WriteEnv(r, [e EXCEPT !.claim = r]) /\ Goto(r, "wake") /\ UNCHANGED result
        /\ e.claim = "none" /\ Path(u) = "work"
    BY Zenon, <1>1 DEF ClaimEnvironment, Allocating, On
  <2>2. env.claim = "none" /\ env.fence = 0
    BY Zenon, <2>1, <1>w DEF PodStanding
  <2>3. EnvEdit(r)
    BY Zenon, <2>1, <2>2, <1>c, <1>r DEF EnvEdit, Reachable
  <2> QED
    BY Zenon, <2>1, <2>3, <1>f, <1>p, <1>s, <1>w DEF EnvEdited
<1>2. CASE RecoverClaim(r)
  <2>1. Path(u) = "work" /\ ~u.ref /\ Mine(e, r) /\ UNCHANGED result /\ env.own = "Claimed"
    BY Zenon, <1>2 DEF RecoverClaim, Allocating, On
  <2>2. CASE Hold(e) \/ ~Wakeable(e)
    <3>1. WriteEnv(r, [e EXCEPT !.claim = "none"]) /\ Goto(r, "refused")
      BY Zenon, <1>2, <2>2 DEF RecoverClaim
    <3>2. env.claim = r /\ env.fence = 0
      BY Zenon, <2>1, <3>1, <1>w DEF Mine, ClaimStanding
    <3>3. ~run[r].attempted /\ ~HasProcess(r)
      BY Zenon, <2>1 DEF CacheStanding, ProcessStanding
    <3>4. EnvEdit(r)
      BY Zenon, <2>1, <3>1, <3>2, <3>3, <1>c, <1>r DEF EnvEdit, Reachable
    <3> QED
      BY Zenon, <2>1, <3>1, <3>4, <1>f, <1>p, <1>s, <1>w DEF EnvEdited
  <2>3. CASE ~(Hold(e) \/ ~Wakeable(e))
    <3>1. Goto(r, "wake") /\ UNCHANGED <<env, envFresh>>
      BY Zenon, <1>2, <2>3 DEF RecoverClaim
    <3> QED
      BY Zenon, <2>1, <3>1, <1>f, <1>p, <1>s DEF EnvEdited
  <2> QED
    BY Zenon, <2>2, <2>3
<1>3. CASE WakeClaim(r)
  <2>1. pc[r] = "wake" /\ Goto(r, "ref") /\ UNCHANGED result
    BY Zenon, <1>3 DEF WakeClaim
  <2>2. Path(u) = "work"
    BY Zenon, <2>1 DEF StepStanding
  <2>3. CASE env.wake
    BY Zenon, <1>3, <2>1, <2>2, <2>3, <1>f, <1>p, <1>s DEF WakeClaim, EnvEdited
  <2>4. CASE ~env.wake
    <3>1. env' = [env EXCEPT !.wake = TRUE, !.obs = FALSE] /\ envFresh' = [q \in Runs |-> FALSE]
      BY Zenon, <1>3, <2>4 DEF WakeClaim, PutEnv
    <3>2. /\ env'.claim = env.claim /\ env'.own = env.own /\ env'.gen = env.gen
          /\ env'.conn = env.conn /\ env'.exists = env.exists /\ env'.phase = env.phase
          /\ env'.fence = env.fence /\ ~env'.obs /\ env'.susp = env.susp
      BY Zenon, <3>1, <1>t DEF EnvType
    <3>3. EnvEdit(r)
      BY Zenon, <3>2 DEF EnvEdit, Reachable, PodStanding
    <3> QED
      BY Zenon, <3>1, <3>3, <2>1, <2>2, <1>f, <1>p, <1>s DEF EnvEdited
  <2> QED
    BY Zenon, <2>3, <2>4
<1>4. CASE CreateEnvironment(r)
  <2>1. Path(u) = "work" /\ env.own = "Owned" /\ Goto(r, "ref") /\ UNCHANGED result
    BY Zenon, <1>4 DEF CreateEnvironment, Allocating, On
  <2>2. CASE env.exists
    BY Zenon, <1>4, <2>1, <2>2, <1>f, <1>p, <1>s DEF CreateEnvironment, EnvEdited
  <2>3. CASE ~env.exists
    <3>1. /\ env' = [NewEnv("Owned") EXCEPT !.exists = TRUE, !.claim = r] /\ env.gen = 0
          /\ envFresh' = [q \in Runs |-> FALSE]
      BY Zenon, <1>4, <2>3 DEF CreateEnvironment, PutEnv
    <3>2. /\ env'.claim = r /\ env'.own = "Owned" /\ env'.gen = 0 /\ env'.conn = 0 /\ env'.exists
          /\ env'.phase = "Creating" /\ env'.fence = 0 /\ ~env'.susp
      BY Zenon, <3>1 DEF NewEnv
    <3>3. env.claim \in {r, "none"}
      BY <2>1, <1>t, RunAssumption DEF EnvType
    <3>4. EnvEdit(r)
      BY Zenon, <3>1, <3>2, <3>3, <2>1, <2>3, <1>r DEF EnvEdit, Reachable, PodStanding
    <3> QED
      BY Zenon, <3>1, <3>4, <2>1, <1>f, <1>p, <1>s DEF EnvEdited
  <2> QED
    BY Zenon, <2>2, <2>3
<1>5. CASE RequestEnvironmentFence(r)
  <2> DEFINE seq == (IF e.epoch > e.lastSeq THEN e.epoch ELSE e.lastSeq) + 1
  <2>1. /\ env' = [env EXCEPT !.fence = seq, !.fenceRev = env.rev, !.obs = FALSE]
        /\ envFresh' = [q \in Runs |-> FALSE] /\ Return(r)
    BY Zenon, <1>5 DEF RequestEnvironmentFence, PutEnv
  <2> HIDE DEF seq
  <2>2. /\ env'.claim = env.claim /\ env'.own = env.own /\ env'.gen = env.gen
        /\ env'.conn = env.conn /\ env'.exists = env.exists /\ env'.phase = env.phase
        /\ ~env'.obs /\ env'.susp = env.susp
    BY Zenon, <2>1, <1>t DEF EnvType
  <2>3. env.claim = r /\ Path(u) # "work"
    BY Zenon, <1>5, LeaverHasClaim
  <2>4. EnvEdit(r)
    BY Zenon, <2>2, <2>3, <1>r DEF EnvEdit, Reachable
  <2> QED
    BY Zenon, <2>1, <2>4, <1>f, <1>p, <1>s DEF EnvEdited, Return
<1>6. CASE ReleaseClaim(r)
  <2>1. /\ WriteEnv(r, [e EXCEPT !.claim = "none"]) /\ Goto(r, "released") /\ Answer(r, "none")
        /\ Stopped(r) /\ e.fence = 0 /\ env.own = "Claimed" /\ Path(u) \in {"cleanup", "finalize"}
    BY Zenon, <1>6 DEF ReleaseClaim
  <2>2. ~HasProcess(r)
    BY Zenon, <2>1, StoppedHasNone
  <2>3. e = env /\ env.fence = 0
    BY Zenon, <2>1, <1>w
  <2>4. Mine(e, r)
    BY Zenon, <2>1 DEF Stopped, Leaving, StepStanding, Calls
  <2>5. Fenced(e) \/ Reachable(e) \/ ~run[r].attempted
    <3>1. CASE Leaving(r) /\ ~MustStop(u, e)
      BY Zenon, <3>1, <2>1 DEF MustStop, MayHaveAccepted, CacheStanding, Later
    <3>2. CASE pc[r] = "confirmed"
      BY Zenon, <3>2 DEF StepStanding, Calls
    <3> QED
      BY Zenon, <2>1, <3>1, <3>2 DEF Stopped
  <2>6. EnvEdit(r)
    BY Zenon, <2>1, <2>2, <2>3, <2>4, <2>5, <1>c, <1>r DEF EnvEdit, Reachable, Mine
  <2> QED
    BY Zenon, <2>1, <2>2, <2>6, <1>f, <1>p, <1>s, <1>w DEF EnvEdited
<1> QED
  BY Zenon, <1>1, <1>2, <1>3, <1>4, <1>5, <1>6 DEF EnvWrites

-----------------------------------------------------------------------------
(* What the Environment's own controller may do.                           *)

\* It leaves Runs, their caches and their claims alone and takes back requests only; the Pod
\* stays, goes with its processes, or comes as the next execution.
EnvMoved ==
    /\ UNCHANGED <<run, view, runFresh, pc, result, ended>>
    /\ env'.own = env.own /\ env'.claim = env.claim /\ env'.fence \in {env.fence, 0}
    /\ UNCHANGED <<env, envFresh>> \/ envFresh' = [q \in Runs |-> FALSE]
    /\ \/ live' = live /\ env'.gen = env.gen /\ proc' = proc
       \/ ~live' /\ env'.gen = env.gen /\ proc' = [q \in Runs |-> NoProc]
       \/ ~live /\ live' /\ env'.gen > env.gen /\ proc' = proc
    /\ PodStanding'

\* Every step of the Environment's controller, and a user's hold, is such a move.
LEMMA EnvironmentMoves ==
    ASSUME TypeOK, PodStanding, Environment \/ SetHold
    PROVE  EnvMoved
<1>t. /\ env \in EnvType /\ env.gen \in Nat /\ env.rev \in Nat /\ env.conn \in Nat
      /\ live \in BOOLEAN /\ env.fence \in Nat
  BY Zenon DEF TypeOK, EnvType
<1>s. ASSUME NEW f, EnvStep(f)
      PROVE  /\ env.exists /\ env' = f /\ envFresh' = [q \in Runs |-> FALSE]
             /\ UNCHANGED <<run, view, runFresh, pc, result>>
  BY Zenon, <1>s DEF EnvStep, PutEnv
<1>k. ASSUME UNCHANGED sandbox, UNCHANGED <<run, view, runFresh, pc, result>>,
             envFresh' = [q \in Runs |-> FALSE], env'.own = env.own, env'.claim = env.claim,
             env'.fence \in {env.fence, 0}, env'.gen = env.gen, PodStanding'
      PROVE  EnvMoved
  BY Zenon, <1>k DEF EnvMoved, sandbox
<1>1. CASE EnvStarts
  <2>1. /\ ~live /\ live' /\ UNCHANGED <<proc, ended>> /\ EnvStep([env EXCEPT !.gen = @ + 1])
        /\ env.phase \in {"Creating", "Resuming"}
    BY Zenon, <1>1 DEF EnvStarts
  <2>2. env' = [env EXCEPT !.gen = @ + 1] /\ env.exists
    BY Zenon, <2>1, <1>s
  <2>3. /\ env'.own = env.own /\ env'.claim = env.claim /\ env'.fence = env.fence
        /\ env'.gen = env.gen + 1 /\ env'.phase = env.phase /\ env'.conn = env.conn
        /\ env'.exists = env.exists /\ env'.rev = env.rev
    BY Zenon, <2>2, <1>t DEF EnvType
  <2>4. PodStanding'
    BY <2>1, <2>2, <2>3, <1>t DEF PodStanding, Reachable
  <2>5. envFresh' = [q \in Runs |-> FALSE] /\ UNCHANGED <<run, view, runFresh, pc, result>>
    BY Zenon, <2>1, <1>s
  <2>6. env'.gen > env.gen
    BY <2>3, <1>t
  <2> QED
    BY Zenon, <2>1, <2>3, <2>4, <2>5, <2>6 DEF EnvMoved
<1>2. CASE EnvPublishes
  <2>1. /\ live /\ ~Hold(env) /\ UNCHANGED sandbox
        /\ EnvStep([env EXCEPT !.conn = env.gen, !.phase = "Ready", !.obs = TRUE])
    BY Zenon, <1>2 DEF EnvPublishes
  <2>2. env' = [env EXCEPT !.conn = env.gen, !.phase = "Ready", !.obs = TRUE] /\ env.exists
    BY Zenon, <2>1, <1>s
  <2>3. /\ env'.own = env.own /\ env'.claim = env.claim /\ env'.fence = env.fence
        /\ env'.gen = env.gen /\ env'.phase = "Ready" /\ env'.exists = env.exists
        /\ env'.rev = env.rev
    BY Zenon, <2>2, <1>t DEF EnvType
  <2>4. PodStanding'
    BY Zenon, <2>1, <2>2, <2>3, <1>t DEF PodStanding, Hold, sandbox
  <2> QED
    BY Zenon, <2>1, <2>3, <2>4, <1>s, <1>k
<1>w. ASSUME NEW p \in {"Creating", "Resuming", "Failed"}, UNCHANGED sandbox,
             EnvStep([env EXCEPT !.conn = 0, !.phase = p, !.obs = TRUE])
      PROVE  EnvMoved
  <2>2. env' = [env EXCEPT !.conn = 0, !.phase = p, !.obs = TRUE] /\ env.exists
    BY Zenon, <1>w, <1>s
  <2>3. /\ env'.own = env.own /\ env'.claim = env.claim /\ env'.fence = env.fence
        /\ env'.gen = env.gen /\ env'.phase = p /\ env'.exists = env.exists /\ env'.conn = 0
    BY Zenon, <2>2, <1>t DEF EnvType
  <2>4. PodStanding'
    BY Zenon, <1>w, <2>3, <1>t DEF PodStanding, Reachable, sandbox
  <2> QED
    BY Zenon, <1>w, <2>3, <2>4, <1>s, <1>k
<1>3. CASE EnvWithdraws
  BY Zenon, <1>3, <1>w DEF EnvWithdraws
<1>4. CASE EnvFails
  BY Zenon, <1>4, <1>w DEF EnvFails
<1>5. CASE EnvStops
  <2>1. /\ ~live' /\ proc' = [q \in Runs |-> NoProc]
        /\ UNCHANGED <<run, env, ended, view, runFresh, envFresh, pc, result>>
    BY Zenon, <1>5 DEF EnvStops
  <2>2. PodStanding'
    BY Zenon, <2>1 DEF PodStanding
  <2> QED
    BY Zenon, <2>1, <2>2 DEF EnvMoved
<1>q. ASSUME NEW f, EnvStep(f), UNCHANGED sandbox, f.own = env.own, f.claim = env.claim,
             f.fence \in {env.fence, 0}, f.gen = env.gen, f.conn = env.conn, f.phase = env.phase,
             f.exists = env.exists, Hold(f) => ~Reachable(f)
      PROVE  EnvMoved
  <2>1. env' = f /\ env.exists
    BY Zenon, <1>q, <1>s
  <2>2. PodStanding'
    BY Zenon, <1>q, <2>1 DEF PodStanding, sandbox
  <2> QED
    BY Zenon, <1>q, <2>1, <2>2, <1>s, <1>k
<1>6. CASE EnvSuspends
  <2> DEFINE why == IF Hold(env) THEN "Hold" ELSE IF FenceNew THEN "Requested" ELSE "Idle"
             n == IF env.susp THEN env.epoch ELSE env.epoch + 1
             m == IF FenceNew THEN env.fence ELSE env.lastSeq
             b == env.wake /\ why = env.reason
             c == env.obs /\ why = "Idle"
             f == [env EXCEPT !.susp = TRUE, !.reason = why, !.epoch = n, !.lastSeq = m,
                              !.wake = b, !.obs = c]
  <2>1. EnvStep(f) /\ UNCHANGED sandbox
    BY Zenon, <1>6 DEF EnvSuspends
  <2> HIDE DEF why, n, m, b, c
  <2>2. /\ f.own = env.own /\ f.claim = env.claim /\ f.fence = env.fence /\ f.gen = env.gen
        /\ f.conn = env.conn /\ f.phase = env.phase /\ f.exists = env.exists /\ f.susp
    BY Zenon, <1>t DEF EnvType
  <2> HIDE DEF f
  <2> QED
    BY Zenon, <2>1, <2>2, <1>q DEF Reachable
<1>7. CASE EnvDiscards
  <2> DEFINE f == [env EXCEPT !.fence = 0, !.obs = FALSE]
  <2>1. EnvStep(f) /\ UNCHANGED sandbox
    BY Zenon, <1>7 DEF EnvDiscards
  <2>2. /\ f.own = env.own /\ f.claim = env.claim /\ f.fence = 0 /\ f.gen = env.gen
        /\ f.conn = env.conn /\ f.phase = env.phase /\ f.exists = env.exists /\ ~f.obs
    BY Zenon, <1>t DEF EnvType
  <2> HIDE DEF f
  <2> QED
    BY Zenon, <2>1, <2>2, <1>q DEF Reachable
<1>8. CASE EnvPauses
  <2>1. CASE EnvStep([env EXCEPT !.conn = 0, !.phase = "Creating", !.obs = TRUE])
    BY Zenon, <1>8, <2>1, <1>w DEF EnvPauses
  <2>2. CASE env.conn = 0 /\ ~live /\ EnvStep([env EXCEPT !.phase = "Paused", !.obs = TRUE])
    <3>1. env' = [env EXCEPT !.phase = "Paused", !.obs = TRUE] /\ env.exists
      BY Zenon, <2>2, <1>s
    <3>2. /\ env'.own = env.own /\ env'.claim = env.claim /\ env'.fence = env.fence
          /\ env'.gen = env.gen /\ env'.phase = "Paused" /\ env'.exists = env.exists
          /\ env'.conn = env.conn
      BY Zenon, <3>1, <1>t DEF EnvType
    <3>3. UNCHANGED sandbox
      BY Zenon, <1>8 DEF EnvPauses
    <3>4. PodStanding'
      BY Zenon, <2>2, <3>2, <3>3, <1>t DEF PodStanding, Reachable, sandbox
    <3> QED
      BY Zenon, <2>2, <3>2, <3>3, <3>4, <1>s, <1>k
  <2>3. CASE env.phase = "Paused" /\ EnvStep([env EXCEPT !.fence = 0])
    <3> DEFINE f == [env EXCEPT !.fence = 0]
    <3>1. EnvStep(f) /\ UNCHANGED sandbox
      BY Zenon, <1>8, <2>3 DEF EnvPauses
    <3>2. /\ f.own = env.own /\ f.claim = env.claim /\ f.fence = 0 /\ f.gen = env.gen
          /\ f.conn = env.conn /\ f.phase = env.phase /\ f.exists = env.exists
      BY Zenon, <1>t DEF EnvType
    <3> HIDE DEF f
    <3> QED
      BY Zenon, <2>3, <3>1, <3>2, <1>q DEF Reachable
  <2> QED
    BY Zenon, <1>8, <2>1, <2>2, <2>3 DEF EnvPauses
<1>9. CASE EnvReleases
  <2> DEFINE f == [env EXCEPT !.susp = FALSE, !.reason = "none", !.wake = FALSE, !.obs = FALSE]
  <2>1. EnvStep(f) /\ UNCHANGED sandbox
    BY Zenon, <1>9 DEF EnvReleases
  <2>2. /\ f.own = env.own /\ f.claim = env.claim /\ f.fence = env.fence /\ f.gen = env.gen
        /\ f.conn = env.conn /\ f.phase = env.phase /\ f.exists = env.exists /\ ~f.obs
    BY Zenon, <1>t DEF EnvType
  <2> HIDE DEF f
  <2> QED
    BY Zenon, <2>1, <2>2, <1>q DEF Reachable
<1>10. CASE EnvResumes
  <2>1. EnvStep([env EXCEPT !.phase = "Resuming", !.obs = TRUE]) /\ UNCHANGED sandbox
    BY Zenon, <1>10 DEF EnvResumes
  <2>2. env' = [env EXCEPT !.phase = "Resuming", !.obs = TRUE] /\ env.exists
    BY Zenon, <2>1, <1>s
  <2>3. /\ env'.own = env.own /\ env'.claim = env.claim /\ env'.fence = env.fence
        /\ env'.gen = env.gen /\ env'.phase = "Resuming" /\ env'.exists = env.exists
        /\ env'.conn = env.conn
    BY Zenon, <2>2, <1>t DEF EnvType
  <2>4. PodStanding'
    BY Zenon, <2>1, <2>2, <2>3, <1>t DEF PodStanding, Reachable, sandbox
  <2> QED
    BY Zenon, <2>1, <2>3, <2>4, <1>s, <1>k
<1>11. CASE EnvDeleted
  <2>1. ~live /\ EnvStep([env EXCEPT !.exists = FALSE, !.conn = 0]) /\ UNCHANGED sandbox
    BY Zenon, <1>11 DEF EnvDeleted
  <2>2. env' = [env EXCEPT !.exists = FALSE, !.conn = 0]
    BY Zenon, <2>1, <1>s
  <2>3. /\ env'.own = env.own /\ env'.claim = env.claim /\ env'.fence = env.fence
        /\ env'.gen = env.gen /\ env'.phase = env.phase /\ env'.conn = 0
    BY Zenon, <2>2, <1>t DEF EnvType
  <2>4. PodStanding'
    BY Zenon, <2>1, <2>2, <2>3, <1>t DEF PodStanding, Reachable, sandbox
  <2> QED
    BY Zenon, <2>1, <2>3, <2>4, <1>s, <1>k
<1>12. CASE SetHold
  <2> DEFINE f == [env EXCEPT !.rev = @ + 1, !.wake = FALSE, !.obs = FALSE]
  <2>1. EnvStep(f) /\ UNCHANGED sandbox
    BY Zenon, <1>12 DEF SetHold
  <2>2. /\ f.own = env.own /\ f.claim = env.claim /\ f.fence = env.fence /\ f.gen = env.gen
        /\ f.conn = env.conn /\ f.phase = env.phase /\ f.exists = env.exists /\ ~f.obs
    BY Zenon, <1>t DEF EnvType
  <2> HIDE DEF f
  <2> QED
    BY <2>1, <2>2, <1>q DEF Reachable
<1> QED
  BY Zenon, <1>1, <1>2, <1>3, <1>4, <1>5, <1>6, <1>7, <1>8, <1>9, <1>10, <1>11, <1>12 DEF Environment

\* The numbers and the records that the steps below compare.
LEMMA RunTypes ==
    ASSUME TypeOK, NEW r \in Runs
    PROVE  /\ run[r] \in RunType /\ view[r].run \in RunType
           /\ env \in EnvType /\ view[r].env \in EnvType /\ proc[r] \in ProcType
           /\ env.gen \in Nat /\ view[r].env.gen \in Nat /\ proc[r].gen \in Nat
           /\ run[r].accGen \in Nat /\ view[r].run.accGen \in Nat
           /\ ended[r] \subseteq Nat /\ pc[r] \in Steps /\ result[r] \in Results
           /\ live \in BOOLEAN
BY Zenon DEF TypeOK, RunType, EnvType, ProcType

-----------------------------------------------------------------------------
(* The steps of others.                                                    *)

\* What a Run sees of a step that is not its own: its Run, its cache and its reconcile
\* stay, and so does its claim; its process stays unless the Pod goes.
Aside(q) ==
    /\ run'[q] = run[q] /\ view'[q] = view[q] /\ runFresh'[q] = runFresh[q]
    /\ pc'[q] = pc[q] /\ result'[q] = result[q] /\ ended'[q] = ended[q]
    /\ envFresh'[q] => envFresh[q] /\ env' = env
    /\ env'.own = env.own
    /\ env.claim = q <=> env'.claim = q
    /\ env'.fence # 0 /\ env'.claim = q => env.fence # 0
    /\ \/ live' = live /\ env'.gen = env.gen /\ proc'[q] = proc[q]
       \/ ~live' /\ env'.gen = env.gen /\ proc'[q] = NoProc
       \/ ~live /\ live' /\ env'.gen > env.gen /\ proc'[q] = proc[q]

\* Such a step keeps all that stands for the Run: another Run's reconcile never takes its
\* claim, its process or the ground of its own reconcile away.
LEMMA AsideKeeps ==
    ASSUME TypeOK, TypeOK', NEW q \in Runs, StandingOf(q), EnvStanding, EnvStanding', Aside(q)
    PROVE  StandingOf(q)'
<1>t. /\ env.gen \in Nat /\ env'.gen \in Nat /\ view[q].env.gen \in Nat /\ run[q].accGen \in Nat
      /\ view[q].run.accGen \in Nat /\ live \in BOOLEAN /\ live' \in BOOLEAN
  BY Zenon, RunTypes DEF TypeOK, EnvType
<1>p. \/ live' = live /\ env'.gen = env.gen /\ proc'[q] = proc[q]
      \/ ~live' /\ env'.gen = env.gen /\ proc'[q].st = "none"
      \/ ~live /\ live' /\ env'.gen > env.gen /\ proc'[q] = proc[q] /\ proc'[q].st = "none"
  BY Zenon DEF Aside, NoProc, EnvStanding, SandboxStanding
<1>h. HasProcess(q)' => HasProcess(q) /\ live' /\ env'.exists
  <2>1. HasProcess(q)' => HasProcess(q) /\ live'
    BY Zenon, <1>p DEF HasProcess, EnvStanding, SandboxStanding
  <2> QED
    BY Zenon, <2>1 DEF EnvStanding, PodStanding
<1>v. /\ run'[q] = run[q] /\ view'[q] = view[q] /\ runFresh'[q] = runFresh[q]
      /\ pc'[q] = pc[q] /\ result'[q] = result[q] /\ ended'[q] = ended[q]
      /\ env'.own = env.own /\ (env.claim = q <=> env'.claim = q)
      /\ env'.fence # 0 /\ env'.claim = q => env.fence # 0
      /\ envFresh'[q] => envFresh[q] /\ env' = env
  BY Zenon DEF Aside
<1>1. CacheStanding(q)'
  BY Zenon, <1>v DEF StandingOf, CacheStanding
<1>2. ExecutionStanding(q)'
  BY <1>v, <1>p, <1>t DEF StandingOf, ExecutionStanding
<1>3. ProcessStanding(q)'
  BY Zenon, <1>v, <1>h DEF StandingOf, ProcessStanding
<1>4. StepStanding(q)'
  <2>1. pc[q] \in Answered /\ result[q] = "Accepted" /\ live' /\ env'.gen = view[q].env.gen =>
          proc'[q].st # "none"
    <3>1. /\ view[q].env.gen <= env.gen
          /\ pc[q] \in Answered /\ result[q] = "Accepted" /\ live /\ env.gen = view[q].env.gen =>
               proc[q].st # "none"
      BY Zenon DEF StandingOf, StepStanding, ExecutionStanding
    <3>2. CASE live' = live /\ env'.gen = env.gen /\ proc'[q] = proc[q]
      BY Zenon, <3>1, <3>2
    <3>3. CASE ~live'
      BY Zenon, <3>3
    <3>4. CASE env'.gen > env.gen
      BY <3>1, <3>4, <1>t
    <3> QED
      BY Zenon, <3>2, <3>3, <3>4, <1>p
  <2> QED
    BY Zenon, <2>1, <1>v, <1>h DEF StandingOf, StepStanding
<1>5. ClaimStanding(q)'
  BY Zenon, <1>v DEF StandingOf, ClaimStanding
<1> QED
  BY Zenon, <1>1, <1>2, <1>3, <1>4, <1>5 DEF StandingOf
-----------------------------------------------------------------------------
(* A Run's own steps.                                                      *)

-----------------------------------------------------------------------------
(* The Run's own steps.                                                    *)

\* A reconcile at rest has nothing to stand by.
LEMMA IdleStands ==
    ASSUME NEW r \in Runs, pc'[r] = "idle"
    PROVE  StepStanding(r)'
BY Zenon DEF StepStanding, Calls, Answered

\* Writing the Run, a reconcile keeps all that stands for it: a write based on a stale cache
\* meets a conflict, so what is edited is the Run as it is.
LEMMA EditKeeps ==
    ASSUME TypeOK, TypeOK', NEW r \in Runs, StandingOf(r), Edited(r)
    PROVE  StandingOf(r)'
<1> DEFINE u == view[r].run
           e == view[r].env
<1>v. /\ UNCHANGED <<env, envFresh, view, live, proc, ended>> /\ pc'[r] = "idle"
  BY Zenon DEF Edited, sandbox, TypeOK
<1>t. /\ u \in RunType /\ e.gen \in Nat /\ env.gen \in Nat /\ u.accGen \in Nat
  BY Zenon, RunTypes
<1>p. u.state \in Terminals => Path(u) # "work"
  BY Zenon, <1>t, Paths
<1>h. HasProcess(r)' = HasProcess(r)
  BY Zenon, <1>v DEF HasProcess
<1>s. StepStanding(r)'
  BY Zenon, <1>v, IdleStands
<1>1. CASE UNCHANGED <<run, runFresh>>
  <2>1. CacheStanding(r)' /\ ExecutionStanding(r)' /\ ProcessStanding(r)' /\ ClaimStanding(r)'
    BY <1>1, <1>v, <1>h
      DEF StandingOf, CacheStanding, ExecutionStanding, ProcessStanding, ClaimStanding
  <2> QED
    BY Zenon, <2>1, <1>s DEF StandingOf
<1>2. CASE u = run[r] /\ ~runFresh'[r] /\ Edit(r, run'[r])
  <2> DEFINE w == run'[r]
  <2>r. RecordStanding(u) /\ RecordStanding(w) /\ Later(u, w)
    BY Zenon, <1>2 DEF StandingOf, CacheStanding, Edit
  <2>a. w.attempted => u.ref
    BY Zenon, <1>2, <2>r DEF Edit, RecordStanding
  <2>b. u.exists /\ ~u.deleting => w.exists
    BY Zenon, <1>2 DEF Edit
  <2>c. w.verdict => ~(Path(u) = "work" /\ u.state = "EnvironmentReady")
    BY Zenon, <1>2, <2>r, <1>p DEF Edit, RecordStanding
  <2>d. w.state = "Cancelled" => Path(u) # "work"
    BY Zenon, <1>2, <1>p DEF Edit, Terminals
  <2>1. CacheStanding(r)'
    BY Zenon, <1>2, <1>v, <2>r, <2>a, <2>b, <2>c, <2>d DEF CacheStanding
  <2>2. ExecutionStanding(r)'
    <3>1. \/ w.accGen = u.accGen
          \/ w.accGen = e.gen /\ (live /\ env.gen = e.gen => proc[r].st # "none")
      BY Zenon, <1>2 DEF Edit
    <3> QED
      BY Zenon, <1>2, <1>v, <3>1 DEF StandingOf, ExecutionStanding
  <2>3. ProcessStanding(r)'
    <3>1. HasProcess(r) => w.exists /\ w.attempted
      BY Zenon, <1>2, <2>r DEF Edit, StandingOf, ProcessStanding, Later
    <3>2. w.state = "Cancelled" \/ w.verdict => ~HasProcess(r)
      BY Zenon, <1>2 DEF Edit, StandingOf, ProcessStanding
    <3>3. w.verdict => w.accGen \in ended[r]
      BY Zenon, <1>2 DEF Edit, StandingOf, ProcessStanding
    <3> QED
      BY Zenon, <3>1, <3>2, <3>3, <1>v, <1>h DEF StandingOf, ProcessStanding
  <2>4. ClaimStanding(r)'
    BY Zenon, <1>2, <1>v DEF Edit, StandingOf, ClaimStanding
  <2> QED
    BY Zenon, <2>1, <2>2, <2>3, <2>4, <1>s DEF StandingOf
<1> QED
  BY Zenon, <1>1, <1>2 DEF Edited

\* Writing the Environment, the Run keeps what its process rests on, and gives up its claim
\* only without one.
LEMMA EnvEditKeeps ==
    ASSUME TypeOK, TypeOK', NEW r \in Runs, StandingOf(r), EnvStanding, EnvEdited(r)
    PROVE  StandingOf(r)'
<1> DEFINE u == view[r].run
           e == view[r].env
<1>v. UNCHANGED <<run, live, proc, ended, view, runFresh>>
  BY Zenon DEF EnvEdited, sandbox
<1>h. HasProcess(r)' = HasProcess(r)
  BY Zenon, <1>v DEF HasProcess
<1>s. StepStanding(r)'
  <2>1. /\ pc'[r] \in {"wake", "ref", "refused", "idle", "released"}
        /\ pc'[r] \in {"wake", "ref", "refused"} => Path(u) = "work"
        /\ pc'[r] = "released" => ~HasProcess(r)
    BY Zenon DEF EnvEdited
  <2> QED
    BY Zenon, <2>1, <1>v, <1>h DEF StepStanding, Calls, Answered
<1>c. CacheStanding(r)'
  BY Zenon, <1>v DEF StandingOf, CacheStanding
<1>1. CASE UNCHANGED <<env, envFresh>>
  <2>1. ExecutionStanding(r)' /\ ProcessStanding(r)' /\ ClaimStanding(r)'
    BY Zenon, <1>1, <1>v, <1>h DEF StandingOf, ExecutionStanding, ProcessStanding, ClaimStanding
  <2> QED
    BY Zenon, <2>1, <1>s, <1>c DEF StandingOf
<1>2. CASE EnvEdit(r) /\ envFresh' = [q \in Runs |-> FALSE]
  <2>1. ExecutionStanding(r)'
    BY Zenon, <1>2, <1>v DEF EnvEdit, StandingOf, ExecutionStanding
  <2>2. ProcessStanding(r)'
    BY Zenon, <1>2, <1>v, <1>h DEF EnvEdit, StandingOf, ProcessStanding
  <2>3. ClaimStanding(r)'
    <3>1. Mine(e, r) /\ env'.claim # r =>
            env'.own = "Claimed" /\ (Fenced(e) \/ Reachable(e) \/ ~run[r].attempted)
      BY Zenon, <1>2 DEF EnvEdit, StandingOf, ClaimStanding
    <3>2. env'.fence # 0 /\ env'.claim = r => Path(u) # "work"
      BY Zenon, <1>2 DEF EnvEdit, StandingOf, ClaimStanding
    <3> QED
      BY Zenon, <3>1, <3>2, <1>v DEF ClaimStanding
  <2> QED
    BY Zenon, <2>1, <2>2, <2>3, <1>s, <1>c DEF StandingOf
<1> QED
  BY Zenon, <1>1, <1>2 DEF EnvEdited

\* A call reaches the Pod of the Run's own Environment: a process starts only for a Run that
\* has not ended, and the answer about one is an answer about the accepted execution.
LEMMA CallKeeps ==
    ASSUME TypeOK, TypeOK', NEW r \in Runs, StandingOf(r), EnvStanding, SandboxCalls(r)
    PROVE  StandingOf(r)'
<1> DEFINE u == view[r].run
           e == view[r].env
<1>v. UNCHANGED <<run, env, live, ended, view, runFresh, envFresh>>
  BY Zenon DEF SandboxCalls, StartProcess, Observe, StopProcess, Called
<1>c. pc[r] = "call" /\ live /\ env.gen = e.gen
  BY Zenon DEF SandboxCalls, StartProcess, Observe, StopProcess, Calling
<1>b. /\ env.claim = r /\ Mine(e, r) /\ Reachable(e) /\ u.attempted /\ env.exists
      /\ Path(u) = "work" => run[r].exists /\ (u.state # "EnvironmentReady" => u.accGen = e.gen)
  BY Zenon, <1>c DEF StandingOf, StepStanding, Calls, EnvStanding, PodStanding
<1>t. proc \in [Runs -> ProcType] /\ proc[r] \in ProcType /\ pc \in [Runs -> Steps]
      /\ result \in [Runs -> Results]
  BY Zenon DEF TypeOK
<1>k. CacheStanding(r)' /\ ClaimStanding(r)'
  BY Zenon, <1>v DEF StandingOf, CacheStanding, ClaimStanding
<1>p. ASSUME proc'[r] = proc[r] PROVE ExecutionStanding(r)' /\ ProcessStanding(r)'
  BY Zenon, <1>p, <1>v DEF StandingOf, ExecutionStanding, ProcessStanding, HasProcess
<1>a. \A a : Called(r, a) => pc'[r] = "called" /\ result'[r] = a
  BY Zenon, <1>t DEF Called, Goto, Answer
<1>1. CASE StartProcess(r)
  <2>1. Path(u) = "work" /\ u.state = "EnvironmentReady"
    BY Zenon, <1>1 DEF StartProcess
  <2>2. CASE Called(r, "Rejected") /\ UNCHANGED proc
    <3>1. StepStanding(r)'
      BY <2>1, <2>2, <1>a, <1>b, <1>v DEF StepStanding, Calls, Answered
    <3> QED
      BY Zenon, <2>2, <3>1, <1>k, <1>p DEF StandingOf
  <2>3. CASE /\ Called(r, "Accepted")
             /\ proc' = IF proc[r].st = "none"
                        THEN [proc EXCEPT ![r] = [gen |-> env.gen, st |-> "running"]] ELSE proc
    <3>1. proc'[r].st # "none" /\ (proc'[r] = proc[r] \/ proc'[r].st = "running")
      BY Zenon, <2>3, <1>t
    <3>2. run[r].exists /\ run[r].attempted /\ ~run[r].verdict /\ run[r].state # "Cancelled"
      BY Zenon, <2>1, <1>b DEF StandingOf, CacheStanding, Later
    <3>3. e.phase # "Paused"
      BY Zenon, <1>b DEF Reachable
    <3>4. ProcessStanding(r)'
      BY Zenon, <3>2, <3>3, <1>b, <1>v DEF ProcessStanding
    <3>5. ExecutionStanding(r)'
      BY Zenon, <3>1, <1>v DEF StandingOf, ExecutionStanding
    <3>6. StepStanding(r)'
      <4>1. pc'[r] = "called" /\ result'[r] = "Accepted" /\ proc'[r].st # "none"
        BY Zenon, <2>3, <3>1, <1>a
      <4> QED
        BY Zenon, <2>1, <4>1, <1>b, <1>v DEF StepStanding, Calls, Answered
    <3> QED
      BY Zenon, <3>4, <3>5, <3>6, <1>k DEF StandingOf
  <2> QED
    BY Zenon, <1>1, <2>2, <2>3 DEF StartProcess
<1>2. CASE Observe(r)
  <2>1. Path(u) = "work" /\ u.state # "EnvironmentReady" /\ UNCHANGED proc
    BY Zenon, <1>2 DEF Observe
  <2>2. u.accGen = env.gen /\ proc[r].st # "none"
    BY Zenon, <2>1, <1>b, <1>c DEF StandingOf, ExecutionStanding
  <2>3. PICK a \in {"Running", "Refused", "Succeeded", "Failed"} :
          Called(r, a) /\ (a \in {"Succeeded", "Failed"} => proc[r].st = "exited")
    <3>1. CASE proc[r].st = "exited"
      BY Zenon, <1>2, <3>1 DEF Observe
    <3>2. CASE proc[r].st # "exited"
      BY Zenon, <1>2, <2>2, <3>2 DEF Observe
    <3> QED
      BY Zenon, <3>1, <3>2
  <2>4. a \in {"Succeeded", "Failed"} => ~HasProcess(r) /\ u.accGen \in ended[r]
    BY Zenon, <2>2, <2>3 DEF HasProcess, EnvStanding, SandboxStanding
  <2>5. HasProcess(r)' = HasProcess(r)
    BY Zenon, <2>1 DEF HasProcess
  <2>6. StepStanding(r)'
    BY Zenon, <2>1, <2>3, <2>4, <2>5, <1>a, <1>b, <1>v DEF StepStanding, Calls, Answered
  <2> QED
    BY Zenon, <2>1, <2>6, <1>k, <1>p DEF StandingOf
<1>3. CASE StopProcess(r)
  <2>1. Path(u) # "work"
    BY Zenon, <1>3 DEF StopProcess
  <2>2. CASE HasProcess(r)
    <3>1. proc' = [proc EXCEPT ![r].st = "stopping"] /\ pc'[r] = "idle"
      BY Zenon, <1>3, <2>2, <1>t DEF StopProcess, HasProcess, Return, Goto
    <3>2. proc'[r].st = "stopping"
      BY Zenon, <3>1, <1>t DEF ProcType
    <3>3. ProcessStanding(r)' /\ ExecutionStanding(r)'
      BY Zenon, <2>2, <3>2, <1>v DEF StandingOf, ProcessStanding, ExecutionStanding
    <3> QED
      BY Zenon, <3>1, <3>3, <1>k, IdleStands DEF StandingOf
  <2>3. CASE ~HasProcess(r)
    <3>1. Called(r, "none") /\ UNCHANGED proc
      BY Zenon, <1>3, <2>3 DEF StopProcess, HasProcess
    <3>2. StepStanding(r)'
      BY <2>1, <2>3, <3>1, <1>a, <1>b, <1>v DEF StepStanding, Calls, Answered, HasProcess
    <3> QED
      BY Zenon, <3>1, <3>2, <1>k, <1>p DEF StandingOf
  <2> QED
    BY Zenon, <2>2, <2>3
<1> QED
  BY Zenon, <1>1, <1>2, <1>3 DEF SandboxCalls

\* A call begins only where the last checks found the Run's Environment.
LEMMA AdvanceKeeps ==
    ASSUME TypeOK, TypeOK', NEW r \in Runs, StandingOf(r), EnvStanding, Advances(r)
    PROVE  StandingOf(r)'
<1> DEFINE u == view[r].run
           e == view[r].env
<1>v. UNCHANGED <<run, env, live, proc, ended, view, runFresh, envFresh>>
  BY Zenon DEF Advances, BeginCall, Confirm, Fail, Abort, sandbox
<1>t. pc \in [Runs -> Steps] /\ result \in [Runs -> Results] /\ u \in RunType
  BY Zenon DEF TypeOK
<1>k. CacheStanding(r)' /\ ClaimStanding(r)' /\ ExecutionStanding(r)' /\ ProcessStanding(r)'
  <2>1. HasProcess(r)' = HasProcess(r)
    BY Zenon, <1>v DEF HasProcess
  <2>2. CacheStanding(r)'
    BY Zenon, <1>v DEF StandingOf, CacheStanding
  <2>3. ClaimStanding(r)' /\ ExecutionStanding(r)'
    BY Zenon, <1>v DEF StandingOf, ClaimStanding, ExecutionStanding
  <2>4. ProcessStanding(r)'
    BY Zenon, <2>1, <1>v DEF StandingOf, ProcessStanding
  <2> QED
    BY Zenon, <2>2, <2>3, <2>4
<1>i. Return(r) => pc'[r] = "idle"
  BY Zenon, <1>t DEF Return, Goto
<1>s. SUFFICES StepStanding(r)'
  BY Zenon, <1>k DEF StandingOf
<1>1. CASE BeginCall(r)
  <2>1. pc'[r] = "call"
    BY Zenon, <1>1, <1>t DEF BeginCall, Goto
  <2>2. env.claim = r
    BY Zenon, <1>1 DEF BeginCall, ExecutionCurrent, Mine
  <2>r. RecordStanding(u)
    BY Zenon DEF StandingOf, CacheStanding
  <2>3. CASE AtWork(r) /\ (u.state = "EnvironmentReady" => u.attempted)
    <3>1. /\ Mine(e, r) /\ Reachable(e) /\ Path(u) = "work" /\ u.exists
          /\ StateFrom(u, e) = u.state
      BY Zenon, <2>3 DEF AtWork, Working, On
    <3>2. \/ /\ u.state \notin {"none", "Allocating", "Paused"}
             /\ u.accGen # 0 => u.accGen = e.gen
          \/ u.state = "EnvironmentReady"
      <4>1. e.obs /\ e.phase = "Ready"
        BY Zenon, <3>1 DEF Reachable
      <4>2. StateFrom(u, e) = IF \/ u.accGen # 0 /\ ~AcceptedCurrent(u, e)
                                 \/ u.state \in {"none", "Allocating", "Paused"}
                              THEN "EnvironmentReady" ELSE u.state
        BY Zenon, <3>1, <4>1 DEF StateFrom
      <4> QED
        BY Zenon, <3>1, <4>2 DEF AcceptedCurrent
    <3>3. u.state \notin Terminals /\ u.state \in States /\ ~u.deleting
      BY Zenon, <3>1, <1>t, Paths DEF RunType
    <3>4. u.state # "EnvironmentReady" => u.accGen = e.gen /\ u.attempted
      BY Zenon, <3>2, <3>3, <2>r DEF RecordStanding, States
    <3>5. u.attempted
      BY Zenon, <2>3, <3>4
    <3>6. run[r].exists
      BY Zenon, <3>1, <3>3, <3>5 DEF StandingOf, CacheStanding
    <3> QED
      BY Zenon, <2>1, <2>2, <3>1, <3>4, <3>5, <3>6, <1>v DEF StepStanding, Calls, Answered
  <2>4. CASE Leaving(r) /\ MustStop(u, e) /\ Reachable(e)
    <3>1. Mine(e, r) /\ Path(u) # "work"
      BY Zenon, <2>4 DEF Leaving, On
    <3>2. u.attempted
      BY Zenon, <2>4, <2>r DEF MustStop, MayHaveAccepted, RecordStanding
    <3> QED
      BY Zenon, <2>1, <2>2, <2>4, <3>1, <3>2, <1>v DEF StepStanding, Calls, Answered
  <2> QED
    BY Zenon, <1>1, <2>3, <2>4 DEF BeginCall
<1>2. CASE Confirm(r)
  <2>1. CASE ExecutionCurrent(r)
    <3>1. pc[r] = "called" /\ pc'[r] = "confirmed" /\ result'[r] = result[r]
      BY Zenon, <1>2, <2>1, <1>t DEF Confirm, Goto
    <3>2. HasProcess(r)' = HasProcess(r)
      BY <1>v DEF HasProcess
    <3> QED
      BY Zenon, <3>1, <3>2, <1>v DEF StandingOf, StepStanding, Calls, Answered
  <2>2. CASE ~ExecutionCurrent(r)
    BY Zenon, <1>2, <2>2, <1>i, IdleStands DEF Confirm
  <2> QED
    BY Zenon, <2>1, <2>2
<1>3. CASE Fail(r) \/ Abort(r)
  BY Zenon, <1>3, <1>i, IdleStands DEF Fail, Abort
<1> QED
  BY Zenon, <1>1, <1>2, <1>3 DEF Advances

\* The cache catches up while no reconcile is in progress.
LEMMA SyncKeeps ==
    ASSUME TypeOK, TypeOK', NEW r \in Runs, StandingOf(r), EnvStanding, SyncRun(r) \/ SyncEnv(r)
    PROVE  StandingOf(r)'
<1> DEFINE u == view[r].run
           e == view[r].env
<1>v. /\ UNCHANGED <<run, env, live, proc, ended>> /\ pc'[r] = "idle"
  BY Zenon DEF SyncRun, SyncEnv, sandbox
<1>t. /\ view \in [Runs -> [run : RunType, env : EnvType]] /\ run[r] \in RunType /\ u \in RunType
      /\ runFresh \in [Runs -> BOOLEAN] /\ envFresh \in [Runs -> BOOLEAN]
      /\ env.gen \in Nat /\ run[r].accGen \in Nat
  BY Zenon, RunTypes DEF TypeOK
<1>h. HasProcess(r)' = HasProcess(r)
  BY Zenon, <1>v DEF HasProcess
<1>s. StepStanding(r)'
  BY Zenon, <1>v, IdleStands
<1>1. CASE SyncRun(r)
  <2>1. view'[r].run = run[r] /\ view'[r].env = e /\ envFresh'[r] = envFresh[r]
    BY Zenon, <1>1, <1>t DEF SyncRun
  <2>2. CacheStanding(r)'
    <3>1. RecordStanding(run[r]) /\ Later(run[r], run[r])
      BY Zenon DEF StandingOf, CacheStanding, Later
    <3>2. run[r].state \in Terminals => Path(run[r]) # "work"
      BY Zenon, <1>t, Paths
    <3>3. ~run[r].ref => ~run[r].attempted
      BY Zenon, <3>1 DEF RecordStanding
    <3>4. run[r].verdict => Path(run[r]) # "work"
      BY Zenon, <3>1, <3>2 DEF RecordStanding
    <3>5. run[r].state = "Cancelled" => Path(run[r]) # "work"
      BY Zenon, <3>2 DEF Terminals
    <3> QED
      BY Zenon, <2>1, <3>1, <3>3, <3>4, <3>5, <1>v DEF CacheStanding
  <2>3. ExecutionStanding(r)'
    BY Zenon, <2>1, <1>v DEF StandingOf, ExecutionStanding
  <2>4. ProcessStanding(r)'
    BY Zenon, <2>1, <1>v, <1>h DEF StandingOf, ProcessStanding
  <2>5. ClaimStanding(r)'
    <3>1. Path(u) # "work" => Path(run[r]) # "work"
      BY Zenon, <1>t, Paths DEF StandingOf, CacheStanding, Later
    <3> QED
      BY Zenon, <2>1, <3>1, <1>v DEF StandingOf, ClaimStanding
  <2> QED
    BY Zenon, <2>2, <2>3, <2>4, <2>5, <1>s DEF StandingOf
<1>2. CASE SyncEnv(r)
  <2>1. view'[r].run = u /\ view'[r].env = env /\ runFresh'[r] = runFresh[r]
    BY Zenon, <1>2, <1>t DEF SyncEnv
  <2>2. CacheStanding(r)'
    BY Zenon, <2>1, <1>v DEF StandingOf, CacheStanding
  <2>3. ExecutionStanding(r)'
    <3>1. Hold(env) => ~Reachable(env)
      BY Zenon DEF EnvStanding, PodStanding
    <3>2. /\ run[r].accGen <= env.gen /\ u.accGen <= env.gen
          /\ live /\ env.gen \in {run[r].accGen, u.accGen} => proc[r].st # "none"
      BY Zenon DEF StandingOf, ExecutionStanding
    <3> HIDE DEF u
    <3> QED
      BY <2>1, <3>1, <3>2, <1>v, <1>t DEF ExecutionStanding
  <2>4. ProcessStanding(r)'
    <3>1. HasProcess(r) => Mine(env, r) /\ env.phase # "Paused"
      BY Zenon DEF HasProcess, StandingOf, ProcessStanding, Mine, EnvStanding, PodStanding,
        SandboxStanding
    <3> QED
      BY Zenon, <2>1, <3>1, <1>v, <1>h DEF StandingOf, ProcessStanding
  <2>5. ClaimStanding(r)'
    BY Zenon, <2>1, <1>v DEF StandingOf, ClaimStanding, Mine
  <2> QED
    BY <2>2, <2>3, <2>4, <2>5, <1>s DEF StandingOf
<1> QED
  BY Zenon, <1>1, <1>2

\* A user only marks the Run; what has no finalizer has no process.
LEMMA UserKeeps ==
    ASSUME TypeOK, TypeOK', NEW r \in Runs, StandingOf(r), CancelRun(r) \/ DeleteRun(r)
    PROVE  StandingOf(r)'
<1> DEFINE u == view[r].run
           w == run'[r]
<1>v. /\ UNCHANGED <<env, live, proc, ended, view, envFresh, pc, result>> /\ ~runFresh'[r]
  BY Zenon DEF CancelRun, DeleteRun, UserStep, PutRun, sandbox, TypeOK
<1>t. run[r] \in RunType /\ run \in [Runs -> RunType] /\ u \in RunType
  BY Zenon DEF TypeOK
<1>w. /\ w.state = run[r].state /\ w.attempted = run[r].attempted /\ w.accGen = run[r].accGen
      /\ w.verdict = run[r].verdict /\ w.ref = run[r].ref /\ w.final = run[r].final
      /\ run[r].deleting => w.deleting
      /\ run[r].cancel => w.cancel
      /\ w.exists = run[r].exists \/ (~w.exists /\ ~run[r].final)
  <2>1. CASE CancelRun(r)
    <3>1. w = [run[r] EXCEPT !.cancel = TRUE]
      BY Zenon, <2>1, <1>t DEF CancelRun, UserStep, PutRun
    <3> QED
      BY Zenon, <3>1, <1>t DEF RunType
  <2>2. CASE DeleteRun(r) /\ run[r].final
    <3>1. w = [run[r] EXCEPT !.deleting = TRUE]
      BY Zenon, <2>2, <1>t DEF DeleteRun, UserStep, PutRun
    <3> QED
      BY Zenon, <3>1, <1>t DEF RunType
  <2>3. CASE DeleteRun(r) /\ ~run[r].final
    <3>1. w = [run[r] EXCEPT !.exists = FALSE]
      BY Zenon, <2>3, <1>t DEF DeleteRun, UserStep, PutRun
    <3> QED
      BY Zenon, <3>1, <2>3, <1>t DEF RunType
  <2> QED
    BY Zenon, <2>1, <2>2, <2>3
<1>h. HasProcess(r)' = HasProcess(r)
  BY Zenon, <1>v DEF HasProcess
<1>r. RecordStanding(run[r]) /\ RecordStanding(u) /\ Later(u, run[r])
  BY Zenon DEF StandingOf, CacheStanding
<1>x. run[r].attempted /\ run[r].exists => w.exists
  BY Zenon, <1>w, <1>r DEF RecordStanding
<1> HIDE DEF w
<1>1. CacheStanding(r)'
  <2>1. RecordStanding(w)
    BY Zenon, <1>w, <1>r DEF RecordStanding
  <2>2. Later(u, w)
    BY Zenon, <1>w, <1>r DEF Later
  <2>3. u.exists /\ ~u.deleting /\ u.attempted => w.exists
    BY Zenon, <1>x, <1>r DEF StandingOf, CacheStanding, Later
  <2>4. /\ ~u.ref => ~w.attempted
        /\ w.verdict => ~(Path(u) = "work" /\ u.state = "EnvironmentReady")
        /\ w.state = "Cancelled" => Path(u) # "work"
    BY Zenon, <1>w DEF StandingOf, CacheStanding
  <2> QED
    BY Zenon, <2>1, <2>2, <2>3, <2>4, <1>r, <1>v DEF CacheStanding, w
<1>2. ExecutionStanding(r)'
  BY Zenon, <1>w, <1>v DEF StandingOf, ExecutionStanding, w
<1>3. ProcessStanding(r)'
  BY Zenon, <1>w, <1>x, <1>v, <1>h DEF StandingOf, ProcessStanding, w
<1>4. StepStanding(r)'
  <2>1. pc[r] \in Calls /\ Path(u) = "work" => w.exists
    BY Zenon, <1>x, <1>r DEF StandingOf, StepStanding, Later
  <2> QED
    BY Zenon, <2>1, <1>v, <1>h DEF StandingOf, StepStanding, w
<1>5. ClaimStanding(r)'
  BY Zenon, <1>w, <1>v DEF StandingOf, ClaimStanding, w
<1> QED
  BY Zenon, <1>1, <1>2, <1>3, <1>4, <1>5 DEF StandingOf

\* A process that ends by itself is recorded as ended in its execution.
LEMMA ExitKeeps ==
    ASSUME TypeOK, TypeOK', NEW r \in Runs, StandingOf(r), ProcessExits(r)
    PROVE  StandingOf(r)'
<1>v. UNCHANGED <<run, env, live, view, runFresh, envFresh, pc, result>>
  BY Zenon DEF ProcessExits
<1>p. proc'[r].st = "exited" /\ ended[r] \subseteq ended'[r]
  BY Zenon DEF ProcessExits, TypeOK, ProcType
<1>h. ~HasProcess(r)'
  BY Zenon, <1>p DEF HasProcess
<1>1. CacheStanding(r)' /\ ClaimStanding(r)'
  BY Zenon, <1>v DEF StandingOf, CacheStanding, ClaimStanding
<1>2. ExecutionStanding(r)'
  BY Zenon, <1>v, <1>p DEF StandingOf, ExecutionStanding
<1>3. ProcessStanding(r)'
  BY Zenon, <1>v, <1>p, <1>h DEF StandingOf, ProcessStanding
<1>4. StepStanding(r)'
  BY Zenon, <1>v, <1>p, <1>h DEF StandingOf, StepStanding
<1> QED
  BY Zenon, <1>1, <1>2, <1>3, <1>4 DEF StandingOf
-----------------------------------------------------------------------------
(* Every step keeps what stands.                                           *)

\* What the step of one Run leaves alone of another.
LEMMA OwnStepAside ==
    ASSUME TypeOK, RunInductive, NEW r \in Runs, NEW q \in Runs, q # r,
           \/ Edited(r) \/ EnvEdited(r) \/ SandboxCalls(r) \/ Advances(r) \/ SyncRun(r) \/ SyncEnv(r)
           \/ CancelRun(r) \/ DeleteRun(r) \/ ProcessExits(r)
    PROVE  Aside(q)
<1>r. q # "none"
  BY Zenon, RunAssumption
<1>t. /\ run \in [Runs -> RunType] /\ runFresh \in [Runs -> BOOLEAN]
      /\ envFresh \in [Runs -> BOOLEAN] /\ pc \in [Runs -> Steps] /\ result \in [Runs -> Results]
      /\ proc \in [Runs -> ProcType] /\ ended \in [Runs -> SUBSET Nat]
      /\ view \in [Runs -> [run : RunType, env : EnvType]]
  BY Zenon DEF TypeOK
<1>g. /\ \A s : Goto(r, s) => pc'[q] = pc[q]
      /\ \A a : Answer(r, a) => result'[q] = result[q]
      /\ Return(r) => pc'[q] = pc[q] /\ result'[q] = result[q]
  BY Zenon, <1>t DEF Goto, Answer, Return
<1>e. ASSUME UNCHANGED <<env, live>>, proc'[q] = proc[q], envFresh'[q] = envFresh[q],
             run'[q] = run[q], view'[q] = view[q], runFresh'[q] = runFresh[q],
             pc'[q] = pc[q], result'[q] = result[q], ended'[q] = ended[q]
      PROVE  Aside(q)
  BY Zenon, <1>e DEF Aside
<1>1. CASE Edited(r)
  BY Zenon, <1>1, <1>t, <1>e DEF Edited, sandbox
<1>2. CASE EnvEdited(r)
  <2>1. /\ UNCHANGED <<run, live, proc, ended, view, runFresh>>
        /\ pc'[q] = pc[q] /\ result'[q] = result[q]
    BY Zenon, <1>2 DEF EnvEdited, sandbox
  <2>2. CASE UNCHANGED <<env, envFresh>>
    BY Zenon, <2>1, <2>2, <1>e
  <2>3. CASE EnvEdit(r) /\ envFresh' = [p \in Runs |-> FALSE]
    <3>1. /\ env'.own = env.own /\ env'.gen = env.gen
          /\ env.claim = q <=> env'.claim = q
          /\ env'.fence # 0 /\ env'.claim = q => env.fence # 0
      BY Zenon, <2>3, <1>r DEF EnvEdit
    <3> QED
      BY Zenon, <2>1, <2>3, <3>1 DEF Aside
  <2> QED
    BY Zenon, <1>2, <2>2, <2>3 DEF EnvEdited
<1>3. CASE SandboxCalls(r)
  <2>1. UNCHANGED <<run, env, live, ended, view, runFresh, envFresh>>
    BY Zenon, <1>3 DEF SandboxCalls, StartProcess, Observe, StopProcess, Called
  <2>2. proc'[q] = proc[q]
    BY Zenon, <1>3, <1>t DEF SandboxCalls, StartProcess, Observe, StopProcess
  <2>3. pc'[q] = pc[q] /\ result'[q] = result[q]
    BY Zenon, <1>3, <1>g DEF SandboxCalls, StartProcess, Observe, StopProcess, Called
  <2> QED
    BY Zenon, <2>1, <2>2, <2>3, <1>e
<1>4. CASE Advances(r)
  <2>1. UNCHANGED <<run, env, live, proc, ended, view, runFresh, envFresh>>
    BY Zenon, <1>4 DEF Advances, BeginCall, Confirm, Fail, Abort, sandbox
  <2>2. pc'[q] = pc[q] /\ result'[q] = result[q]
    BY Zenon, <1>4, <1>g DEF Advances, BeginCall, Confirm, Fail, Abort
  <2> QED
    BY Zenon, <2>1, <2>2, <1>e
<1>5. CASE SyncRun(r)
  BY Zenon, <1>5, <1>t, <1>e DEF SyncRun, sandbox
<1>6. CASE SyncEnv(r)
  BY Zenon, <1>6, <1>t, <1>e DEF SyncEnv, sandbox
<1>7. CASE CancelRun(r) \/ DeleteRun(r)
  BY Zenon, <1>7, <1>t, <1>e DEF CancelRun, DeleteRun, UserStep, PutRun, sandbox
<1>8. CASE ProcessExits(r)
  BY Zenon, <1>8, <1>t, <1>e DEF ProcessExits
<1> QED
  BY Zenon, <1>1, <1>2, <1>3, <1>4, <1>5, <1>6, <1>7, <1>8

\* ... and what the Environment's controller leaves alone of any Run.
LEMMA EnvironmentAside ==
    ASSUME TypeOK, NEW q \in Runs, EnvMoved
    PROVE  Aside(q)
BY Zenon DEF EnvMoved, Aside, TypeOK

\* The sandbox's own facts, under any step.
LEMMA SandboxStep ==
    ASSUME TypeOK, TypeOK', RunInductive,
           \/ EnvMoved
           \/ \E r \in Runs : \/ Edited(r) \/ EnvEdited(r) \/ SandboxCalls(r) \/ Advances(r)
                              \/ SyncRun(r) \/ SyncEnv(r) \/ CancelRun(r) \/ DeleteRun(r)
                              \/ ProcessExits(r)
    PROVE  EnvStanding'
<1>t. /\ live \in BOOLEAN /\ live' \in BOOLEAN /\ env.gen \in Nat /\ env'.gen \in Nat
      /\ proc \in [Runs -> ProcType] /\ ended \in [Runs -> SUBSET Nat]
  BY Zenon DEF TypeOK, EnvType
<1>i. PodStanding /\ SandboxStanding
  BY Zenon DEF RunInductive, EnvStanding
<1>u. ASSUME UNCHANGED <<env, live, proc, ended>> PROVE EnvStanding'
  <2>1. PodStanding'
    BY Zenon, <1>i, <1>u DEF PodStanding
  <2>2. SandboxStanding'
    BY Zenon, <1>i, <1>u DEF SandboxStanding
  <2> QED
    BY Zenon, <2>1, <2>2 DEF EnvStanding
<1>1. CASE EnvMoved
  <2>1. SandboxStanding'
    <3> SUFFICES ASSUME NEW q \in Runs
                 PROVE  /\ proc'[q].st # "none" => live' /\ proc'[q].gen = env'.gen
                        /\ proc'[q].st = "exited" => proc'[q].gen \in ended'[q]
      BY Zenon DEF SandboxStanding
    <3>1. ended' = ended
      BY Zenon, <1>1 DEF EnvMoved
    <3>2. CASE live' = live /\ env'.gen = env.gen /\ proc' = proc
      BY Zenon, <3>1, <3>2, <1>i DEF SandboxStanding
    <3>3. CASE proc' = [p \in Runs |-> NoProc]
      BY Zenon, <3>3 DEF NoProc
    <3>4. CASE ~live /\ proc' = proc
      BY Zenon, <3>4, <1>i DEF SandboxStanding
    <3> QED
      BY Zenon, <1>1, <3>2, <3>3, <3>4 DEF EnvMoved
  <2> QED
    BY Zenon, <1>1, <2>1 DEF EnvMoved, EnvStanding
<1>2. ASSUME NEW r \in Runs, Edited(r) PROVE EnvStanding'
  BY Zenon, <1>2, <1>u DEF Edited, sandbox
<1>3. ASSUME NEW r \in Runs, EnvEdited(r) PROVE EnvStanding'
  <2>1. UNCHANGED <<live, proc, ended>>
    BY Zenon, <1>3 DEF EnvEdited, sandbox
  <2>2. CASE UNCHANGED env
    BY Zenon, <2>1, <2>2, <1>u
  <2>3. CASE EnvEdit(r)
    <3>1. PodStanding'
      <4>1. Hold(env') => ~Reachable(env')
        BY Zenon, <2>3, <1>i DEF EnvEdit, PodStanding, Hold
      <4> QED
        BY Zenon, <2>1, <2>3, <4>1, <1>i DEF EnvEdit, PodStanding
    <3>2. SandboxStanding'
      BY Zenon, <2>1, <2>3, <1>i DEF EnvEdit, SandboxStanding
    <3> QED
      BY Zenon, <3>1, <3>2 DEF EnvStanding
  <2> QED
    BY Zenon, <1>3, <2>2, <2>3 DEF EnvEdited
<1>4. ASSUME NEW r \in Runs, SandboxCalls(r) PROVE EnvStanding'
  <2>1. UNCHANGED <<env, live, ended>> /\ live
    BY Zenon, <1>4 DEF SandboxCalls, StartProcess, Observe, StopProcess, Called, Calling
  <2>2. PodStanding'
    BY Zenon, <2>1, <1>i DEF PodStanding
  <2>3. SandboxStanding'
    <3> SUFFICES ASSUME NEW q \in Runs
                 PROVE  /\ proc'[q].st # "none" => proc'[q].gen = env.gen
                        /\ proc'[q].st = "exited" => proc'[q].gen \in ended[q]
      BY Zenon, <2>1 DEF SandboxStanding
    <3>1. CASE proc' = proc
      BY Zenon, <3>1, <1>i DEF SandboxStanding
    <3>2. CASE proc' = [proc EXCEPT ![r] = [gen |-> env.gen, st |-> "running"]]
      BY Zenon, <3>2, <1>t, <1>i DEF SandboxStanding
    <3>3. CASE proc' = [proc EXCEPT ![r].st = "stopping"] /\ proc[r].st # "none"
      BY Zenon, <3>3, <1>t, <1>i DEF SandboxStanding, ProcType
    <3> QED
      BY Zenon, <1>4, <3>1, <3>2, <3>3 DEF SandboxCalls, StartProcess, Observe, StopProcess
  <2> QED
    BY <2>2, <2>3 DEF EnvStanding
<1>5. ASSUME NEW r \in Runs, Advances(r) PROVE EnvStanding'
  <2>1. UNCHANGED <<env, live, proc, ended>>
    BY Zenon, <1>5 DEF Advances, BeginCall, Confirm, Fail, Abort, sandbox
  <2> QED
    BY Zenon, <2>1, <1>u
<1>6. ASSUME NEW r \in Runs, SyncRun(r) \/ SyncEnv(r) \/ CancelRun(r) \/ DeleteRun(r)
      PROVE  EnvStanding'
  BY Zenon, <1>6, <1>u DEF SyncRun, SyncEnv, CancelRun, DeleteRun, UserStep, sandbox
<1>7. ASSUME NEW r \in Runs, ProcessExits(r) PROVE EnvStanding'
  <2>1. /\ UNCHANGED <<env, live>> /\ proc[r].st # "none"
        /\ proc' = [proc EXCEPT ![r].st = "exited"]
        /\ ended' = [ended EXCEPT ![r] = @ \cup {proc[r].gen}]
    BY Zenon, <1>7 DEF ProcessExits
  <2>2. PodStanding'
    BY Zenon, <2>1, <1>i DEF PodStanding
  <2>3. SandboxStanding'
    <3> SUFFICES ASSUME NEW q \in Runs
                 PROVE  /\ proc'[q].st # "none" => live' /\ proc'[q].gen = env'.gen
                        /\ proc'[q].st = "exited" => proc'[q].gen \in ended'[q]
      BY Zenon DEF SandboxStanding
    <3>1. CASE q = r
      <4>1. proc'[q].gen = proc[q].gen /\ ended'[q] = ended[q] \cup {proc[q].gen}
        BY Zenon, <2>1, <3>1, <1>t DEF ProcType
      <4> QED
        BY Zenon, <2>1, <3>1, <4>1, <1>i DEF SandboxStanding
    <3>2. CASE q # r
      BY Zenon, <2>1, <3>2, <1>t, <1>i DEF SandboxStanding
    <3> QED
      BY Zenon, <3>1, <3>2
  <2> QED
    BY <2>2, <2>3 DEF EnvStanding
<1> QED
  BY Zenon, <1>1, <1>2, <1>3, <1>4, <1>5, <1>6, <1>7

\* Every step is one of the kinds above.
LEMMA StepEffects ==
    ASSUME TypeOK, RunInductive, [Next]_vars
    PROVE  \/ UNCHANGED vars
           \/ EnvMoved
           \/ \E r \in Runs : \/ Edited(r) \/ EnvEdited(r) \/ SandboxCalls(r) \/ Advances(r)
                              \/ SyncRun(r) \/ SyncEnv(r) \/ CancelRun(r) \/ DeleteRun(r)
                              \/ ProcessExits(r)
<1>i. PodStanding
  BY Zenon DEF RunInductive, EnvStanding
<1>1. ASSUME NEW r \in Runs, RunWrites(r) PROVE Edited(r)
  BY Zenon, <1>1, RunEdits DEF RunInductive, StandingOf
<1>2. ASSUME NEW r \in Runs, EnvWrites(r) PROVE EnvEdited(r)
  BY Zenon, <1>2, <1>i, EnvEdits DEF RunInductive, StandingOf
<1>3. ASSUME Environment \/ SetHold PROVE EnvMoved
  BY Zenon, <1>3, <1>i, EnvironmentMoves
<1> QED
  BY Zenon, StepKinds, <1>1, <1>2, <1>3

\* Whoever takes a step of RunLifecycle, what stands is kept: for the Run that took it, by its
\* kind; for every other, because it stood aside.
LEMMA InductiveStep == TypeOK /\ RunInductive /\ [Next]_vars => RunInductive'
<1> SUFFICES ASSUME TypeOK, RunInductive, [Next]_vars PROVE RunInductive'
  OBVIOUS
<1>t. TypeOK'
  BY Zenon, TypeStep
<1>1. CASE UNCHANGED vars
  <2>1. EnvStanding'
    BY Zenon, <1>1 DEF vars, RunInductive, EnvStanding, PodStanding, SandboxStanding
  <2>2. ASSUME NEW q \in Runs PROVE StandingOf(q)'
    <3>1. Aside(q)
      BY Zenon, <1>1 DEF vars, Aside
    <3> QED
      BY Zenon, <1>t, <2>1, <3>1, AsideKeeps DEF RunInductive
  <2> QED
    BY Zenon, <2>1, <2>2 DEF RunInductive
<1>2. CASE EnvMoved
  <2>1. EnvStanding'
    BY Zenon, <1>t, <1>2, SandboxStep
  <2>2. ASSUME NEW q \in Runs PROVE StandingOf(q)'
    BY Zenon, <1>t, <1>2, <2>1, EnvironmentAside, AsideKeeps DEF RunInductive
  <2> QED
    BY <2>1, <2>2 DEF RunInductive
<1>3. ASSUME NEW r \in Runs,
             \/ Edited(r) \/ EnvEdited(r) \/ SandboxCalls(r) \/ Advances(r)
             \/ SyncRun(r) \/ SyncEnv(r) \/ CancelRun(r) \/ DeleteRun(r) \/ ProcessExits(r)
      PROVE  RunInductive'
  <2>1. EnvStanding'
    BY Zenon, <1>t, <1>3, SandboxStep
  <2>2. ASSUME NEW q \in Runs, q # r PROVE StandingOf(q)'
    <3>1. Aside(q)
      BY Zenon, <1>3, <2>2, OwnStepAside
    <3> QED
      BY Zenon, <1>t, <2>1, <3>1, AsideKeeps DEF RunInductive
  <2>3. StandingOf(r)'
    <3>1. StandingOf(r) /\ EnvStanding
      BY Zenon DEF RunInductive
    <3> QED
      BY Zenon, <1>t, <1>3, <3>1, EditKeeps, EnvEditKeeps, CallKeeps, AdvanceKeeps, SyncKeeps, UserKeeps,
        ExitKeeps
  <2> QED
    BY Zenon, <2>1, <2>2, <2>3 DEF RunInductive
<1> QED
  BY Zenon, StepEffects, <1>1, <1>2, <1>3

\* What stands holds of a new Run, without an Environment.
LEMMA InductiveStart == Init => RunInductive
<1> SUFFICES ASSUME Init PROVE RunInductive
  OBVIOUS
<1>e. PICK o \in Ownerships : env = NewEnv(o)
  BY DEF Init
<1>f. /\ env.gen = 0 /\ env.conn = 0 /\ env.claim = "none" /\ env.fence = 0 /\ env.phase = "Creating"
      /\ ~live
  BY Zenon, <1>e DEF NewEnv, Init
<1>1. EnvStanding
  <2>1. PodStanding
    BY Zenon, <1>f DEF PodStanding, Reachable
  <2>2. SandboxStanding
    BY Zenon DEF Init, SandboxStanding, NoProc
  <2> QED
    BY Zenon, <2>1, <2>2 DEF EnvStanding
<1>2. ASSUME NEW r \in Runs PROVE StandingOf(r)
  <2>1. /\ run[r] = NewRun /\ view[r].run = NewRun /\ view[r].env = env /\ proc[r].st = "none"
        /\ pc[r] = "idle"
    BY Zenon DEF Init, NoProc
  <2>2. Path(NewRun) = "work"
    <3>1. NewRun \in RunType
      BY Zenon DEF NewRun, RunType, States
    <3> QED
      BY Zenon, <3>1, Paths DEF NewRun, Terminals
  <2>n. /\ ~NewRun.attempted /\ NewRun.accGen = 0 /\ ~NewRun.verdict /\ ~NewRun.deleting
        /\ NewRun.state = "none"
    BY Zenon DEF NewRun
  <2>3. CacheStanding(r)
    <3>1. RecordStanding(NewRun) /\ Later(NewRun, NewRun)
      BY Zenon, <2>n DEF RecordStanding, Later
    <3> QED
      BY Zenon, <2>1, <2>n, <3>1 DEF CacheStanding
  <2>4. ExecutionStanding(r)
    BY <2>1, <2>n, <1>f DEF ExecutionStanding, Reachable
  <2>5. ProcessStanding(r)
    BY Zenon, <2>1, <2>n DEF ProcessStanding, HasProcess
  <2>6. StepStanding(r)
    BY Zenon, <2>1 DEF StepStanding, Calls, Answered
  <2>7. ClaimStanding(r)
    BY Zenon, <2>1, <1>f, RunAssumption DEF ClaimStanding, Mine
  <2> QED
    BY Zenon, <2>3, <2>4, <2>5, <2>6, <2>7 DEF StandingOf
<1> QED
  BY Zenon, <1>1, <1>2 DEF RunInductive

\* In every reachable state what stands for the Environment stands, and for every Run.
THEOREM RunIsInductive == Spec => [](TypeOK /\ RunInductive)
<1>1. Init => TypeOK /\ RunInductive
  BY Zenon, TypeStart, InductiveStart
<1>2. TypeOK /\ RunInductive /\ [Next]_vars => (TypeOK /\ RunInductive)'
  BY Zenon, TypeStep, InductiveStep
<1> QED
  BY <1>1, <1>2, PTL DEF Spec

-----------------------------------------------------------------------------
(* What follows.                                                           *)

\* A Run's agent process runs only under its claim, on a Run that records that it may have
\* started one; and none is left behind a recorded end.
THEOREM RunIsSound == Spec => []RunSound
<1>1. TypeOK /\ RunInductive => RunSound
  BY Zenon DEF RunInductive, StandingOf, ProcessStanding, RunSound, ProcessHasClaim, EndedMeansStopped,
    HasProcess
<1> QED
  BY <1>1, RunIsInductive, PTL

\* A recorded outcome is of a process that ended in the execution that accepted it.
THEOREM OutcomesAreReal == Spec => []OutcomeIsReal
<1>1. RunInductive => OutcomeIsReal
  BY Zenon DEF RunInductive, StandingOf, ProcessStanding, OutcomeIsReal
<1> QED
  BY <1>1, RunIsInductive, PTL

\* No suspend request is left behind by a Run that gave its claim back.
THEOREM ReleasesAreClean == Spec => []ReleasedClean
<1>1. RunInductive => ReleasedClean
  BY Zenon DEF RunInductive, EnvStanding, PodStanding, ReleasedClean
<1> QED
  BY <1>1, RunIsInductive, PTL

\* However many Runs share an Environment, their processes do not overlap and no request
\* outlives its Run.
THEOREM SharingIsClean == Spec => []SharedClean
<1>1. RunSound /\ ReleasedClean => SharedClean
  BY Zenon DEF RunSound, SharedClean
<1> QED
  BY <1>1, RunIsSound, ReleasesAreClean, PTL

\* No step of a reconcile, of a user or of the Environment changes a terminal state: a write of
\* the Run is based on the Run as it is, and none of them leaves a terminal state.
LEMMA TerminalStep == TypeOK /\ RunInductive /\ [Next]_vars => TerminalIsFinalStep
<1> SUFFICES ASSUME TypeOK, RunInductive, [Next]_vars, NEW q \in Runs, run[q].state \in Terminals
             PROVE  run'[q].state = run[q].state
  BY Zenon DEF TerminalIsFinalStep
<1>t. run \in [Runs -> RunType] /\ run[q] \in RunType
  BY Zenon DEF TypeOK
<1>1. CASE UNCHANGED vars
  BY Zenon, <1>1 DEF vars
<1>2. CASE EnvMoved
  BY Zenon, <1>2 DEF EnvMoved
<1>3. ASSUME NEW r \in Runs,
             \/ Edited(r) \/ EnvEdited(r) \/ SandboxCalls(r) \/ Advances(r)
             \/ SyncRun(r) \/ SyncEnv(r) \/ CancelRun(r) \/ DeleteRun(r) \/ ProcessExits(r)
      PROVE  run'[q].state = run[q].state
  <2>1. CASE q # r
    BY Zenon, <1>3, <2>1, OwnStepAside DEF Aside
  <2>2. CASE q = r /\ Edited(r)
    BY Zenon, <2>2 DEF Edited, Edit, Later
  <2>3. CASE q = r /\ (CancelRun(r) \/ DeleteRun(r))
    <3>1. \/ run'[r] = [run[r] EXCEPT !.cancel = TRUE]
          \/ run'[r] = [run[r] EXCEPT !.deleting = TRUE]
          \/ run'[r] = [run[r] EXCEPT !.exists = FALSE]
      BY Zenon, <2>3, <1>t DEF CancelRun, DeleteRun, UserStep, PutRun
    <3> QED
      BY Zenon, <2>3, <3>1, <1>t DEF RunType
  <2>4. CASE \/ EnvEdited(r) \/ SandboxCalls(r) \/ Advances(r) \/ SyncRun(r) \/ SyncEnv(r)
             \/ ProcessExits(r)
    <3>1. run' = run
      BY Zenon, <2>4 DEF EnvEdited, SandboxCalls, StartProcess, Observe, StopProcess, Called,
        Advances, BeginCall, Confirm, Fail, Abort, SyncRun, SyncEnv, ProcessExits
    <3> QED
      BY Zenon, <3>1
  <2> QED
    BY Zenon, <1>3, <2>1, <2>2, <2>3, <2>4
<1> QED
  BY Zenon, StepEffects, <1>1, <1>2, <1>3

\* However late a result or a conflict arrives, a terminal Run stays as it is.
THEOREM TerminalsAreFinal == Spec => TerminalIsFinal
BY TerminalStep, RunIsInductive, PTL DEF Spec, TerminalIsFinal

\* Only RequestEnvironmentFence raises the request, and the Run that takes it has the claim and is
\* ending, however old the copies it reads.
LEMMA FenceStep == TypeOK /\ RunInductive /\ [Next]_vars => FenceByLeaverStep
<1> SUFFICES ASSUME TypeOK, RunInductive, [Next]_vars, env'.fence > env.fence
             PROVE  \E r \in Runs : env.claim = r /\ Path(run[r]) # "work"
  BY Zenon DEF FenceByLeaverStep
<1>t. env.fence \in Nat
  BY Zenon DEF TypeOK, EnvType
<1>n. env'.fence # env.fence /\ env'.fence # 0
  BY <1>t
<1>1. CASE UNCHANGED vars
  BY Zenon, <1>1, <1>n DEF vars
<1>2. CASE EnvMoved
  BY Zenon, <1>2, <1>n DEF EnvMoved
<1>3. ASSUME NEW r \in Runs,
             \/ Edited(r) \/ SandboxCalls(r) \/ Advances(r)
             \/ SyncRun(r) \/ SyncEnv(r) \/ CancelRun(r) \/ DeleteRun(r) \/ ProcessExits(r)
      PROVE  FALSE
  <2>1. env' = env
    BY Zenon, <1>3 DEF Edited, SandboxCalls, StartProcess, Observe, StopProcess, Called, Advances,
      BeginCall, Confirm, Fail, Abort, SyncRun, SyncEnv, ProcessExits, CancelRun, DeleteRun,
      UserStep
  <2> QED
    BY Zenon, <2>1, <1>n
<1>4. ASSUME NEW r \in Runs, EnvEdited(r)
      PROVE  env.claim = r /\ Path(run[r]) # "work"
  <2>1. env.claim = r /\ Path(view[r].run) # "work"
    BY Zenon, <1>4, <1>n DEF EnvEdited, EnvEdit
  <2>2. view[r].run \in RunType /\ run[r] \in RunType
    BY Zenon DEF TypeOK
  <2>3. Later(view[r].run, run[r])
    BY Zenon DEF RunInductive, StandingOf, CacheStanding
  <2> QED
    BY Zenon, <2>1, <2>2, <2>3, Paths DEF Later
<1> QED
  BY Zenon, StepEffects, <1>1, <1>2, <1>3, <1>4

\* A suspend request is made only by an ending Run that still has the Environment.
THEOREM FencedByLeavers == Spec => FenceByLeaver
BY FenceStep, RunIsInductive, PTL DEF Spec, FenceByLeaver

-----------------------------------------------------------------------------
(* The Environment of this module implements ExecutionDomain.              *)

\* A step of ExecutionDomain, or one it does not see.
DomainNext == [Domain!Next]_(Domain!domain)

\* The Environment's own steps start, stop, publish, withdraw, suspend and release as
\* ExecutionDomain allows.
LEMMA EnvironmentInDomain ==
    ASSUME TypeOK, PodStanding, Environment \/ SetHold
    PROVE  DomainNext
<1>t. /\ env \in EnvType /\ env.gen \in Nat /\ env.conn \in Nat /\ env.susp \in BOOLEAN
      /\ live \in BOOLEAN /\ MaxGen \in Nat
  BY Zenon, RunAssumption DEF TypeOK, EnvType
<1>s. \A f : EnvStep(f) => env' = f
  BY Zenon DEF EnvStep, PutEnv
<1>k. ASSUME live' = live, env'.gen = env.gen, env'.susp = env.susp, env'.conn \in {env.conn, 0}
      PROVE  DomainNext
  BY Zenon, <1>k DEF DomainNext, Domain!Next, Domain!Withdraw, Domain!domain
<1>1. CASE EnvStarts
  <2>1. /\ ~live /\ live' = TRUE /\ ~env.susp /\ env.conn = 0 /\ env.gen < MaxGen
        /\ env' = [env EXCEPT !.gen = @ + 1]
    BY Zenon, <1>1, <1>s DEF EnvStarts
  <2>2. env'.gen = env.gen + 1 /\ env'.conn = env.conn /\ env'.susp = env.susp
    BY Zenon, <2>1, <1>t DEF EnvType
  <2>3. Domain!Start
    BY <2>1, <2>2, <1>t DEF Domain!Start, Gens
  <2> QED
    BY Zenon, <2>3 DEF DomainNext, Domain!Next
<1>2. CASE EnvPublishes
  <2>1. /\ live /\ ~env.susp /\ UNCHANGED sandbox
        /\ env' = [env EXCEPT !.conn = env.gen, !.phase = "Ready", !.obs = TRUE]
    BY Zenon, <1>2, <1>s DEF EnvPublishes
  <2>2. env'.gen = env.gen /\ env'.conn = env.gen /\ env'.susp = env.susp
    BY Zenon, <2>1, <1>t DEF EnvType
  <2>3. Domain!Publish
    BY <2>1, <2>2, <1>t DEF Domain!Publish, PodStanding, sandbox
  <2> QED
    BY Zenon, <2>3 DEF DomainNext, Domain!Next
<1>w. ASSUME NEW p, UNCHANGED sandbox, env' = [env EXCEPT !.conn = 0, !.phase = p, !.obs = TRUE]
      PROVE  DomainNext
  <2>1. env'.gen = env.gen /\ env'.conn = 0 /\ env'.susp = env.susp
    BY Zenon, <1>w, <1>t DEF EnvType
  <2> QED
    BY Zenon, <1>w, <2>1, <1>k DEF sandbox
<1>3. CASE EnvWithdraws
  BY Zenon, <1>3, <1>w, <1>s DEF EnvWithdraws
<1>4. CASE EnvFails
  BY Zenon, <1>4, <1>w, <1>s DEF EnvFails
<1>5. CASE EnvStops
  <2>1. Domain!Stop
    BY Zenon, <1>5 DEF EnvStops, Domain!Stop
  <2> QED
    BY Zenon, <2>1 DEF DomainNext, Domain!Next
<1>6. CASE EnvSuspends
  <2> DEFINE why == IF Hold(env) THEN "Hold" ELSE IF FenceNew THEN "Requested" ELSE "Idle"
             n == IF env.susp THEN env.epoch ELSE env.epoch + 1
             m == IF FenceNew THEN env.fence ELSE env.lastSeq
             b == env.wake /\ why = env.reason
             c == env.obs /\ why = "Idle"
             f == [env EXCEPT !.susp = TRUE, !.reason = why, !.epoch = n, !.lastSeq = m,
                              !.wake = b, !.obs = c]
  <2>1. EnvStep(f) /\ UNCHANGED sandbox
    BY <1>6, Zenon DEF EnvSuspends
  <2> HIDE DEF why, n, m, b, c
  <2>2. f.gen = env.gen /\ f.conn = env.conn /\ f.susp = TRUE
    BY Zenon, <1>t DEF EnvType
  <2> HIDE DEF f
  <2>3. env' = f
    BY Zenon, <2>1, <1>s
  <2>4. CASE env.susp
    BY Zenon, <2>1, <2>2, <2>3, <2>4, <1>t, <1>k DEF sandbox
  <2>5. CASE ~env.susp
    <3>1. Domain!Suspend
      BY Zenon, <2>1, <2>2, <2>3, <2>5 DEF Domain!Suspend, sandbox
    <3> QED
      BY Zenon, <3>1 DEF DomainNext, Domain!Next
  <2> QED
    BY Zenon, <2>4, <2>5
<1>7. CASE EnvDiscards
  <2>1. env' = [env EXCEPT !.fence = 0, !.obs = FALSE] /\ UNCHANGED sandbox
    BY Zenon, <1>7, <1>s DEF EnvDiscards
  <2>2. env'.gen = env.gen /\ env'.conn = env.conn /\ env'.susp = env.susp
    BY Zenon, <2>1, <1>t DEF EnvType
  <2> QED
    BY Zenon, <2>1, <2>2, <1>k DEF sandbox
<1>8. CASE EnvPauses
  <2>1. UNCHANGED sandbox
    BY <1>8 DEF EnvPauses
  <2>2. \/ env' = [env EXCEPT !.conn = 0, !.phase = "Creating", !.obs = TRUE]
        \/ env' = [env EXCEPT !.phase = "Paused", !.obs = TRUE]
        \/ env' = [env EXCEPT !.fence = 0]
    BY Zenon, <1>8, <1>s DEF EnvPauses
  <2>3. env'.gen = env.gen /\ env'.conn \in {env.conn, 0} /\ env'.susp = env.susp
    BY Zenon, <2>2, <1>t DEF EnvType
  <2> QED
    BY Zenon, <2>1, <2>3, <1>k DEF sandbox
<1>9. CASE EnvReleases
  <2>1. /\ env.susp /\ env.phase = "Paused" /\ UNCHANGED sandbox
        /\ env' = [env EXCEPT !.susp = FALSE, !.reason = "none", !.wake = FALSE, !.obs = FALSE]
    BY Zenon, <1>9, <1>s DEF EnvReleases
  <2>2. env'.gen = env.gen /\ env'.conn = env.conn /\ env'.susp = FALSE
    BY Zenon, <2>1, <1>t DEF EnvType
  <2>3. Domain!Release
    BY Zenon, <2>1, <2>2 DEF Domain!Release, PodStanding, sandbox
  <2> QED
    BY Zenon, <2>3 DEF DomainNext, Domain!Next
<1>10. CASE EnvResumes
  <2>1. env' = [env EXCEPT !.phase = "Resuming", !.obs = TRUE] /\ UNCHANGED sandbox
    BY Zenon, <1>10, <1>s DEF EnvResumes
  <2>2. env'.gen = env.gen /\ env'.conn = env.conn /\ env'.susp = env.susp
    BY Zenon, <2>1, <1>t DEF EnvType
  <2> QED
    BY Zenon, <2>1, <2>2, <1>k DEF sandbox
<1>11. CASE EnvDeleted
  <2>1. env' = [env EXCEPT !.exists = FALSE, !.conn = 0] /\ UNCHANGED sandbox
    BY Zenon, <1>11, <1>s DEF EnvDeleted
  <2>2. env'.gen = env.gen /\ env'.conn = 0 /\ env'.susp = env.susp
    BY Zenon, <2>1, <1>t DEF EnvType
  <2> QED
    BY Zenon, <2>1, <2>2, <1>k DEF sandbox
<1>12. CASE SetHold
  <2>1. env' = [env EXCEPT !.rev = @ + 1, !.wake = FALSE, !.obs = FALSE] /\ UNCHANGED sandbox
    BY Zenon, <1>12, <1>s DEF SetHold
  <2>2. env'.gen = env.gen /\ env'.conn = env.conn /\ env'.susp = env.susp
    BY Zenon, <2>1, <1>t DEF EnvType
  <2> QED
    BY Zenon, <2>1, <2>2, <1>k DEF sandbox
<1> QED
  BY <1>1, <1>2, <1>3, <1>4, <1>5, <1>6, <1>7, <1>8, <1>9, <1>10, <1>11, <1>12 DEF Environment

\* So does every other step: a reconcile changes generation, connection and suspension only when
\* it creates the Environment anew, which has no Pod.
LEMMA StepInDomain == TypeOK /\ RunInductive /\ [Next]_vars => DomainNext
<1> SUFFICES ASSUME TypeOK, RunInductive, [Next]_vars PROVE DomainNext
  OBVIOUS
<1>i. PodStanding
  BY DEF RunInductive, EnvStanding
<1>t. env.susp \in BOOLEAN /\ env'.susp \in BOOLEAN
  BY Zenon, TypeStep DEF TypeOK, EnvType
<1>k. UNCHANGED <<env, live>> => DomainNext
  BY Zenon DEF DomainNext, Domain!domain
<1>1. CASE UNCHANGED vars
  BY Zenon, <1>1, <1>k DEF vars
<1>2. CASE Environment \/ SetHold
  BY <1>2, <1>i, EnvironmentInDomain
<1>3. ASSUME NEW r \in Runs,
             \/ RunWrites(r) \/ SandboxCalls(r) \/ Advances(r)
             \/ SyncRun(r) \/ SyncEnv(r) \/ CancelRun(r) \/ DeleteRun(r) \/ ProcessExits(r)
      PROVE  UNCHANGED <<env, live>>
  <2>1. CASE RunWrites(r)
    BY Zenon, <2>1, RunEdits DEF RunInductive, StandingOf, Edited, sandbox
  <2>2. CASE SandboxCalls(r) \/ Advances(r)
    BY Zenon, <2>2 DEF SandboxCalls, StartProcess, Observe, StopProcess, Called, Advances,
      BeginCall, Confirm, Fail, Abort, sandbox
  <2>3. CASE SyncRun(r) \/ SyncEnv(r) \/ CancelRun(r) \/ DeleteRun(r) \/ ProcessExits(r)
    BY Zenon, <2>3 DEF SyncRun, SyncEnv, ProcessExits, CancelRun, DeleteRun, UserStep, sandbox
  <2> QED
    BY Zenon, <1>3, <2>1, <2>2, <2>3
<1>4. ASSUME NEW r \in Runs, EnvWrites(r) PROVE DomainNext
  <2>1. EnvEdited(r)
    BY <1>4, <1>i, EnvEdits DEF RunInductive, StandingOf
  <2>2. live' = live
    BY Zenon, <2>1 DEF EnvEdited, sandbox
  <2>3. CASE env' = env
    BY Zenon, <2>2, <2>3, <1>k
  <2>4. CASE EnvEdit(r)
    <3>1. env'.gen = env.gen /\ env'.conn = env.conn
      BY Zenon, <2>4 DEF EnvEdit
    <3>2. CASE env'.susp = env.susp
      BY Zenon, <2>2, <3>1, <3>2 DEF DomainNext, Domain!domain
    <3>3. CASE env'.susp # env.susp
      <4>1. env.susp /\ env'.susp = FALSE /\ ~env.exists
        BY Zenon, <2>4, <3>3, <1>t DEF EnvEdit
      <4>2. Domain!Release
        BY Zenon, <2>2, <3>1, <4>1, <1>i DEF Domain!Release, PodStanding
      <4> QED
        BY Zenon, <4>2 DEF DomainNext, Domain!Next
    <3> QED
      BY Zenon, <3>2, <3>3
  <2> QED
    BY Zenon, <2>1, <2>3, <2>4 DEF EnvEdited
<1> QED
  BY Zenon, StepKinds, <1>1, <1>2, <1>3, <1>4, <1>k

\* The Environment that Runs are driven against does only what ExecutionDomain allows, which is
\* what EnvironmentLifecycle is shown to implement.
THEOREM DomainIsUsed == Spec => UsesDomain
<1>1. Init => Domain!Init
  <2> SUFFICES ASSUME Init PROVE Domain!Init
    OBVIOUS
  <2>1. PICK o \in Ownerships : env = NewEnv(o)
    BY DEF Init
  <2> QED
    BY Zenon, <2>1 DEF Init, NewEnv, Domain!Init
<1>2. TypeOK /\ RunInductive /\ [Next]_vars => [Domain!Next]_(Domain!domain)
  BY Zenon, StepInDomain DEF DomainNext
<1> QED
  BY <1>1, <1>2, RunIsInductive, PTL DEF Spec, UsesDomain, Domain!Spec
=============================================================================
