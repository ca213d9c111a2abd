-------------------------- MODULE DeclaredServices --------------------------
(***************************************************************************)
(* Repository services: the file .swe/services.yaml, the declaration in    *)
(* the Environment, the gateway's portal routes, and the set sandboxd      *)
(* runs (controllers/declared_service_controller.go with                   *)
(* sandboxclient/services.go, the routes of controlplane/portal.go), and   *)
(* the observer that publishes whether they answer                         *)
(* (service_observation_controller.go).                                    *)
(*                                                                         *)
(* One service stands for the set.  The call that hands sandboxd a         *)
(* complete set may be applied after its caller gave up; sandboxd orders   *)
(* the sets by (intent, route), and ProcessManager has the details.        *)
(***************************************************************************)
EXTENDS Integers, FiniteSets

CONSTANTS
    Commands,    \* what the file may say; "none" is no service
    MaxGen,      \* bound: metadata.generation
    MaxServiceExecution,\* bound: executions
    MaxRoute,    \* bound: route generations
    MaxServiceEdits     \* bound: edits of the file and status writes of others

VARIABLES
    svcFile,   \* the workspace file
    svcEnv,    \* the Environment object
    fresh,     \* the clients whose resourceVersion is the current one
    gateway,   \* the portal gateway is configured
    worker,    \* the declared-service controller
    observer,  \* the service-observation controller
    calls,     \* ReconcileManagedServices calls not yet applied
    daemon,    \* sandboxd: the set it runs
    serviceEdits

svcVars == <<svcFile, svcEnv, fresh, gateway, worker, observer, calls, daemon, serviceEdits>>

NoService == [cmd |-> "none", inst |-> 0, rev |-> 0]
Services == [cmd : Commands, inst : 1 .. MaxGen, rev : 1 .. MaxGen] \cup {NoService}
Routes == [gen : 1 .. MaxRoute, inst : 1 .. MaxGen, rev : 1 .. MaxGen, active : BOOLEAN]
Sets == [exec : 1 .. MaxServiceExecution, intent : 0 .. MaxGen + 1, route : 0 .. MaxRoute, run : Services]
NoObs == [gen |-> 0, exec |-> 0, rev |-> 0]
ServiceEnvs == [gen : 1 .. MaxGen, exec : 1 .. MaxServiceExecution, up : BOOLEAN, svc : Services,
         made : 0 .. MaxGen, routes : SUBSET Routes, nextRoute : 0 .. MaxRoute,
         obs : [gen : 0 .. MaxGen, exec : 0 .. MaxServiceExecution, rev : 0 .. MaxGen]]

\* What a reconcile keeps of the Environment it read.
ServiceSeen(e) == [gen |-> e.gen, exec |-> e.exec, up |-> e.up, svc |-> e.svc,
            nextRoute |-> e.nextRoute, made |-> e.made]
SeenEnvs == [gen : 1 .. MaxGen, exec : 1 .. MaxServiceExecution, up : BOOLEAN, svc : Services,
             nextRoute : 0 .. MaxRoute, made : 0 .. MaxGen]
Fresh0 ==
    [gen |-> 1, exec |-> 1, up |-> TRUE, svc |-> NoService, made |-> 0, routes |-> {},
     nextRoute |-> 0, obs |-> NoObs]
IdleServiceWorker == [step |-> "idle", env |-> ServiceSeen(Fresh0), want |-> NoService, proof |-> {},
               set |-> [exec |-> 1, intent |-> 0, route |-> 0, run |-> NoService], fencing |-> FALSE]
IdleObserver == [step |-> "idle", env |-> ServiceSeen(Fresh0)]

SvcTypeOK ==
    /\ svcFile \in Commands \cup {"none", "invalid"}
    /\ svcEnv \in ServiceEnvs /\ fresh \subseteq {"worker", "observer"} /\ gateway \in BOOLEAN
    /\ worker \in [step : {"idle", "file", "reread", "route", "proof", "send", "await", "after", "patch"},
                   env : SeenEnvs, want : Services, proof : SUBSET Routes, set : Sets, fencing : BOOLEAN]
    /\ observer \in [step : {"idle", "probe", "verify", "check", "publish"}, env : SeenEnvs]
    /\ calls \subseteq Sets /\ daemon \in Sets /\ serviceEdits \in 0 .. MaxServiceEdits

SvcInit ==
    /\ svcFile = "none" /\ svcEnv = Fresh0 /\ fresh = {} /\ gateway = TRUE
    /\ worker = IdleServiceWorker /\ observer = IdleObserver /\ calls = {}
    /\ daemon = [exec |-> 1, intent |-> 0, route |-> 0, run |-> NoService] /\ serviceEdits = 0

WriteEnv(e) == svcEnv' = e /\ fresh' = {}
SameExecution(e) == svcEnv.up /\ svcEnv.exec = e.exec
Worker(w) == worker' = w
WorkerRests == worker' = IdleServiceWorker

-----------------------------------------------------------------------------
(* The gateway: a route generation for the current declaration.            *)

Denies(r, s) == ~r.active /\ r.inst = s.inst /\ r.rev = s.rev
Serves(r, s) == r.active /\ r.inst = s.inst /\ r.rev = s.rev
\* routeForDeclaration: the Environment after the gateway looked for the service s.
\* reconcilePortalRoutes tombstones the routes of other declarations; a gateway that is
\* not configured tombstones all and leaves a denial that is the latest of its name.
Retired(routes, keep) == {IF r \in keep THEN r ELSE [r EXCEPT !.active = FALSE] : r \in routes}
RouteOf(e) ==
    LET s == e.svc
        good == IF gateway THEN {r \in e.routes : Serves(r, s)}
                ELSE {r \in e.routes : /\ Denies(r, s)
                                       /\ \A x \in e.routes : ~x.active /\ x.gen <= r.gen}
        old == Retired(e.routes, IF gateway THEN good ELSE {})
    IN IF good # {} THEN [e EXCEPT !.routes = old]
       ELSE [e EXCEPT !.nextRoute = @ + 1,
                      !.routes = old \cup {[gen |-> e.nextRoute + 1, inst |-> s.inst,
                                            rev |-> s.rev, active |-> gateway]}]
RoutesLeft == svcEnv.nextRoute < MaxRoute
LatestRoute(e) ==
    CHOOSE r \in e.routes : r.inst = e.svc.inst /\ r.rev = e.svc.rev /\ r.active = gateway
                            /\ \A x \in e.routes : x.gen <= r.gen \/ ~(Serves(x, e.svc) \/ Denies(x, e.svc))

\* discover, called by anybody: read, change, update under the resourceVersion, again on
\* conflict.
Discover ==
    /\ svcEnv.svc # NoService /\ RoutesLeft
    /\ IF RouteOf(svcEnv) = svcEnv THEN UNCHANGED <<svcEnv, fresh>> ELSE WriteEnv(RouteOf(svcEnv))
    /\ UNCHANGED <<svcFile, gateway, worker, observer, calls, daemon, serviceEdits>>

-----------------------------------------------------------------------------
(* The declared-service controller.                                        *)

WorkerReads ==
    /\ worker.step = "idle" /\ svcEnv.up
    /\ Worker([IdleServiceWorker EXCEPT !.step = "file", !.env = ServiceSeen(svcEnv)])
    /\ UNCHANGED <<svcFile, svcEnv, fresh, gateway, observer, calls, daemon, serviceEdits>>

\* convergeRepositoryDeclarations: a changed command is a new revision; a service that was
\* away is a new instance.
Converged(e, cmd) ==
    CASE cmd = "none" -> NoService
      [] cmd = e.svc.cmd -> e.svc
      [] e.svc = NoService -> [cmd |-> cmd, inst |-> e.made + 1, rev |-> 1]
      [] OTHER -> [e.svc EXCEPT !.cmd = cmd, !.rev = @ + 1]
\* ReadWorkspaceServices and Parse.
WorkerReadsFile ==
    LET want == Converged(worker.env, svcFile) IN
    /\ worker.step = "file"
    /\ \/ WorkerRests
       \/ /\ SameExecution(worker.env) /\ svcFile # "invalid"
          /\ Worker([worker EXCEPT !.want = want,
                 !.step = CASE want # worker.env.svc -> "reread"
                            [] want = NoService -> "send"
                            [] OTHER -> "route",
                 !.set = [exec |-> worker.env.exec, intent |-> worker.env.gen,
                          route |-> worker.env.nextRoute, run |-> NoService]])
    /\ UNCHANGED <<svcFile, svcEnv, fresh, gateway, observer, calls, daemon, serviceEdits>>

\* Mutant: the fence is taken at the generation that is current, not the one to come.
FencingSet_Current(e) == [exec |-> e.exec, intent |-> e.gen, route |-> 0, run |-> NoService]
FencingSet(e) == [exec |-> e.exec, intent |-> e.gen + 1, route |-> 0, run |-> NoService]
WorkerRereads ==
    /\ worker.step = "reread"
    /\ IF SameExecution(worker.env) /\ svcEnv.svc = worker.env.svc
       THEN /\ Worker([worker EXCEPT !.step = "send", !.env = ServiceSeen(svcEnv), !.fencing = TRUE,
                                     !.set = FencingSet(svcEnv)])
            /\ fresh' = fresh \cup {"worker"}
       ELSE WorkerRests /\ UNCHANGED fresh
    /\ UNCHANGED <<svcFile, svcEnv, gateway, observer, calls, daemon, serviceEdits>>

\* GetPortalRoute, then the proof that the route is in the Environment.
WorkerDiscovers ==
    /\ worker.step = "route"
    /\ \/ WorkerRests /\ UNCHANGED <<svcEnv, fresh>>
       \/ /\ svcEnv.svc = worker.env.svc /\ RoutesLeft
          /\ IF RouteOf(svcEnv) = svcEnv THEN UNCHANGED <<svcEnv, fresh>> ELSE WriteEnv(RouteOf(svcEnv))
          /\ Worker([worker EXCEPT !.step = "proof", !.proof = {LatestRoute(RouteOf(svcEnv))}])
    /\ UNCHANGED <<svcFile, gateway, observer, calls, daemon, serviceEdits>>
Higher(m, n) == IF m > n THEN m ELSE n
WorkerProvesRoute ==
    LET r == CHOOSE x \in worker.proof : TRUE IN
    /\ worker.step = "proof"
    /\ IF /\ SameExecution(worker.env) /\ svcEnv.svc = worker.env.svc /\ worker.proof \subseteq svcEnv.routes
          /\ ~r.active => ~\E x \in svcEnv.routes : x.active
       THEN Worker([worker EXCEPT !.step = "send",
                        !.set.route = Higher(@, r.gen),
                        !.set.run = IF r.active THEN worker.env.svc ELSE NoService])
       ELSE WorkerRests
    /\ UNCHANGED <<svcFile, svcEnv, fresh, gateway, observer, calls, daemon, serviceEdits>>

\* The proofs of ReconcileRepositoryServices before and after the call.
StillDeclared ==
    SameExecution(worker.env) /\ svcEnv.svc = worker.env.svc /\ worker.proof \subseteq svcEnv.routes
WorkerSends ==
    /\ worker.step = "send"
    /\ IF StillDeclared THEN calls' = calls \cup {worker.set} /\ Worker([worker EXCEPT !.step = "await"])
       ELSE WorkerRests /\ UNCHANGED calls
    /\ UNCHANGED <<svcFile, svcEnv, fresh, gateway, observer, daemon, serviceEdits>>

Supersedes(new, old) ==
    new.intent > old.intent \/ (new.intent = old.intent /\ new.route > old.route)
FenceRefused(new, old) ==
    ~Supersedes(new, old) /\ (new.intent # old.intent \/ new.route # old.route)
\* sandboxd applies a call, now or after its caller gave up; a call to an execution that is
\* gone is lost.
Apply(c) ==
    /\ c \in calls /\ calls' = calls \ {c}
    /\ daemon' = IF c.exec = daemon.exec /\ Supersedes(c, daemon) THEN c ELSE daemon
    /\ worker' = IF worker.step # "await" \/ worker.set # c THEN worker
                 ELSE IF c.exec = daemon.exec /\ ~FenceRefused(c, daemon)
                      THEN [worker EXCEPT !.step = "after"] ELSE IdleServiceWorker
    /\ UNCHANGED <<svcFile, svcEnv, fresh, gateway, observer, serviceEdits>>
WorkerGivesUp ==
    /\ worker.step = "await" /\ WorkerRests
    /\ UNCHANGED <<svcFile, svcEnv, fresh, gateway, observer, calls, daemon, serviceEdits>>
WorkerVerifies ==
    /\ worker.step = "after"
    /\ IF StillDeclared /\ worker.fencing THEN Worker([worker EXCEPT !.step = "patch"]) ELSE WorkerRests
    /\ UNCHANGED <<svcFile, svcEnv, fresh, gateway, observer, calls, daemon, serviceEdits>>

MayPatch(client) == client \in fresh
WorkerPatches ==
    /\ worker.step = "patch" /\ WorkerRests
    /\ IF MayPatch("worker") /\ svcEnv.gen < MaxGen
       THEN WriteEnv([svcEnv EXCEPT !.svc = worker.want, !.gen = @ + 1,
                                    !.made = Higher(@, worker.want.inst)])
       ELSE UNCHANGED <<svcEnv, fresh>>
    /\ UNCHANGED <<svcFile, gateway, observer, calls, daemon, serviceEdits>>

-----------------------------------------------------------------------------
(* The service-observation controller.                                     *)

Observer(step) == observer' = IF step = "idle" THEN IdleObserver ELSE [observer EXCEPT !.step = step]
\* Without an execution to ask the records are fixed; otherwise probe, then prove that the
\* execution and the declarations are the ones captured.
ObserverReads ==
    /\ observer.step = "idle" /\ svcEnv.svc # NoService
    /\ observer' = [step |-> IF svcEnv.up THEN "probe" ELSE "check", env |-> ServiceSeen(svcEnv)]
    /\ UNCHANGED <<svcFile, svcEnv, fresh, gateway, worker, calls, daemon, serviceEdits>>
SameIntent == svcEnv.gen = observer.env.gen /\ svcEnv.svc = observer.env.svc
ObserverProbes ==
    /\ observer.step \in {"probe", "verify"}
    /\ Observer(IF ~(SameExecution(observer.env) /\ SameIntent) THEN "idle"
                ELSE IF observer.step = "probe" THEN "verify" ELSE "check")
    /\ UNCHANGED <<svcFile, svcEnv, fresh, gateway, worker, calls, daemon, serviceEdits>>
\* publish: read again and compare; the write carries that resourceVersion.
ObserverChecks ==
    /\ observer.step = "check"
    /\ IF SameIntent /\ svcEnv.up = observer.env.up /\ (svcEnv.up => svcEnv.exec = observer.env.exec)
       THEN Observer("publish") /\ fresh' = fresh \cup {"observer"}
       ELSE Observer("idle") /\ UNCHANGED fresh
    /\ UNCHANGED <<svcFile, svcEnv, gateway, worker, calls, daemon, serviceEdits>>
ObserverPublishes ==
    /\ observer.step = "publish" /\ Observer("idle")
    /\ IF MayPatch("observer")
       THEN WriteEnv([svcEnv EXCEPT !.obs =
                [gen |-> observer.env.gen, rev |-> observer.env.svc.rev,
                 exec |-> IF observer.env.up THEN observer.env.exec ELSE 0]])
       ELSE UNCHANGED <<svcEnv, fresh>>
    /\ UNCHANGED <<svcFile, gateway, worker, calls, daemon, serviceEdits>>

-----------------------------------------------------------------------------
(* Everybody else.                                                         *)

EditFile ==
    /\ serviceEdits < MaxServiceEdits /\ serviceEdits' = serviceEdits + 1
    /\ svcFile' \in (Commands \cup {"none", "invalid"}) \ {svcFile}
    /\ UNCHANGED <<svcEnv, fresh, gateway, worker, observer, calls, daemon>>
\* Another writer of the spec, of the status, or the lifecycle controller.
OthersWrite ==
    /\ serviceEdits < MaxServiceEdits /\ serviceEdits' = serviceEdits + 1
    /\ \/ svcEnv.gen < MaxGen /\ WriteEnv([svcEnv EXCEPT !.gen = @ + 1]) /\ UNCHANGED daemon
       \/ WriteEnv(svcEnv) /\ UNCHANGED daemon
       \/ svcEnv.up /\ WriteEnv([svcEnv EXCEPT !.up = FALSE]) /\ UNCHANGED daemon
       \/ /\ ~svcEnv.up /\ svcEnv.exec < MaxServiceExecution
          /\ WriteEnv([svcEnv EXCEPT !.exec = @ + 1, !.up = TRUE])
          /\ daemon' = [exec |-> svcEnv.exec + 1, intent |-> 0, route |-> 0, run |-> NoService]
    /\ UNCHANGED <<svcFile, gateway, worker, observer, calls>>
ReconfigureGateway ==
    /\ serviceEdits < MaxServiceEdits /\ serviceEdits' = serviceEdits + 1 /\ gateway' = ~gateway
    /\ UNCHANGED <<svcFile, svcEnv, fresh, worker, observer, calls, daemon>>

SvcNext ==
    \/ WorkerReads \/ WorkerReadsFile \/ WorkerRereads \/ WorkerDiscovers \/ WorkerProvesRoute
    \/ WorkerSends \/ WorkerGivesUp \/ WorkerVerifies \/ WorkerPatches
    \/ \E c \in calls : Apply(c)
    \/ ObserverReads \/ ObserverProbes \/ ObserverChecks \/ ObserverPublishes
    \/ Discover \/ EditFile \/ OthersWrite \/ ReconfigureGateway

SvcSpec == SvcInit /\ [][SvcNext]_svcVars

-----------------------------------------------------------------------------
\* What runs is what is declared: sandboxd never runs a command, or an instance or revision
\* of the service, other than the one in the Environment, whatever calls of earlier
\* reconciles arrive late.
RunsOnlyDeclared ==
    daemon.exec = svcEnv.exec => daemon.run \in {NoService, svcEnv.svc}

\* "Stop the complete old set before publishing changed durable intent": the declaration
\* changes only while the current execution runs nothing of it.
StopsBeforePublishing ==
    [][svcEnv'.svc # svcEnv.svc => daemon.exec = svcEnv.exec /\ daemon.run = NoService]_svcVars

\* An observation is published only while the Environment is still at the generation, the
\* declaration and the execution that were probed.
ObservationIsCurrent ==
    [][svcEnv'.obs # svcEnv.obs =>
        /\ svcEnv'.obs.gen = svcEnv.gen /\ svcEnv'.obs.rev = svcEnv.svc.rev
        /\ svcEnv'.obs.exec = IF svcEnv.up THEN svcEnv.exec ELSE 0]_svcVars

\* Declared services: types, what may run, what precedes a new declaration, and what an
\* observation speaks of (DeclaredServiceReconciler, sandboxd's ReconcileManagedServices).
SvcCorrect == [](SvcTypeOK /\ RunsOnlyDeclared) /\ StopsBeforePublishing /\ ObservationIsCurrent
=============================================================================
