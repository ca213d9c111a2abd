--------------------------- MODULE ProcessManager ---------------------------
(***************************************************************************)
(* sandboxd's ProcessService (sandboxd/internal/server/process.go) and the *)
(* Supervisor under it: launches by key, the complete set of managed       *)
(* services with its restarts, stops, timeouts and the daemon's shutdown.  *)
(*                                                                         *)
(* One step is one section under the server's mutex, together with the     *)
(* signals that follow it.  reconcileMu is `lock': Start, Stop,            *)
(* ReconcileManagedServices and a delayed restart exclude each other, but  *)
(* waiters, drains, timers and Close run between their sections.  One      *)
(* owner is modelled, so a key is a role.  A spec stands for the           *)
(* normalized ProcessSpec with the launch mode: a Start compares both.     *)
(* The Unix process domain is modelled: the group is signalled, its leader *)
(* and the leader's descendants may ignore everything but SIGKILL.         *)
(***************************************************************************)
EXTENDS Integers, FiniteSets

CONSTANTS
    Roles, Specs,
    TimedSpecs,   \* the specs with a timeout
    Revisions,    \* <<intent, route>> revisions a caller may send
    StopModes,    \* a subset of AllStopModes
    ProcFaults,   \* "launch": exec fails; "host": no execution id, no pipe
    MaxRecords,   \* the server's record limit
    MaxExec       \* bound: executions

AllStopModes == {"GRACEFUL", "INTERRUPT", "TERMINATE", "FORCE"}

ASSUME ProcAssumption ==
    /\ "none" \notin Roles \cup Specs /\ TimedSpecs \subseteq Specs
    /\ Revisions \subseteq (Nat \ {0}) \X Nat
    /\ StopModes \subseteq AllStopModes /\ ProcFaults \subseteq {"launch", "host"}
    /\ MaxRecords \in Nat /\ MaxExec \in Nat

VARIABLES
    procs,     \* the record of each key
    owner,     \* the owner's desired set (gen 0: none yet)
    restarts,  \* the roles with a delayed restart
    lock,      \* reconcileMu: who holds it and where it stands
    execs,     \* executions so far
    leaders, descendants, killed,   \* executions: leader runs, others of the group run, SIGKILL sent
    domains,   \* the Supervisor's domains
    shut       \* CloseContext and the Supervisor's Close

procVars == <<procs, owner, restarts, lock, execs, leaders, descendants, killed, domains, shut>>
osVars == <<leaders, descendants>>

Desires == [Roles -> Specs \cup {"none"}]
Reasons == {"none", "EXITED", "TIMEOUT", "INTERRUPTED", "TERMINATED", "FORCED", "DAEMON_CLOSED",
            "START_FAILED"}
\* asked: stopRequested; waited: leaderWaited; ending: a finalizeWait is under way;
\* terminal: terminalRequested; timed, grace: the timers are ticking.
ProcRecord ==
    [exec : 0 .. MaxExec, spec : Specs \cup {"none"},
     state : {"none", "RUNNING", "STOPPING", "EXITED", "FAILED"}, reason : Reasons,
     asked : BOOLEAN, graceful : BOOLEAN, grace : BOOLEAN, timed : BOOLEAN, waited : BOOLEAN,
     ending : BOOLEAN, terminal : BOOLEAN, drains : 0 .. 2,
     managed : BOOLEAN, gen : Nat, suppressed : BOOLEAN]
NoRecord ==
    [exec |-> 0, spec |-> "none", state |-> "none", reason |-> "none", asked |-> FALSE,
     graceful |-> FALSE, grace |-> FALSE, timed |-> FALSE, waited |-> FALSE, ending |-> FALSE,
     terminal |-> FALSE, drains |-> 0, managed |-> FALSE, gen |-> 0, suppressed |-> FALSE]
Free == [op |-> "free", stop |-> {}, start |-> {}, at |-> "none", spec |-> "none", step |-> "pick"]

ProcTypeOK ==
    /\ procs \in [Roles -> ProcRecord]
    /\ owner \in [rev : Revisions \cup {<<0, 0>>}, desired : Desires, gen : Nat]
    /\ restarts \subseteq Roles
    /\ lock \in [op : {"free", "ensure", "stop"}, stop : SUBSET Roles, start : SUBSET Roles,
                 at : Roles \cup {"none"}, spec : Specs \cup {"none"},
                 step : {"pick", "start", "started", "failed"}]
    /\ execs \in 0 .. MaxExec
    /\ leaders \subseteq 1 .. execs /\ descendants \subseteq 1 .. execs
    /\ killed \subseteq 1 .. execs /\ domains \subseteq 1 .. execs
    /\ shut \in [closed : BOOLEAN, step : {"open", "closed", "snapshot", "waiting", "done"},
                 callbacks : SUBSET Nat]

ProcInit ==
    /\ procs = [r \in Roles |-> NoRecord]
    /\ owner = [rev |-> <<0, 0>>, desired |-> [r \in Roles |-> "none"], gen |-> 0]
    /\ restarts = {} /\ lock = Free /\ execs = 0
    /\ leaders = {} /\ descendants = {} /\ killed = {} /\ domains = {}
    /\ shut = [closed |-> FALSE, step |-> "open", callbacks |-> {}]

Exists(r) == procs[r].exec # 0
Over(p) == p.state \in {"EXITED", "FAILED"}
GroupRuns(e) == e \in leaders \cup descendants
Put(r, p) == procs' = [procs EXCEPT ![r] = p]

-----------------------------------------------------------------------------
(* Launching: start(), with the admission by the Supervisor.               *)

Launched(r, s) ==
    [NoRecord EXCEPT !.exec = execs + 1, !.spec = s, !.state = "RUNNING", !.drains = 2,
                     !.timed = s \in TimedSpecs]
Launch(r, s) ==
    /\ execs < MaxExec /\ execs' = execs + 1
    /\ \/ /\ Put(r, Launched(r, s))
          /\ leaders' = leaders \cup {execs + 1} /\ domains' = domains \cup {execs + 1}
       \/ /\ "launch" \in ProcFaults
          /\ Put(r, [NoRecord EXCEPT !.exec = execs + 1, !.spec = s, !.state = "FAILED",
                                     !.reason = "START_FAILED"])
          /\ UNCHANGED <<leaders, domains>>
    /\ UNCHANGED <<descendants, killed>>

Admitted == ~shut.closed /\ Cardinality({r \in Roles : Exists(r)}) < MaxRecords

\* Start and StartWithLaunchMaterial.  A key with a record is not launched again: the
\* call returns the record, or fails if it asks for something else.
StartProcess(r, s) ==
    /\ lock = Free /\ owner.desired[r] = "none"
    /\ ~Exists(r) /\ Admitted
    /\ Launch(r, s)
    /\ UNCHANGED <<owner, restarts, lock, shut>>

-----------------------------------------------------------------------------
(* Signals and the end of an execution.                                    *)

ForceGroup(e) == killed' = killed \cup {e}

\* requestTermination, by a timeout or by a new desired set.
Terminated(p, reason) ==
    [p EXCEPT !.asked = TRUE, !.state = "STOPPING",
              !.reason = IF @ = "none" THEN reason ELSE @]

\* Mutant: only a managed record is looked at.
RestartsAfter_Managed(r, p) ==
    /\ ~shut.closed /\ p.managed /\ owner.gen = p.gen /\ owner.desired[r] = p.spec
\* What finishLocked schedules: the restart of a managed execution that is still the
\* desired one, or the replacement of one that was in the way.
RestartsAfter(r, p) ==
    /\ ~shut.closed
    /\ \/ p.managed /\ owner.gen = p.gen /\ owner.desired[r] = p.spec
       \/ ~p.managed /\ owner.desired[r] # "none" /\ ~p.suppressed

\* finishLocked, with the Supervisor's done.
FinishLocked(r, p) ==
    IF p.terminal /\ p.drains = 0
    THEN /\ Put(r, [p EXCEPT !.state = "EXITED", !.timed = FALSE, !.grace = FALSE])
         /\ restarts' = IF RestartsAfter(r, p) THEN restarts \cup {r} ELSE restarts
         /\ domains' = domains \ {p.exec}
    ELSE Put(r, p) /\ UNCHANGED <<restarts, domains>>

\* During a graceful stop the descendants of a reaped leader keep the rest of the grace
\* period; otherwise finalizeWait begins.
Deferred(p) == p.graceful /\ p.state = "STOPPING"
Reaped(p) ==
    [p EXCEPT !.reason = IF @ = "none" THEN "EXITED" ELSE @, !.waited = TRUE, !.timed = FALSE,
              !.ending = ~Deferred(p)]
Wait(r) ==
    LET p == procs[r] IN
    /\ p.state \in {"RUNNING", "STOPPING"} /\ ~p.waited /\ p.exec \notin leaders
    /\ Put(r, Reaped(p))
    /\ IF Deferred(p) THEN UNCHANGED killed ELSE ForceGroup(p.exec)
    /\ UNCHANGED <<owner, restarts, lock, execs, osVars, domains, shut>>

\* close returns when nobody of the group runs.
DomainClosed(e) == ~GroupRuns(e)
\* finalizeWait after its force.
FinalizeWait(r) ==
    /\ procs[r].ending /\ ~procs[r].terminal /\ DomainClosed(procs[r].exec)
    /\ FinishLocked(r, [procs[r] EXCEPT !.terminal = TRUE])
    /\ UNCHANGED <<owner, lock, execs, osVars, killed, shut>>

\* drain: a pipe reaches its end, at the latest when the group is gone.
Drain(r) ==
    /\ procs[r].drains > 0
    /\ FinishLocked(r, [procs[r] EXCEPT !.drains = @ - 1])
    /\ UNCHANGED <<owner, lock, execs, osVars, killed, shut>>

TimeoutFires(r) ==
    /\ procs[r].timed
    /\ IF procs[r].state = "RUNNING"
       THEN /\ Put(r, [Terminated(procs[r], "TIMEOUT") EXCEPT !.timed = FALSE])
            /\ ForceGroup(procs[r].exec)
       ELSE Put(r, [procs[r] EXCEPT !.timed = FALSE]) /\ UNCHANGED killed
    /\ UNCHANGED <<owner, restarts, lock, execs, osVars, domains, shut>>

\* Mutant: the deadline kills, but nobody finalizes for the waiter that has left.
GraceOver_KillOnly(p) == [p EXCEPT !.grace = FALSE, !.graceful = FALSE]
\* The grace deadline: kill the group, and finalize if the waiter has left that to us.
GraceOver(p) ==
    [p EXCEPT !.grace = FALSE, !.graceful = FALSE, !.ending = @ \/ (Deferred(p) /\ p.waited)]
GraceFires(r) ==
    /\ procs[r].grace /\ Put(r, GraceOver(procs[r]))
    /\ IF Deferred(procs[r]) THEN ForceGroup(procs[r].exec) ELSE UNCHANGED killed
    /\ UNCHANGED <<owner, restarts, lock, execs, osVars, domains, shut>>

ReasonOf(mode) ==
    CASE mode \in {"GRACEFUL", "INTERRUPT"} -> "INTERRUPTED"
      [] mode = "TERMINATE" -> "TERMINATED"
      [] mode = "FORCE" -> "FORCED"

\* What Stop makes of a record: an explicit stop of a managed execution keeps it from
\* being restarted.  Only the first stop starts a grace period.
Unmanaged(p) == IF p.managed THEN [p EXCEPT !.managed = FALSE, !.suppressed = TRUE] ELSE p
Stopped(p, mode) ==
    LET begins == mode = "GRACEFUL" /\ ~p.asked
        cuts == mode \in {"FORCE", "TERMINATE"}
    IN [Unmanaged(p) EXCEPT
           !.asked = TRUE, !.state = "STOPPING",
           !.graceful = ~cuts /\ (begins \/ @), !.grace = ~cuts /\ (begins \/ @),
           !.reason = IF @ = "none" THEN ReasonOf(mode) ELSE @,
           !.ending = @ \/ (cuts /\ p.waited)]

\* Stop.  SIGINT and SIGTERM may be ignored.  If the leader is reaped already, Stop
\* itself runs finalizeWait, with reconcileMu held.
StopProcess(r, mode) ==
    LET p == procs[r]
        own == mode \in {"FORCE", "TERMINATE"} /\ p.waited
    IN
    /\ lock = Free /\ Exists(r)
    /\ Put(r, IF Over(p) THEN Unmanaged(p) ELSE Stopped(p, mode))
    /\ IF ~Over(p) /\ (mode = "FORCE" \/ own) THEN ForceGroup(p.exec) ELSE UNCHANGED killed
    /\ lock' = IF ~Over(p) /\ own THEN [Free EXCEPT !.op = "stop", !.at = r] ELSE Free
    /\ UNCHANGED <<owner, restarts, execs, osVars, domains, shut>>
StopReturns ==
    /\ lock.op = "stop" /\ procs[lock.at].terminal
    /\ lock' = Free
    /\ UNCHANGED <<procs, owner, restarts, execs, osVars, killed, domains, shut>>

-----------------------------------------------------------------------------
(* Managed services.                                                       *)

Newer(a, b) == a[1] > b[1] \/ (a[1] = b[1] /\ a[2] > b[2])

\* A record of the owner when a new set replaces the old one.
Keeps(r, desired) == procs[r].managed /\ procs[r].spec = desired[r]
Adopted(r, desired, gen) ==
    IF ~Exists(r) THEN NoRecord
    ELSE IF Keeps(r, desired) THEN [procs[r] EXCEPT !.gen = gen]
    ELSE [procs[r] EXCEPT !.managed = FALSE, !.suppressed = FALSE]

\* ReconcileManagedServices up to the release of the mutex.  A stale revision, another
\* set at the current one, too large a set or a busy lock changes nothing; an exact
\* repetition neither.
ReconcileManagedServices(rev, desired) ==
    LET gen == owner.gen + 1
        wanted == {r \in Roles : desired[r] # "none"}
    IN
    /\ lock = Free /\ ~shut.closed
    /\ Newer(rev, owner.rev) /\ Cardinality(wanted) <= MaxRecords
    /\ owner' = [rev |-> rev, desired |-> desired, gen |-> gen]
    /\ restarts' = {}
    /\ procs' = [r \in Roles |-> Adopted(r, desired, gen)]
    /\ lock' = [Free EXCEPT !.op = "ensure",
                    !.stop = {r \in Roles : procs[r].state = "RUNNING" /\ ~Keeps(r, desired)},
                    !.start = {r \in wanted : ~Keeps(r, desired) \/ Over(procs[r])}]
    /\ UNCHANGED <<execs, osVars, killed, domains, shut>>

\* Its requestTermination calls.
StopObsolete(r) ==
    /\ lock.op = "ensure" /\ r \in lock.stop
    /\ lock' = [lock EXCEPT !.stop = @ \ {r}]
    /\ IF procs[r].state = "RUNNING"
       THEN Put(r, Terminated(procs[r], "TERMINATED")) /\ ForceGroup(procs[r].exec)
       ELSE UNCHANGED <<procs, killed>>
    /\ UNCHANGED <<owner, restarts, execs, osVars, domains, shut>>

\* A delayed restart.  It tries the lock again later if it is taken.
RestartFires(r) ==
    /\ r \in restarts /\ ~shut.closed /\ lock = Free /\ owner.desired[r] # "none"
    /\ restarts' = restarts \ {r}
    /\ lock' = [Free EXCEPT !.op = "ensure", !.start = {r}]
    /\ UNCHANGED <<procs, owner, execs, osVars, killed, domains, shut>>

\* ensureManagedUnderReconcile, up to its call of start: an ended record makes room.
Blocked(r) ==
    Exists(r) /\ (~Over(procs[r]) \/ (procs[r].suppressed /\ procs[r].gen = owner.gen))
EnsureManaged(r) ==
    /\ lock.op = "ensure" /\ lock.stop = {} /\ lock.step = "pick" /\ r \in lock.start
    /\ IF shut.closed \/ Blocked(r)
       THEN lock' = [lock EXCEPT !.start = @ \ {r}] /\ UNCHANGED procs
       ELSE /\ lock' = [lock EXCEPT !.start = @ \ {r}, !.at = r, !.spec = owner.desired[r],
                                    !.step = "start"]
            /\ Put(r, NoRecord)
    /\ UNCHANGED <<owner, restarts, execs, osVars, killed, domains, shut>>

EnsureStart ==
    /\ lock.step = "start"
    /\ \/ /\ Admitted /\ Launch(lock.at, lock.spec)
          /\ lock' = [lock EXCEPT !.step = "started"]
       \/ /\ ~Admitted \/ "host" \in ProcFaults
          /\ lock' = [lock EXCEPT !.step = "failed"]
          /\ UNCHANGED <<procs, execs, leaders, descendants, killed, domains>>
    /\ UNCHANGED <<owner, restarts, shut>>

RestartsNow(step, p) == step = "failed" \/ Over(p)
\* The rest of it: the new execution becomes a managed one; if it has ended or could not
\* be started, a restart is scheduled.
EnsureMark ==
    /\ lock.step \in {"started", "failed"}
    /\ lock' = [lock EXCEPT !.step = "pick", !.at = "none", !.spec = "none"]
    /\ IF lock.step = "started"
       THEN Put(lock.at, [procs[lock.at] EXCEPT !.managed = TRUE, !.gen = owner.gen])
       ELSE UNCHANGED procs
    /\ restarts' = IF ~shut.closed /\ RestartsNow(lock.step, procs[lock.at])
                   THEN restarts \cup {lock.at} ELSE restarts
    /\ UNCHANGED <<owner, execs, osVars, killed, domains, shut>>
EnsureReturns ==
    /\ lock.op = "ensure" /\ lock.stop = {} /\ lock.start = {} /\ lock.step = "pick"
    /\ lock' = Free
    /\ UNCHANGED <<procs, owner, restarts, execs, osVars, killed, domains, shut>>

-----------------------------------------------------------------------------
(* Shutdown.                                                               *)

CloseContext ==
    /\ shut.step = "open"
    /\ shut' = [shut EXCEPT !.closed = TRUE, !.step = "closed"]
    /\ restarts' = {}
    /\ UNCHANGED <<procs, owner, lock, execs, osVars, killed, domains>>
\* The Supervisor's Close: fence admissions, call every domain's callback, kill every
\* domain, wait until all are done.
SupervisorClose ==
    /\ shut.step = "closed"
    /\ shut' = [shut EXCEPT !.step = "snapshot", !.callbacks = domains]
    /\ UNCHANGED <<procs, owner, restarts, lock, execs, osVars, killed, domains>>
Shut(p) ==
    [p EXCEPT !.state = "STOPPING", !.graceful = FALSE, !.timed = FALSE, !.grace = FALSE,
              !.reason = IF @ = "none" THEN "DAEMON_CLOSED" ELSE @, !.ending = @ \/ p.waited]
ShutdownManaged(r) ==
    LET p == procs[r] IN
    /\ shut.step = "snapshot" /\ p.exec \in shut.callbacks
    /\ shut' = [shut EXCEPT !.callbacks = @ \ {p.exec}]
    /\ IF p.terminal THEN UNCHANGED <<procs, killed>>
       ELSE Put(r, Shut(p)) /\ IF p.waited THEN ForceGroup(p.exec) ELSE UNCHANGED killed
    /\ UNCHANGED <<owner, restarts, lock, execs, osVars, domains>>
SupervisorForces ==
    /\ shut.step = "snapshot" /\ shut.callbacks = {}
    /\ shut' = [shut EXCEPT !.step = "waiting"]
    /\ killed' = killed \cup domains
    /\ UNCHANGED <<procs, owner, restarts, lock, execs, osVars, domains>>
CloseReturns ==
    /\ shut.step = "waiting" /\ domains = {}
    /\ shut' = [shut EXCEPT !.step = "done"]
    /\ UNCHANGED <<procs, owner, restarts, lock, execs, osVars, killed, domains>>

-----------------------------------------------------------------------------
(* The processes themselves.                                               *)

LeaderExits(e) ==
    /\ e \in leaders /\ leaders' = leaders \ {e}
    /\ UNCHANGED <<procs, owner, restarts, lock, execs, descendants, killed, domains, shut>>
Forks(e) ==
    /\ e \in leaders \ (descendants \cup killed) /\ descendants' = descendants \cup {e}
    /\ UNCHANGED <<procs, owner, restarts, lock, execs, leaders, killed, domains, shut>>
DescendantsExit(e) ==
    /\ e \in descendants /\ descendants' = descendants \ {e}
    /\ UNCHANGED <<procs, owner, restarts, lock, execs, leaders, killed, domains, shut>>

ProcNext ==
    \/ \E r \in Roles :
        \/ \E s \in Specs : StartProcess(r, s)
        \/ \E mode \in StopModes : StopProcess(r, mode)
        \/ Wait(r) \/ FinalizeWait(r) \/ Drain(r) \/ TimeoutFires(r) \/ GraceFires(r)
        \/ StopObsolete(r) \/ RestartFires(r) \/ EnsureManaged(r) \/ ShutdownManaged(r)
    \/ \E rev \in Revisions, desired \in Desires : ReconcileManagedServices(rev, desired)
    \/ StopReturns \/ EnsureStart \/ EnsureMark \/ EnsureReturns
    \/ CloseContext \/ SupervisorClose \/ SupervisorForces \/ CloseReturns
    \/ \E e \in 1 .. execs : LeaderExits(e) \/ Forks(e) \/ DescendantsExit(e)

ProcSpec == ProcInit /\ [][ProcNext]_procVars

\* Goroutines get to run, timers fire, and what was sent SIGKILL dies.  Nothing else
\* about the processes is assumed.
ProcFairness ==
    /\ \A r \in Roles :
        /\ WF_procVars(Wait(r)) /\ WF_procVars(FinalizeWait(r))
        /\ WF_procVars(~GroupRuns(procs[r].exec) /\ Drain(r))
        /\ WF_procVars(TimeoutFires(r)) /\ WF_procVars(GraceFires(r))
        /\ WF_procVars(StopObsolete(r)) /\ WF_procVars(RestartFires(r))
        /\ WF_procVars(EnsureManaged(r)) /\ WF_procVars(ShutdownManaged(r))
    /\ WF_procVars(StopReturns) /\ WF_procVars(EnsureStart) /\ WF_procVars(EnsureMark)
    /\ WF_procVars(EnsureReturns)
    /\ WF_procVars(SupervisorClose) /\ WF_procVars(SupervisorForces) /\ WF_procVars(CloseReturns)
    /\ \A e \in 1 .. MaxExec : WF_procVars(e \in killed /\ (LeaderExits(e) \/ DescendantsExit(e)))

-----------------------------------------------------------------------------
\* "A normalized key identifies exactly one launch", and a changed role is "stopped
\* before replacement": a record is never replaced while its process group still runs.
OneExecutionPerKey == leaders \cup descendants \subseteq {procs[r].exec : r \in Roles}

\* EXITED is not published until the leader is reaped, both pipes are drained and the
\* descendants are fenced.
ExitedIsGone ==
    \A r \in Roles : procs[r].state = "EXITED" =>
        /\ ~GroupRuns(procs[r].exec) /\ procs[r].exec \notin domains
        /\ procs[r].waited /\ procs[r].drains = 0

\* "Every unrequested exit is restarted": at rest a desired service has a process, a
\* pending restart, or was stopped explicitly.  Nothing falls between the waiter, the
\* drains, the restart timer and a new desired set.
NoServiceForgotten ==
    lock = Free /\ ~shut.closed =>
        \A r \in Roles : owner.desired[r] # "none" =>
            \/ Exists(r) /\ (~Over(procs[r]) \/ procs[r].suppressed)
            \/ r \in restarts

ReasonIsFirstStep ==
    \A r \in Roles : procs[r].reason # "none" /\ procs'[r].exec = procs[r].exec
                        => procs'[r].reason = procs[r].reason
\* "Stop, timeout, daemon close, and natural exit race by first accepted terminal
\* cause; the corresponding TerminationReason never changes".
ReasonIsFirst == [][ReasonIsFirstStep]_procVars

StaleNeverLaunchesStep ==
    \A r \in Roles : procs'[r].exec \notin {0, procs[r].exec} =>
        /\ ~shut.closed
        /\ owner.desired[r] \in {"none", procs'[r].spec}
        /\ lock.op # "free" => owner.desired[r] = procs'[r].spec
\* "an older call can never perform launches after a newer revision has been accepted",
\* and nothing is launched once the daemon closes.
StaleNeverLaunches == [][StaleNeverLaunchesStep]_procVars

SuppressedStaysStep ==
    \A r \in Roles : procs[r].suppressed /\ owner'.gen = owner.gen => procs'[r].exec = procs[r].exec
\* An explicit Stop suppresses the restart until a newer desired set arrives.
SuppressedStays == [][SuppressedStaysStep]_procVars

\* A graceful stop ends, even if the leader or only its descendants ignore the
\* interrupt, and even if the leader is reaped within the grace period; unless a
\* TERMINATE, which takes the deadline away, is ignored as well.
GracefulStopEnds ==
    \A r \in Roles :
        procs[r].graceful ~> Over(procs[r]) \/ (~procs[r].graceful /\ procs[r].exec \notin killed)

\* Close ends: every domain is reaped, drained and done, whatever stop or restart was in
\* progress.
CloseEnds == shut.closed ~> shut.step = "done"

\* What no step does to the process table: change a reason once recorded, launch a service
\* for an older revision, or lift the suppression of a stopped one.
ProcSteps == ReasonIsFirst /\ StaleNeverLaunches /\ SuppressedStays

\* The process table: its states and its steps (ProcessServer).
ProcCorrect ==
    /\ [](ProcTypeOK /\ OneExecutionPerKey /\ ExitedIsGone /\ NoServiceForgotten)
    /\ ProcSteps

\* Stops end: a graceful stop, and the daemon's Close (Stop, Supervisor.Close).
ProcEnds == GracefulStopEnds /\ CloseEnds
=============================================================================
