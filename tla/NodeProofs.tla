----------------------------- MODULE NodeProofs -----------------------------
(***************************************************************************)
(* Processes on a node: sandboxd's process table is correct for every      *)
(* number of roles, specs, revisions and executions; an exec call for      *)
(* every sequence of chunks and every fault.                               *)
(***************************************************************************)
EXTENDS ProcessManager, ExecStream, TLAPS

(* ---- the process table ------------------------------------------------ *)

LockType ==
    [op : {"free", "ensure", "stop"}, stop : SUBSET Roles, start : SUBSET Roles,
     at : Roles \cup {"none"}, spec : Specs \cup {"none"},
     step : {"pick", "start", "started", "failed"}]
ShutType ==
    [closed : BOOLEAN, step : {"open", "closed", "snapshot", "waiting", "done"}, callbacks : SUBSET Nat]

\* A record by itself: a finalizeWait belongs to a reaped leader, and EXITED comes last.
Shape(p) ==
    /\ p.exec = 0 => p = NoRecord
    /\ p.ending \/ p.terminal => p.waited
    /\ p.state = "EXITED" => p.terminal /\ p.drains = 0
\* A record that is over, or past its close, has no process left.
Gone(p, runs, doms) ==
    /\ p.state = "EXITED" => p.exec \notin doms
    /\ Over(p) \/ p.terminal => p.exec \notin runs
\* A record against the desired set: g its generation, d what it desires of the role.
InSet(p, g, d) ==
    /\ p.managed => p.gen = g /\ p.spec = d /\ ~p.suppressed
    /\ p.suppressed => p.gen = g

\* The lock against the desired set, and against the record it is working on.
LockOK(l, desired) ==
    /\ l.step # "pick" => /\ l.op = "ensure" /\ l.at \in Roles /\ l.stop = {}
                          /\ l.spec = desired[l.at] /\ l.spec \in Specs
    /\ \A r \in l.start : desired[r] # "none"
LockedRecord(l, p) ==
    /\ l.step = "start" => p.exec = 0
    /\ l.step = "started" => p.exec # 0 /\ p.spec = l.spec /\ ~p.managed /\ ~p.suppressed

\* A desired service has a process, was stopped, has a restart pending or is about to be
\* looked at by the holder of the lock.
LockWants(l, r) == l.op = "ensure" /\ (r \in l.start \/ (l.at = r /\ l.step # "pick"))
Cared(r, p, rs, l) == (p.exec # 0 /\ (~Over(p) \/ p.suppressed)) \/ r \in rs \/ LockWants(l, r)

RecordStanding(r) ==
    /\ Shape(procs[r]) /\ procs[r].exec <= execs
    /\ Gone(procs[r], leaders \cup descendants, domains)
    /\ InSet(procs[r], owner.gen, owner.desired[r])
    /\ ~shut.closed /\ owner.desired[r] # "none" => Cared(r, procs[r], restarts, lock)

\* What stands in every reachable state of ProcessManager.
ProcInductive ==
    /\ ProcTypeOK /\ OneExecutionPerKey /\ \A r \in Roles : RecordStanding(r)
    /\ LockOK(lock, owner.desired) /\ \A r \in Roles : lock.at = r => LockedRecord(lock, procs[r])
    /\ shut.callbacks \subseteq 1 .. execs

ProcStep == ReasonIsFirstStep /\ StaleNeverLaunchesStep /\ SuppressedStaysStep

\* What a step that goes on with the same execution keeps of its record.
Same(q, p) ==
    /\ q.exec = p.exec /\ q.spec = p.spec /\ q.managed = p.managed /\ q.gen = p.gen
    /\ q.suppressed = p.suppressed /\ (p.reason # "none" => q.reason = p.reason)

\* The types, by part.
LEMMA ProcTypes ==
    ASSUME ProcInductive
    PROVE  /\ procs \in [Roles -> ProcRecord] /\ owner \in [rev : Revisions \cup {<<0, 0>>}, desired : Desires, gen : Nat]
           /\ owner.gen \in Nat /\ owner.desired \in Desires /\ restarts \subseteq Roles /\ lock \in LockType /\ execs \in 0 .. MaxExec
           /\ leaders \subseteq 1 .. execs /\ descendants \subseteq 1 .. execs
           /\ killed \subseteq 1 .. execs /\ domains \subseteq 1 .. execs
           /\ shut \in ShutType /\ shut.callbacks \subseteq 1 .. execs
<1>1. ProcTypeOK /\ shut.callbacks \subseteq 1 .. execs
  BY Zenon DEF ProcInductive
<1>2. owner \in [rev : Revisions \cup {<<0, 0>>}, desired : Desires, gen : Nat]
  BY Zenon, <1>1 DEF ProcTypeOK
<1>3. owner.gen \in Nat /\ owner.desired \in Desires
  BY Zenon, <1>2
<1> QED
  BY Zenon, <1>1, <1>2, <1>3 DEF ProcTypeOK, LockType, ShutType

\* A record of the table, and its execution among the numbers given out so far.
LEMMA RecordTypes ==
    ASSUME ProcInductive, NEW r \in Roles
    PROVE  /\ procs[r] \in ProcRecord /\ RecordStanding(r)
           /\ procs[r].exec # 0 => procs[r].exec \in 1 .. execs
<1>1. procs[r] \in ProcRecord /\ RecordStanding(r)
  BY Zenon, ProcTypes DEF ProcInductive
<1>2. procs[r].exec \in 0 .. MaxExec /\ procs[r].exec <= execs /\ execs \in 0 .. MaxExec
  BY Zenon, <1>1, ProcTypes DEF ProcRecord, RecordStanding
<1>3. MaxExec \in Nat
  BY Zenon, ProcAssumption
<1>4. procs[r].exec # 0 => procs[r].exec \in 1 .. execs
  BY <1>2, <1>3
<1> QED
  BY Zenon, <1>1, <1>4

\* The last step of each of the following lemmas: from the parts to the invariant.
LEMMA PartsMakeIt ==
    ASSUME procs' \in [Roles -> ProcRecord], owner' \in [rev : Revisions \cup {<<0, 0>>}, desired : Desires, gen : Nat],
           restarts' \subseteq Roles, lock' \in LockType, execs' \in 0 .. MaxExec,
           leaders' \subseteq 1 .. execs', descendants' \subseteq 1 .. execs',
           killed' \subseteq 1 .. execs', domains' \subseteq 1 .. execs', shut' \in ShutType,
           shut'.callbacks \subseteq 1 .. execs', OneExecutionPerKey', \A r \in Roles : RecordStanding(r)',
           LockOK(lock', owner'.desired), \A r \in Roles : lock'.at = r => LockedRecord(lock', procs'[r])
    PROVE  ProcInductive'
<1>1. ProcTypeOK'
  BY Zenon DEF ProcTypeOK, LockType, ShutType
<1> QED
  BY Zenon, <1>1 DEF ProcInductive

\* A step that changes one record, of the same execution.
LEMMA OneRecord ==
    ASSUME ProcInductive, NEW r \in Roles, NEW q \in ProcRecord, procs' = [procs EXCEPT ![r] = q],
           UNCHANGED <<owner, execs, leaders, descendants>>,
           restarts \subseteq restarts', restarts' \subseteq Roles, domains' \subseteq domains,
           killed' \subseteq 1 .. execs, shut' \in ShutType, shut'.callbacks \subseteq 1 .. execs,
           shut'.closed = shut.closed,
           q.exec = procs[r].exec, procs[r].reason # "none" => q.reason = procs[r].reason,
           Shape(q), Gone(q, leaders \cup descendants, domains'), InSet(q, owner.gen, owner.desired[r]),
           lock' \in LockType, LockOK(lock', owner.desired),
           \A x \in Roles : lock'.at = x => LockedRecord(lock', procs'[x]),
           \A x \in Roles \ {r} : LockWants(lock, x) => LockWants(lock', x),
           ~shut.closed /\ owner.desired[r] # "none" => Cared(r, q, restarts', lock')
    PROVE  ProcInductive' /\ ProcStep
<1>t. /\ procs \in [Roles -> ProcRecord] /\ owner \in [rev : Revisions \cup {<<0, 0>>}, desired : Desires, gen : Nat]
      /\ execs \in 0 .. MaxExec /\ leaders \subseteq 1 .. execs /\ descendants \subseteq 1 .. execs
      /\ domains \subseteq 1 .. execs
  BY Zenon, ProcTypes
<1>p. procs' \in [Roles -> ProcRecord] /\ procs'[r] = q /\ \A x \in Roles \ {r} : procs'[x] = procs[x]
  BY Zenon, <1>t
<1>e. \A x \in Roles : procs'[x].exec = procs[x].exec
  BY Zenon, <1>p
<1>1. OneExecutionPerKey'
  <2>1. \A e \in leaders \cup descendants : \E x \in Roles : e = procs[x].exec
    BY Zenon DEF ProcInductive, OneExecutionPerKey
  <2>2. \A e \in leaders \cup descendants : \E x \in Roles : e = procs'[x].exec
    BY Zenon, <2>1, <1>e
  <2> QED
    BY Zenon, <2>2 DEF OneExecutionPerKey
<1>2. ASSUME NEW x \in Roles PROVE RecordStanding(x)'
  <2>0. RecordStanding(x)
    BY Zenon DEF ProcInductive
  <2>1. CASE x = r
    <3>1. procs'[x] = q /\ q.exec <= execs
      BY Zenon, <2>0, <2>1, <1>p DEF RecordStanding
    <3> QED
      BY Zenon, <2>1, <3>1 DEF RecordStanding
  <2>2. CASE x # r
    <3>1. procs'[x] = procs[x] /\ (LockWants(lock, x) => LockWants(lock', x))
      BY Zenon, <2>2, <1>p
    <3>2. Gone(procs'[x], leaders' \cup descendants', domains')
      BY Zenon, <3>1, <2>0 DEF RecordStanding, Gone
    <3>3. ~shut'.closed /\ owner'.desired[x] # "none" => Cared(x, procs'[x], restarts', lock')
      BY Zenon, <3>1, <2>0 DEF RecordStanding, Cared
    <3>4. Shape(procs'[x]) /\ procs'[x].exec <= execs' /\ InSet(procs'[x], owner'.gen, owner'.desired[x])
      BY Zenon, <3>1, <2>0 DEF RecordStanding
    <3> QED
      BY Zenon, <3>2, <3>3, <3>4 DEF RecordStanding
  <2> QED
    BY Zenon, <2>1, <2>2
<1>3. LockOK(lock', owner'.desired)
  BY Zenon
<1>4. ProcInductive'
  BY Zenon, <1>t, <1>p, <1>1, <1>2, <1>3, PartsMakeIt
<1>5. ReasonIsFirstStep
  BY Zenon, <1>p DEF ReasonIsFirstStep
<1>6. StaleNeverLaunchesStep
  BY Zenon, <1>e DEF StaleNeverLaunchesStep
<1>7. SuppressedStaysStep
  BY Zenon, <1>e DEF SuppressedStaysStep
<1> QED
  BY Zenon, <1>4, <1>5, <1>6, <1>7 DEF ProcStep

\* The same where neither the desired set's part of the record nor the lock changes.
LEMMA QuietRecord ==
    ASSUME ProcInductive, NEW r \in Roles, NEW q \in ProcRecord, procs' = [procs EXCEPT ![r] = q],
           UNCHANGED <<owner, lock, execs, leaders, descendants>>,
           restarts \subseteq restarts', restarts' \subseteq Roles, domains' \subseteq domains,
           killed' \subseteq 1 .. execs, shut' \in ShutType, shut'.callbacks \subseteq 1 .. execs,
           shut'.closed = shut.closed,
           Same(q, procs[r]), Shape(q), Gone(q, leaders \cup descendants, domains'),
           Over(q) => \/ Over(procs[r]) \/ q.suppressed \/ shut.closed \/ owner.desired[r] = "none"
                      \/ r \in restarts'
    PROVE  ProcInductive' /\ ProcStep
<1>t. procs \in [Roles -> ProcRecord] /\ lock \in LockType
  BY Zenon, ProcTypes
<1>s. RecordStanding(r) /\ LockOK(lock, owner.desired) /\ \A x \in Roles : lock.at = x => LockedRecord(lock, procs[x])
  BY Zenon DEF ProcInductive
<1>p. procs'[r] = q /\ \A x \in Roles \ {r} : procs'[x] = procs[x]
  BY Zenon, <1>t
<1>1. InSet(q, owner.gen, owner.desired[r])
  BY Zenon, <1>s DEF RecordStanding, InSet, Same
<1>2. \A x \in Roles : lock'.at = x => LockedRecord(lock', procs'[x])
  <2>1. lock.at = r => LockedRecord(lock, q)
    BY Zenon, <1>s DEF LockedRecord, Same
  <2> QED
    BY Zenon, <2>1, <1>p, <1>s
<1>3. ~shut.closed /\ owner.desired[r] # "none" => Cared(r, q, restarts', lock')
  <2>1. ~shut.closed /\ owner.desired[r] # "none" => Cared(r, procs[r], restarts, lock)
    BY Zenon, <1>s DEF RecordStanding
  <2> QED
    BY Zenon, <2>1 DEF Cared, Same
<1>4. q.exec = procs[r].exec /\ (procs[r].reason # "none" => q.reason = procs[r].reason)
  BY Zenon DEF Same
<1>5. lock' \in LockType /\ LockOK(lock', owner.desired) /\ \A x \in Roles \ {r} : LockWants(lock, x) => LockWants(lock', x)
  BY Zenon, <1>t, <1>s
<1> QED
  BY Zenon, <1>1, <1>2, <1>3, <1>4, <1>5, OneRecord

\* A step that changes no record, and lets no process in.
LEMMA NoRecordChanges ==
    ASSUME ProcInductive, UNCHANGED <<procs, owner, execs, domains>>,
           leaders' \subseteq leaders, descendants' \subseteq leaders \cup descendants,
           killed' \subseteq 1 .. execs, restarts' \subseteq Roles,
           shut' \in ShutType, shut'.callbacks \subseteq 1 .. execs,
           lock' \in LockType, LockOK(lock', owner.desired),
           \A r \in Roles : lock'.at = r => LockedRecord(lock', procs[r]),
           \A r \in Roles : ~shut'.closed /\ owner.desired[r] # "none" => Cared(r, procs[r], restarts', lock')
    PROVE  ProcInductive' /\ ProcStep
<1>t. /\ procs \in [Roles -> ProcRecord] /\ owner \in [rev : Revisions \cup {<<0, 0>>}, desired : Desires, gen : Nat]
      /\ execs \in 0 .. MaxExec /\ leaders \subseteq 1 .. execs /\ descendants \subseteq 1 .. execs
      /\ domains \subseteq 1 .. execs
  BY Zenon, ProcTypes
<1>1. OneExecutionPerKey'
  BY Zenon DEF ProcInductive, OneExecutionPerKey
<1>2. ASSUME NEW x \in Roles PROVE RecordStanding(x)'
  <2>0. RecordStanding(x)
    BY Zenon DEF ProcInductive
  <2>1. Gone(procs'[x], leaders' \cup descendants', domains')
    BY Zenon, <2>0 DEF RecordStanding, Gone
  <2> QED
    BY Zenon, <2>0, <2>1 DEF RecordStanding
<1>3. leaders' \subseteq 1 .. execs /\ descendants' \subseteq 1 .. execs
  BY Zenon, <1>t
<1>4. ProcInductive'
  BY Zenon, <1>t, <1>1, <1>2, <1>3, PartsMakeIt
<1>5. ReasonIsFirstStep /\ SuppressedStaysStep
  BY Zenon DEF ReasonIsFirstStep, SuppressedStaysStep
<1>6. StaleNeverLaunchesStep
  BY Zenon DEF StaleNeverLaunchesStep
<1> QED
  BY Zenon, <1>4, <1>5, <1>6 DEF ProcStep

\* A record that changes neither its end nor, but to STOPPING, its state.
LEMMA StaysAsItWas ==
    ASSUME ProcInductive, NEW r \in Roles, NEW q \in ProcRecord, q.exec = procs[r].exec, procs[r].exec # 0,
           q.terminal = procs[r].terminal, q.drains = procs[r].drains,
           q.state = procs[r].state \/ ~Over(q), procs[r].waited => q.waited, q.ending => q.waited
    PROVE  /\ Shape(q) /\ Gone(q, leaders \cup descendants, domains)
           /\ Over(q) => Over(procs[r])
<1>1. Shape(procs[r]) /\ Gone(procs[r], leaders \cup descendants, domains)
  BY Zenon DEF ProcInductive, RecordStanding
<1>2. Shape(q)
  BY Zenon, <1>1 DEF Shape, Over
<1>3. Over(q) => Over(procs[r])
  BY Zenon DEF Over
<1>4. q.state = "EXITED" => procs[r].state = "EXITED"
  BY Zenon DEF Over
<1>5. Gone(q, leaders \cup descendants, domains)
  BY Zenon, <1>1, <1>3, <1>4 DEF Gone
<1> QED
  BY Zenon, <1>2, <1>3, <1>5

\* A key without a record.
LEMMA NoRecordShape ==
    ASSUME ProcInductive, NEW r \in Roles,
           \/ procs[r].state # "none" \/ procs[r].ending \/ procs[r].timed \/ procs[r].grace
           \/ procs[r].drains # 0 \/ procs[r].managed \/ procs[r].suppressed \/ procs[r].reason # "none"
    PROVE  procs[r].exec # 0 /\ procs[r].exec \in 1 .. execs
<1>1. procs[r].exec = 0 => procs[r] = NoRecord
  BY Zenon DEF ProcInductive, RecordStanding, Shape
<1>2. procs[r].exec # 0
  BY <1>1 DEF NoRecord
<1> QED
  BY Zenon, <1>2, RecordTypes

\* The leader is reaped.
LEMMA WaitKeeps ==
    ASSUME ProcInductive, NEW r \in Roles, Wait(r)
    PROVE  ProcInductive' /\ ProcStep
<1> DEFINE p == procs[r]
           why == IF p.reason = "none" THEN "EXITED" ELSE p.reason
           e == ~Deferred(p)
           q == [p EXCEPT !.reason = why, !.waited = TRUE, !.timed = FALSE, !.ending = e]
<1>1. /\ p.state \in {"RUNNING", "STOPPING"} /\ procs' = [procs EXCEPT ![r] = q]
      /\ killed' \subseteq killed \cup {p.exec}
      /\ UNCHANGED <<owner, restarts, lock, execs, leaders, descendants, domains, shut>>
  BY Zenon DEF Wait, Put, Reaped, ForceGroup, osVars
<1>2. p \in ProcRecord /\ p.exec # 0 /\ p.exec \in 1 .. execs
  BY Zenon, <1>1, RecordTypes, NoRecordShape
<1>3. why \in Reasons /\ (p.reason # "none" => why = p.reason) /\ e \in BOOLEAN
  BY Zenon, <1>2 DEF ProcRecord, Reasons
<1> HIDE DEF why, e
<1>4. /\ q \in ProcRecord /\ q.waited /\ q.terminal = p.terminal /\ q.drains = p.drains /\ q.state = p.state
      /\ q.exec = p.exec /\ q.spec = p.spec /\ q.managed = p.managed /\ q.gen = p.gen
      /\ q.suppressed = p.suppressed /\ q.reason = why
  BY Zenon, <1>2, <1>3 DEF ProcRecord
<1> HIDE DEF q
<1>5. Same(q, p)
  BY Zenon, <1>3, <1>4 DEF Same
<1>6. Shape(q) /\ Gone(q, leaders \cup descendants, domains) /\ (Over(q) => Over(p))
  BY Zenon, <1>2, <1>4, StaysAsItWas
<1>7. killed' \subseteq 1 .. execs /\ shut' \in ShutType /\ shut'.callbacks \subseteq 1 .. execs /\ restarts' \subseteq Roles
  BY Zenon, <1>1, <1>2, ProcTypes
<1> QED
  BY Zenon, <1>1, <1>4, <1>5, <1>6, <1>7, QuietRecord

\* finishLocked: a record that ends is restarted if it is still desired.
LEMMA FinishKeepsTable ==
    ASSUME ProcInductive, NEW r \in Roles, NEW q \in ProcRecord, FinishLocked(r, q),
           UNCHANGED <<owner, lock, execs, osVars, killed, shut>>,
           procs[r].exec # 0, Same(q, procs[r]), q.state = procs[r].state,
           q.ending \/ q.terminal => q.waited, q.terminal => q.exec \notin leaders \cup descendants,
           q.state # "EXITED"
    PROVE  ProcInductive' /\ ProcStep
<1>s. RecordStanding(r)
  BY Zenon DEF ProcInductive
<1>t. /\ restarts \subseteq Roles /\ killed' \subseteq 1 .. execs /\ shut' \in ShutType /\ shut'.callbacks \subseteq 1 .. execs
      /\ UNCHANGED <<leaders, descendants>>
  BY Zenon, ProcTypes DEF osVars
<1>1. CASE q.terminal /\ q.drains = 0
  <2> DEFINE x == [q EXCEPT !.state = "EXITED", !.timed = FALSE, !.grace = FALSE]
  <2>1. /\ procs' = [procs EXCEPT ![r] = x] /\ domains' = domains \ {q.exec}
        /\ restarts' = IF RestartsAfter(r, q) THEN restarts \cup {r} ELSE restarts
    BY Zenon, <1>1 DEF FinishLocked, Put
  <2>2. /\ x \in ProcRecord /\ x.waited = q.waited /\ x.terminal = q.terminal /\ x.drains = q.drains /\ x.state = "EXITED"
        /\ x.exec = q.exec /\ x.spec = q.spec /\ x.managed = q.managed /\ x.gen = q.gen
        /\ x.suppressed = q.suppressed /\ x.reason = q.reason /\ x.ending = q.ending
    BY Zenon DEF ProcRecord
  <2> HIDE DEF x
  <2>3. Same(x, procs[r])
    BY Zenon, <2>2 DEF Same
  <2>4. Shape(x)
    BY Zenon, <2>2, <1>1 DEF Shape, Same
  <2>5. Gone(x, leaders \cup descendants, domains')
    BY Zenon, <2>1, <2>2, <1>1 DEF Gone
  <2>6. ~shut.closed /\ owner.desired[r] # "none" /\ ~q.suppressed => RestartsAfter(r, q)
    BY Zenon, <1>s DEF RestartsAfter, RecordStanding, InSet, Same
  <2>7. Over(x) => \/ Over(procs[r]) \/ x.suppressed \/ shut.closed \/ owner.desired[r] = "none" \/ r \in restarts'
    BY Zenon, <2>1, <2>2, <2>6
  <2>8. restarts \subseteq restarts' /\ restarts' \subseteq Roles /\ domains' \subseteq domains
    BY Zenon, <2>1, <1>t
  <2> QED
    BY Zenon, <2>1, <2>2, <2>3, <2>4, <2>5, <2>7, <2>8, <1>t, QuietRecord
<1>2. CASE ~(q.terminal /\ q.drains = 0)
  <2>1. procs' = [procs EXCEPT ![r] = q] /\ UNCHANGED <<restarts, domains>>
    BY Zenon, <1>2 DEF FinishLocked, Put
  <2>2. Shape(q)
    BY Zenon DEF Shape, Same
  <2>3. Over(q) => Over(procs[r])
    BY Zenon DEF Over
  <2>4. Gone(q, leaders \cup descendants, domains')
    BY Zenon, <2>3, <1>s DEF Gone, RecordStanding, Same
  <2> QED
    BY Zenon, <2>1, <2>2, <2>3, <2>4, <1>t, QuietRecord
<1> QED
  BY Zenon, <1>1, <1>2

\* finalizeWait, and the drain of a pipe.
LEMMA EndingsKeep ==
    ASSUME ProcInductive, NEW r \in Roles, FinalizeWait(r) \/ Drain(r)
    PROVE  ProcInductive' /\ ProcStep
<1> DEFINE p == procs[r]
<1>s. p \in ProcRecord /\ RecordStanding(r)
  BY Zenon, RecordTypes
<1>1. CASE FinalizeWait(r)
  <2> DEFINE q == [p EXCEPT !.terminal = TRUE]
  <2>1. /\ p.ending /\ ~p.terminal /\ p.exec \notin leaders \cup descendants /\ FinishLocked(r, q)
        /\ UNCHANGED <<owner, lock, execs, osVars, killed, shut>>
    BY Zenon, <1>1 DEF FinalizeWait, DomainClosed, GroupRuns
  <2>2. p.exec # 0
    BY Zenon, <2>1, NoRecordShape
  <2>3. /\ q \in ProcRecord /\ q.waited = p.waited /\ q.state = p.state
        /\ q.exec = p.exec /\ q.spec = p.spec /\ q.managed = p.managed /\ q.gen = p.gen
        /\ q.suppressed = p.suppressed /\ q.reason = p.reason
    BY Zenon, <1>s DEF ProcRecord
  <2> HIDE DEF q
  <2>4. p.waited /\ p.state # "EXITED"
    BY Zenon, <2>1, <1>s DEF RecordStanding, Shape
  <2>5. Same(q, p)
    BY Zenon, <2>3 DEF Same
  <2> QED
    BY Zenon, <2>1, <2>2, <2>3, <2>4, <2>5, FinishKeepsTable
<1>2. CASE Drain(r)
  <2> DEFINE n == p.drains - 1
             q == [p EXCEPT !.drains = n]
  <2>1. p.drains > 0 /\ FinishLocked(r, q) /\ UNCHANGED <<owner, lock, execs, osVars, killed, shut>>
    BY Zenon, <1>2 DEF Drain
  <2>2. n \in 0 .. 2 /\ p.drains # 0
    <3>1. p.drains \in 0 .. 2
      BY Zenon, <1>s DEF ProcRecord
    <3> QED
      BY <3>1, <2>1
  <2>3. p.exec # 0
    BY Zenon, <2>2, NoRecordShape
  <2> HIDE DEF n
  <2>4. /\ q \in ProcRecord /\ q.waited = p.waited /\ q.terminal = p.terminal /\ q.ending = p.ending /\ q.state = p.state
        /\ q.exec = p.exec /\ q.spec = p.spec /\ q.managed = p.managed /\ q.gen = p.gen
        /\ q.suppressed = p.suppressed /\ q.reason = p.reason
    BY Zenon, <2>2, <1>s DEF ProcRecord
  <2> HIDE DEF q
  <2>5. p.state # "EXITED" /\ (q.ending \/ q.terminal => q.waited) /\ (q.terminal => q.exec \notin leaders \cup descendants)
    BY Zenon, <2>2, <2>4, <1>s DEF RecordStanding, Shape, Gone
  <2>6. Same(q, p)
    BY Zenon, <2>4 DEF Same
  <2> QED
    BY Zenon, <2>1, <2>3, <2>4, <2>5, <2>6, FinishKeepsTable
<1> QED
  BY Zenon, <1>1, <1>2

\* requestTermination.
LEMMA TerminatedRecord ==
    ASSUME NEW p \in ProcRecord, NEW reason \in Reasons
    PROVE  LET q == Terminated(p, reason) IN
           /\ q \in ProcRecord /\ q.state = "STOPPING" /\ q.waited = p.waited /\ q.ending = p.ending
           /\ q.terminal = p.terminal /\ q.drains = p.drains /\ Same(q, p)
<1> DEFINE why == IF p.reason = "none" THEN reason ELSE p.reason
           q == [p EXCEPT !.asked = TRUE, !.state = "STOPPING", !.reason = why]
<1>1. why \in Reasons /\ (p.reason # "none" => why = p.reason)
  BY Zenon DEF ProcRecord
<1>2. q = Terminated(p, reason)
  BY Zenon DEF Terminated
<1> HIDE DEF why
<1>3. /\ q \in ProcRecord /\ q.state = "STOPPING" /\ q.waited = p.waited /\ q.ending = p.ending
      /\ q.terminal = p.terminal /\ q.drains = p.drains
      /\ q.exec = p.exec /\ q.spec = p.spec /\ q.managed = p.managed /\ q.gen = p.gen
      /\ q.suppressed = p.suppressed /\ q.reason = why
  BY Zenon, <1>1 DEF ProcRecord
<1> HIDE DEF q
<1> QED
  BY Zenon, <1>1, <1>2, <1>3 DEF Same

\* The timers.
LEMMA TimersKeep ==
    ASSUME ProcInductive, NEW r \in Roles, TimeoutFires(r) \/ GraceFires(r)
    PROVE  ProcInductive' /\ ProcStep
<1> DEFINE p == procs[r]
<1>s. p \in ProcRecord /\ Shape(p)
  BY Zenon, RecordTypes DEF RecordStanding
<1>e. p.exec # 0 /\ p.exec \in 1 .. execs
  BY Zenon, NoRecordShape DEF TimeoutFires, GraceFires
<1>u. /\ UNCHANGED <<owner, restarts, lock, execs, leaders, descendants, domains, shut>>
      /\ killed' \subseteq killed \cup {p.exec}
  BY Zenon DEF TimeoutFires, GraceFires, osVars, ForceGroup
<1>7. killed' \subseteq 1 .. execs /\ shut' \in ShutType /\ shut'.callbacks \subseteq 1 .. execs /\ restarts' \subseteq Roles
  BY Zenon, <1>u, <1>e, ProcTypes
<1>q. ASSUME NEW q \in ProcRecord, procs' = [procs EXCEPT ![r] = q], Same(q, p),
             q.terminal = p.terminal, q.drains = p.drains,
             q.state = p.state \/ q.state = "STOPPING", q.waited = p.waited, q.ending => q.waited
      PROVE  ProcInductive' /\ ProcStep
  <2>1. q.exec = p.exec /\ (q.state = p.state \/ ~Over(q))
    BY Zenon, <1>q DEF Same, Over
  <2>2. Shape(q) /\ Gone(q, leaders \cup descendants, domains) /\ (Over(q) => Over(p))
    BY Zenon, <1>q, <2>1, <1>e, StaysAsItWas
  <2> QED
    BY Zenon, <1>q, <2>2, <1>u, <1>7, QuietRecord
<1>1. CASE TimeoutFires(r)
  <2>1. CASE p.state = "RUNNING"
    <3> DEFINE t == Terminated(p, "TIMEOUT")
               q == [t EXCEPT !.timed = FALSE]
    <3>1. procs' = [procs EXCEPT ![r] = q]
      BY Zenon, <1>1, <2>1 DEF TimeoutFires, Put
    <3>2. /\ t \in ProcRecord /\ t.state = "STOPPING" /\ t.waited = p.waited /\ t.ending = p.ending
          /\ t.terminal = p.terminal /\ t.drains = p.drains /\ Same(t, p)
      BY Zenon, <1>s, TerminatedRecord DEF Reasons
    <3> HIDE DEF t
    <3>3. /\ q \in ProcRecord /\ q.state = t.state /\ q.waited = t.waited /\ q.ending = t.ending
          /\ q.terminal = t.terminal /\ q.drains = t.drains
          /\ q.exec = t.exec /\ q.spec = t.spec /\ q.managed = t.managed /\ q.gen = t.gen
          /\ q.suppressed = t.suppressed /\ q.reason = t.reason
      BY Zenon, <3>2 DEF ProcRecord
    <3> HIDE DEF q
    <3>4. Same(q, p)
      BY Zenon, <3>2, <3>3 DEF Same
    <3> QED
      BY Zenon, <3>1, <3>2, <3>3, <3>4, <1>q, <1>s DEF Shape
  <2>2. CASE p.state # "RUNNING"
    <3> DEFINE q == [p EXCEPT !.timed = FALSE]
    <3>1. procs' = [procs EXCEPT ![r] = q]
      BY Zenon, <1>1, <2>2 DEF TimeoutFires, Put
    <3>3. /\ q \in ProcRecord /\ q.state = p.state /\ q.waited = p.waited /\ q.ending = p.ending
          /\ q.terminal = p.terminal /\ q.drains = p.drains
          /\ q.exec = p.exec /\ q.spec = p.spec /\ q.managed = p.managed /\ q.gen = p.gen
          /\ q.suppressed = p.suppressed /\ q.reason = p.reason
      BY Zenon, <1>s DEF ProcRecord
    <3> HIDE DEF q
    <3>4. Same(q, p)
      BY Zenon, <3>3 DEF Same
    <3> QED
      BY Zenon, <3>1, <3>3, <3>4, <1>q, <1>s DEF Shape
  <2> QED
    BY Zenon, <2>1, <2>2
<1>2. CASE GraceFires(r)
  <2> DEFINE e == p.ending \/ (Deferred(p) /\ p.waited)
             q == [p EXCEPT !.grace = FALSE, !.graceful = FALSE, !.ending = e]
  <2>1. procs' = [procs EXCEPT ![r] = q]
    BY Zenon, <1>2 DEF GraceFires, Put, GraceOver
  <2>2. e \in BOOLEAN /\ (e => p.waited)
    BY Zenon, <1>s DEF Shape
  <2> HIDE DEF e
  <2>3. /\ q \in ProcRecord /\ q.state = p.state /\ q.waited = p.waited /\ q.ending = e
        /\ q.terminal = p.terminal /\ q.drains = p.drains
        /\ q.exec = p.exec /\ q.spec = p.spec /\ q.managed = p.managed /\ q.gen = p.gen
        /\ q.suppressed = p.suppressed /\ q.reason = p.reason
    BY Zenon, <2>2, <1>s DEF ProcRecord
  <2> HIDE DEF q
  <2>4. Same(q, p)
    BY Zenon, <2>3 DEF Same
  <2> QED
    BY Zenon, <2>1, <2>2, <2>3, <2>4, <1>q
<1> QED
  BY Zenon, <1>1, <1>2

\* The callback of the Supervisor's Close.
LEMMA ShutdownKeeps ==
    ASSUME ProcInductive, NEW r \in Roles, ShutdownManaged(r)
    PROVE  ProcInductive' /\ ProcStep
<1> DEFINE p == procs[r]
           c == shut.callbacks \ {p.exec}
<1>s. p \in ProcRecord /\ Shape(p)
  BY Zenon, RecordTypes DEF RecordStanding
<1>t. shut \in ShutType /\ shut.callbacks \subseteq 1 .. execs /\ restarts \subseteq Roles /\ killed \subseteq 1 .. execs /\ execs \in 0 .. MaxExec /\ lock \in LockType
  BY Zenon, ProcTypes
<1>u. /\ UNCHANGED <<owner, restarts, lock, execs, leaders, descendants, domains>>
      /\ p.exec \in shut.callbacks /\ shut' = [shut EXCEPT !.callbacks = c]
  BY Zenon DEF ShutdownManaged, osVars
<1>e. p.exec \in 1 .. execs
  BY Zenon, <1>t, <1>u
<1>z. p.exec # 0
  <2>1. 0 \notin 1 .. execs
    BY <1>t
  <2> QED
    BY Zenon, <2>1, <1>e
<1>c. c \subseteq 1 .. execs /\ c \in SUBSET Nat
  BY Zenon, <1>t DEF ShutType
<1>h. shut' \in ShutType /\ shut'.callbacks \subseteq 1 .. execs /\ shut'.closed = shut.closed
  <2> HIDE DEF c
  <2> QED
    BY Zenon, <1>t, <1>u, <1>c DEF ShutType
<1>1. CASE p.terminal
  <2>1. UNCHANGED <<procs, killed>>
    BY Zenon, <1>1 DEF ShutdownManaged
  <2>2. /\ LockOK(lock, owner.desired) /\ \A x \in Roles : lock.at = x => LockedRecord(lock, procs[x])
        /\ \A x \in Roles : ~shut.closed /\ owner.desired[x] # "none" => Cared(x, procs[x], restarts, lock)
    BY Zenon DEF ProcInductive, RecordStanding
  <2>3. /\ leaders' \subseteq leaders /\ descendants' \subseteq leaders \cup descendants
        /\ killed' \subseteq 1 .. execs /\ restarts' \subseteq Roles /\ lock' \in LockType
    BY Zenon, <2>1, <1>u, <1>t
  <2> QED
    BY Zenon, <2>1, <2>2, <2>3, <1>u, <1>h, NoRecordChanges
<1>2. CASE ~p.terminal
  <2> DEFINE why == IF p.reason = "none" THEN "DAEMON_CLOSED" ELSE p.reason
             e == p.ending \/ p.waited
             q == [p EXCEPT !.state = "STOPPING", !.graceful = FALSE, !.timed = FALSE, !.grace = FALSE,
                            !.reason = why, !.ending = e]
  <2>1. procs' = [procs EXCEPT ![r] = q] /\ killed' \subseteq killed \cup {p.exec}
    BY Zenon, <1>2 DEF ShutdownManaged, Put, Shut, ForceGroup
  <2>2. why \in Reasons /\ (p.reason # "none" => why = p.reason) /\ e \in BOOLEAN /\ (e => p.waited)
    BY Zenon, <1>s DEF ProcRecord, Reasons, Shape
  <2> HIDE DEF why, e
  <2>3. /\ q \in ProcRecord /\ q.state = "STOPPING" /\ q.waited = p.waited /\ q.ending = e
        /\ q.terminal = p.terminal /\ q.drains = p.drains
        /\ q.exec = p.exec /\ q.spec = p.spec /\ q.managed = p.managed /\ q.gen = p.gen
        /\ q.suppressed = p.suppressed /\ q.reason = why
    <3>1. q \in ProcRecord
      BY Zenon, <2>2, <1>s DEF ProcRecord
    <3>2. q.state = "STOPPING" /\ q.ending = e /\ q.reason = why /\ q.waited = p.waited
      BY Zenon, <1>s DEF ProcRecord
    <3>3. q.terminal = p.terminal /\ q.drains = p.drains /\ q.exec = p.exec /\ q.spec = p.spec
      BY Zenon, <1>s DEF ProcRecord
    <3>4. q.managed = p.managed /\ q.gen = p.gen /\ q.suppressed = p.suppressed
      BY Zenon, <1>s DEF ProcRecord
    <3> QED
      BY Zenon, <3>1, <3>2, <3>3, <3>4
  <2> HIDE DEF q
  <2>4. Same(q, p) /\ ~Over(q)
    BY Zenon, <2>2, <2>3 DEF Same, Over
  <2>5. Shape(q) /\ Gone(q, leaders \cup descendants, domains) /\ (Over(q) => Over(p))
    BY Zenon, <2>2, <2>3, <2>4, <1>z, StaysAsItWas
  <2>6. killed' \subseteq 1 .. execs /\ restarts' \subseteq Roles
    BY Zenon, <2>1, <1>u, <1>t, <1>e
  <2> QED
    BY Zenon, <2>1, <2>3, <2>4, <2>5, <2>6, <1>u, <1>h, QuietRecord
<1> QED
  BY Zenon, <1>1, <1>2

\* Stop takes a record out of the managed ones, and suppresses its restart.
LEMMA UnmanagedRecord ==
    ASSUME NEW p \in ProcRecord, NEW g, NEW d, InSet(p, g, d)
    PROVE  LET u == Unmanaged(p) IN
           /\ u \in ProcRecord /\ InSet(u, g, d) /\ (p.suppressed => u.suppressed) /\ (p.managed => u.suppressed)
           /\ u.exec = p.exec /\ u.spec = p.spec /\ u.gen = p.gen /\ u.reason = p.reason
           /\ u.state = p.state /\ u.waited = p.waited /\ u.ending = p.ending /\ u.terminal = p.terminal /\ u.drains = p.drains
<1>1. CASE p.managed
  <2> DEFINE u == [p EXCEPT !.managed = FALSE, !.suppressed = TRUE]
  <2>1. u = Unmanaged(p)
    BY Zenon, <1>1 DEF Unmanaged
  <2>2. /\ u \in ProcRecord /\ u.suppressed /\ ~u.managed
        /\ u.exec = p.exec /\ u.spec = p.spec /\ u.gen = p.gen /\ u.reason = p.reason
        /\ u.state = p.state /\ u.waited = p.waited /\ u.ending = p.ending /\ u.terminal = p.terminal /\ u.drains = p.drains
    BY Zenon DEF ProcRecord
  <2> HIDE DEF u
  <2>3. InSet(u, g, d)
    BY Zenon, <1>1, <2>2 DEF InSet
  <2> QED
    BY Zenon, <2>1, <2>2, <2>3
<1>2. CASE ~p.managed
  <2>1. Unmanaged(p) = p
    BY Zenon, <1>2 DEF Unmanaged
  <2> QED
    BY Zenon, <2>1, <1>2
<1> QED
  BY Zenon, <1>1, <1>2

\* Stop: the record's first cause stands, and a managed execution is not restarted.
LEMMA StopKeeps ==
    ASSUME ProcInductive, NEW r \in Roles, NEW mode \in StopModes, StopProcess(r, mode)
    PROVE  ProcInductive' /\ ProcStep
<1> DEFINE p == procs[r]
           u == Unmanaged(p)
           own == mode \in {"FORCE", "TERMINATE"} /\ p.waited
<1>s. p \in ProcRecord /\ RecordStanding(r) /\ Shape(p) /\ InSet(p, owner.gen, owner.desired[r])
  BY Zenon, RecordTypes DEF RecordStanding
<1>t. shut \in ShutType /\ shut.callbacks \subseteq 1 .. execs /\ restarts \subseteq Roles /\ killed \subseteq 1 .. execs
  BY Zenon, ProcTypes
<1>a. /\ lock = Free /\ p.exec # 0 /\ UNCHANGED <<owner, restarts, execs, leaders, descendants, domains, shut>>
      /\ procs' = [procs EXCEPT ![r] = IF Over(p) THEN u ELSE Stopped(p, mode)]
      /\ killed' \subseteq killed \cup {p.exec}
      /\ lock' = Free \/ lock' = [Free EXCEPT !.op = "stop", !.at = r]
  BY Zenon DEF StopProcess, Exists, Put, ForceGroup, osVars
<1>k. killed' \subseteq 1 .. execs
  BY Zenon, <1>a, <1>t, RecordTypes
<1>f. Free \in LockType /\ Free.step = "pick" /\ Free.start = {} /\ Free.op = "free"
  BY DEF Free, LockType
<1>l. lock' \in LockType /\ lock'.step = "pick" /\ lock'.start = {} /\ lock.op = "free"
  BY Zenon, <1>a, <1>f DEF LockType
<1>m. /\ LockOK(lock', owner.desired) /\ \A x \in Roles : lock'.at = x => LockedRecord(lock', procs'[x])
      /\ \A x \in Roles : ~LockWants(lock, x)
  BY Zenon, <1>l DEF LockOK, LockedRecord, LockWants
<1>c. ~shut.closed /\ owner.desired[r] # "none" => (~Over(p) \/ p.suppressed) \/ r \in restarts
  BY Zenon, <1>s, <1>m DEF RecordStanding, Cared
<1>u. /\ u \in ProcRecord /\ InSet(u, owner.gen, owner.desired[r]) /\ (p.suppressed => u.suppressed) /\ (p.managed => u.suppressed)
      /\ u.exec = p.exec /\ u.spec = p.spec /\ u.gen = p.gen /\ u.reason = p.reason
      /\ u.state = p.state /\ u.waited = p.waited /\ u.ending = p.ending /\ u.terminal = p.terminal /\ u.drains = p.drains
  BY Zenon, <1>s, UnmanagedRecord
<1>q. ASSUME NEW q \in ProcRecord, procs' = [procs EXCEPT ![r] = q], q.exec = p.exec,
             p.reason # "none" => q.reason = p.reason, InSet(q, owner.gen, owner.desired[r]),
             q.terminal = p.terminal, q.drains = p.drains, q.waited = p.waited, q.ending => q.waited,
             q.state = p.state \/ ~Over(q), p.suppressed => q.suppressed
      PROVE  ProcInductive' /\ ProcStep
  <2>1. Shape(q) /\ Gone(q, leaders \cup descendants, domains) /\ (Over(q) => Over(p))
    BY Zenon, <1>q, <1>a, StaysAsItWas
  <2>2. ~shut.closed /\ owner.desired[r] # "none" => Cared(r, q, restarts', lock')
    BY Zenon, <1>q, <2>1, <1>a, <1>c DEF Cared
  <2> QED
    BY Zenon, <1>q, <2>1, <2>2, <1>a, <1>k, <1>l, <1>m, <1>t, OneRecord
<1> HIDE DEF u
<1>1. CASE Over(p)
  <2>1. procs' = [procs EXCEPT ![r] = u] /\ (u.ending => u.waited)
    BY Zenon, <1>1, <1>a, <1>u, <1>s DEF Shape
  <2> QED
    BY Zenon, <2>1, <1>u, <1>q
<1>2. CASE ~Over(p)
  <2> DEFINE begins == mode = "GRACEFUL" /\ ~p.asked
             cuts == mode \in {"FORCE", "TERMINATE"}
             gr == ~cuts /\ (begins \/ u.graceful)
             gc == ~cuts /\ (begins \/ u.grace)
             why == IF u.reason = "none" THEN ReasonOf(mode) ELSE u.reason
             e == u.ending \/ (cuts /\ p.waited)
             q == [u EXCEPT !.asked = TRUE, !.state = "STOPPING", !.graceful = gr, !.grace = gc,
                            !.reason = why, !.ending = e]
  <2>1. procs' = [procs EXCEPT ![r] = q]
    BY Zenon, <1>2, <1>a DEF Stopped, u
  <2>2. ReasonOf(mode) \in Reasons
    <3>1. mode \in {"GRACEFUL", "INTERRUPT", "TERMINATE", "FORCE"}
      BY Zenon, ProcAssumption DEF AllStopModes
    <3> QED
      BY <3>1 DEF ReasonOf, Reasons
  <2>3. /\ gr \in BOOLEAN /\ gc \in BOOLEAN /\ e \in BOOLEAN /\ (e => u.waited)
        /\ why \in Reasons /\ (p.reason # "none" => why = p.reason)
    BY Zenon, <2>2, <1>u, <1>s DEF ProcRecord, Shape
  <2> HIDE DEF begins, cuts, gr, gc, why, e
  <2>5. q \in ProcRecord
    BY Zenon, <2>3, <1>u DEF ProcRecord
  <2>6. q.state = "STOPPING" /\ q.ending = e /\ q.reason = why
    BY Zenon, <1>u DEF ProcRecord
  <2>7. q.waited = u.waited /\ q.terminal = u.terminal /\ q.drains = u.drains /\ q.exec = u.exec
    BY Zenon, <1>u DEF ProcRecord
  <2>8. q.spec = u.spec /\ q.managed = u.managed /\ q.gen = u.gen /\ q.suppressed = u.suppressed
    BY Zenon, <1>u DEF ProcRecord
  <2> HIDE DEF q
  <2>9. InSet(q, owner.gen, owner.desired[r]) /\ ~Over(q)
    BY Zenon, <2>6, <2>8, <1>u DEF InSet, Over
  <2> QED
    BY Zenon, <2>1, <2>3, <2>5, <2>6, <2>7, <2>8, <2>9, <1>u, <1>q
<1> QED
  BY Zenon, <1>1, <1>2

\* A launch: a number nobody had before.
LEMMA LaunchKeeps ==
    ASSUME ProcInductive, NEW r \in Roles, NEW s \in Specs, Launch(r, s), procs[r].exec = 0, ~shut.closed,
           UNCHANGED <<owner, restarts, shut>>,
           lock' \in LockType, LockOK(lock', owner.desired),
           \A x \in Roles \ {r} : lock'.at = x => LockedRecord(lock', procs[x]),
           lock'.at = r => lock'.step = "pick" \/ (lock'.step = "started" /\ lock'.spec = s),
           \A x \in Roles : LockWants(lock, x) => LockWants(lock', x),
           owner.desired[r] # "none" => LockWants(lock', r),
           owner.desired[r] \in {"none", s}, lock.op # "free" => owner.desired[r] = s
    PROVE  ProcInductive' /\ ProcStep
<1> DEFINE e == execs + 1
           q == procs'[r]
<1>t. /\ procs \in [Roles -> ProcRecord] /\ owner \in [rev : Revisions \cup {<<0, 0>>}, desired : Desires, gen : Nat]
      /\ execs \in 0 .. MaxExec /\ leaders \subseteq 1 .. execs /\ descendants \subseteq 1 .. execs
      /\ killed \subseteq 1 .. execs /\ domains \subseteq 1 .. execs /\ restarts \subseteq Roles
      /\ shut \in ShutType /\ shut.callbacks \subseteq 1 .. execs
  BY Zenon, ProcTypes
<1>n. /\ e \in 0 .. MaxExec /\ e # 0 /\ e \in 1 .. e /\ e \notin 1 .. execs /\ 1 .. execs \subseteq 1 .. e
      /\ \A k \in 0 .. execs : k # e /\ k <= e /\ e <= e /\ 0 <= e
  <2>1. execs < MaxExec /\ execs \in Nat /\ MaxExec \in Nat
    BY <1>t, ProcAssumption DEF Launch
  <2> QED
    BY <2>1
<1>x. execs' = e /\ UNCHANGED <<descendants, killed>>
  BY Zenon DEF Launch
<1>z. procs[r] = NoRecord
  BY Zenon DEF ProcInductive, RecordStanding, Shape
<1>1. /\ q \in ProcRecord /\ q.exec = e /\ q.spec = s /\ ~q.managed /\ ~q.suppressed /\ ~q.waited /\ ~q.ending /\ ~q.terminal
      /\ q.state # "EXITED" /\ (Over(q) => leaders' = leaders)
      /\ procs' = [procs EXCEPT ![r] = q]
      /\ leaders' \subseteq leaders \cup {e} /\ leaders \subseteq leaders' /\ domains' \subseteq domains \cup {e}
  <2>n. NoRecord \in ProcRecord
    <3>1. 0 \in 0 .. MaxExec /\ 0 \in 0 .. 2 /\ 0 \in Nat
      BY ProcAssumption
    <3> QED
      BY Zenon, <3>1 DEF NoRecord, ProcRecord, Reasons
  <2>f. /\ ~NoRecord.managed /\ ~NoRecord.suppressed /\ ~NoRecord.waited /\ ~NoRecord.ending /\ ~NoRecord.terminal
    BY DEF NoRecord
  <2>2. 2 \in 0 .. 2
    OBVIOUS
  <2>3. CASE /\ procs' = [procs EXCEPT ![r] = Launched(r, s)]
             /\ leaders' = leaders \cup {e} /\ domains' = domains \cup {e}
    <3> DEFINE b == s \in TimedSpecs
               y == [NoRecord EXCEPT !.exec = e, !.spec = s, !.state = "RUNNING", !.drains = 2, !.timed = b]
    <3>0. y = Launched(r, s)
      BY DEF Launched
    <3>1. y = Launched(r, s) /\ b \in BOOLEAN
      BY <3>0
    <3> HIDE DEF b, e
    <3>t. e \in 0 .. MaxExec /\ b \in BOOLEAN /\ s \in Specs \cup {"none"}
      BY Zenon, <3>1, <1>n
    <3>5. y \in ProcRecord
      BY Zenon, <2>n, <2>2, <3>t DEF ProcRecord
    <3>6. y.exec = e /\ y.spec = s /\ y.state = "RUNNING" /\ y.managed = NoRecord.managed
      BY Zenon, <2>n DEF ProcRecord
    <3>7. y.suppressed = NoRecord.suppressed /\ y.waited = NoRecord.waited
      BY Zenon, <2>n DEF ProcRecord
    <3>8. y.ending = NoRecord.ending /\ y.terminal = NoRecord.terminal
      BY Zenon, <2>n DEF ProcRecord
    <3>2. /\ y \in ProcRecord /\ y.exec = e /\ y.spec = s /\ y.managed = NoRecord.managed /\ y.suppressed = NoRecord.suppressed
          /\ y.waited = NoRecord.waited /\ y.ending = NoRecord.ending /\ y.terminal = NoRecord.terminal /\ y.state = "RUNNING"
      BY Zenon, <3>5, <3>6, <3>7, <3>8
    <3> HIDE DEF y
    <3>3. procs'[r] = y
      BY Zenon, <2>3, <3>1, <1>t
    <3>4. ~Over(y)
      BY Zenon, <3>2 DEF Over
    <3> QED
      BY Zenon, <2>3, <2>f, <3>1, <3>2, <3>3, <3>4
  <2>4. CASE /\ procs' = [procs EXCEPT ![r] = [NoRecord EXCEPT !.exec = e, !.spec = s, !.state = "FAILED", !.reason = "START_FAILED"]]
             /\ UNCHANGED <<leaders, domains>>
    <3> DEFINE y == [NoRecord EXCEPT !.exec = e, !.spec = s, !.state = "FAILED", !.reason = "START_FAILED"]
    <3> HIDE DEF e
    <3>t. e \in 0 .. MaxExec /\ s \in Specs \cup {"none"} /\ "START_FAILED" \in Reasons
      BY Zenon, <1>n DEF Reasons
    <3>1. y \in ProcRecord
      BY Zenon, <2>n, <3>t DEF ProcRecord
    <3>5. y.exec = e /\ y.spec = s /\ y.state = "FAILED" /\ y.managed = NoRecord.managed
      BY Zenon, <2>n DEF ProcRecord
    <3>6. y.suppressed = NoRecord.suppressed /\ y.waited = NoRecord.waited
      BY Zenon, <2>n DEF ProcRecord
    <3>7. y.ending = NoRecord.ending /\ y.terminal = NoRecord.terminal
      BY Zenon, <2>n DEF ProcRecord
    <3>2. /\ y \in ProcRecord /\ y.exec = e /\ y.spec = s /\ y.managed = NoRecord.managed /\ y.suppressed = NoRecord.suppressed
          /\ y.waited = NoRecord.waited /\ y.ending = NoRecord.ending /\ y.terminal = NoRecord.terminal /\ y.state = "FAILED"
      BY Zenon, <3>1, <3>5, <3>6, <3>7
    <3>3. procs'[r] = y
      BY Zenon, <2>4, <1>t
    <3> HIDE DEF y
    <3> QED
      BY Zenon, <2>4, <2>f, <3>2, <3>3 DEF y
  <2> QED
    BY Zenon, <2>3, <2>4 DEF Launch, Put
<1>p. procs' \in [Roles -> ProcRecord] /\ \A x \in Roles \ {r} : procs'[x] = procs[x]
  BY Zenon, <1>1, <1>t
<1> HIDE DEF q, e
<1>i. \A x \in Roles : procs[x].exec \in 0 .. execs
  <2> SUFFICES ASSUME NEW x \in Roles PROVE procs[x].exec \in 0 .. execs
    BY Zenon
  <2>1. procs[x].exec \in 0 .. MaxExec /\ procs[x].exec <= execs
    BY Zenon, RecordTypes DEF ProcRecord, RecordStanding
  <2> QED
    BY <2>1, <1>t, ProcAssumption
<1>2. /\ leaders' \subseteq 1 .. e /\ descendants' \subseteq 1 .. e /\ killed' \subseteq 1 .. e /\ domains' \subseteq 1 .. e
      /\ shut'.callbacks \subseteq 1 .. e
  BY Zenon, <1>t, <1>n, <1>x, <1>1
<1>3. OneExecutionPerKey'
  <2> SUFFICES ASSUME NEW f \in leaders' \cup descendants' PROVE \E x \in Roles : f = procs'[x].exec
    BY Zenon DEF OneExecutionPerKey
  <2>1. CASE f = e
    BY Zenon, <2>1, <1>1 DEF q
  <2>2. CASE f # e
    <3>1. f \in leaders \cup descendants
      BY Zenon, <2>2, <1>1, <1>x
    <3>2. PICK x \in Roles : f = procs[x].exec
      BY Zenon, <3>1 DEF ProcInductive, OneExecutionPerKey
    <3>3. f # 0
      <4>1. f \in 1 .. execs
        BY Zenon, <3>1, <1>t
      <4> QED
        BY <4>1, <1>t
    <3>4. x # r
      BY Zenon, <3>2, <3>3
    <3> QED
      BY Zenon, <3>2, <3>4, <1>p
  <2> QED
    BY Zenon, <2>1, <2>2
<1>4. ASSUME NEW x \in Roles PROVE RecordStanding(x)'
  <2>1. CASE x = r
    <3>1. procs'[x] = q
      BY Zenon, <2>1 DEF q
    <3>2. Shape(q) /\ q.exec <= execs' /\ InSet(q, owner'.gen, owner'.desired[x])
      <4>1. e <= e
        BY Zenon, <1>n, <1>i
      <4> QED
        BY Zenon, <4>1, <1>n, <1>x, <1>1 DEF Shape, InSet
    <3>3. Gone(q, leaders' \cup descendants', domains')
      <4>1. Over(q) => e \notin leaders' \cup descendants'
        BY Zenon, <1>1, <1>n, <1>t, <1>x
      <4> QED
        BY Zenon, <4>1, <1>1 DEF Gone
    <3>4. owner'.desired[x] # "none" => Cared(x, q, restarts', lock')
      BY Zenon, <2>1 DEF Cared
    <3> QED
      BY Zenon, <3>1, <3>2, <3>3, <3>4 DEF RecordStanding
  <2>2. CASE x # r
    <3>0. RecordStanding(x) /\ procs'[x] = procs[x] /\ procs[x].exec # e /\ procs[x].exec <= e
      BY Zenon, <2>2, <1>p, <1>i, <1>n DEF ProcInductive
    <3>1. Gone(procs'[x], leaders' \cup descendants', domains')
      <4>1. procs[x].exec \in leaders' \cup descendants' => procs[x].exec \in leaders \cup descendants
        BY Zenon, <3>0, <1>1, <1>x
      <4>2. procs[x].exec \in domains' => procs[x].exec \in domains
        BY Zenon, <3>0, <1>1
      <4> QED
        BY Zenon, <3>0, <4>1, <4>2 DEF RecordStanding, Gone
    <3>2. ~shut'.closed /\ owner'.desired[x] # "none" => Cared(x, procs'[x], restarts', lock')
      BY Zenon, <3>0 DEF RecordStanding, Cared
    <3>3. Shape(procs'[x]) /\ procs'[x].exec <= execs' /\ InSet(procs'[x], owner'.gen, owner'.desired[x])
      BY Zenon, <3>0, <1>x DEF RecordStanding
    <3> QED
      BY Zenon, <3>1, <3>2, <3>3 DEF RecordStanding
  <2> QED
    BY Zenon, <2>1, <2>2
<1>5. \A x \in Roles : lock'.at = x => LockedRecord(lock', procs'[x])
  <2>1. lock'.at = r => LockedRecord(lock', q)
    BY Zenon, <1>1, <1>n DEF LockedRecord
  <2> QED
    BY Zenon, <2>1, <1>p DEF q
<1>6. ProcInductive'
  <2>1. execs' \in 0 .. MaxExec /\ leaders' \subseteq 1 .. execs' /\ descendants' \subseteq 1 .. execs'
        /\ killed' \subseteq 1 .. execs' /\ domains' \subseteq 1 .. execs' /\ shut'.callbacks \subseteq 1 .. execs'
    BY Zenon, <1>2, <1>n, <1>x
  <2>2. owner' \in [rev : Revisions \cup {<<0, 0>>}, desired : Desires, gen : Nat] /\ restarts' \subseteq Roles /\ shut' \in ShutType
        /\ LockOK(lock', owner'.desired)
    BY Zenon, <1>t
  <2> QED
    BY Zenon, <2>1, <2>2, <1>p, <1>3, <1>4, <1>5, PartsMakeIt
<1>7. q.exec # procs[r].exec
  BY Zenon, <1>1, <1>n
<1>8. ReasonIsFirstStep
  BY Zenon, <1>7, <1>p DEF ReasonIsFirstStep, q
<1>9. SuppressedStaysStep
  <2>1. ~procs[r].suppressed
    BY <1>z DEF NoRecord
  <2> QED
    BY Zenon, <2>1, <1>p DEF SuppressedStaysStep
<1>10. StaleNeverLaunchesStep
  <2>1. \A x \in Roles : procs'[x].exec \notin {0, procs[x].exec} => x = r
    BY Zenon, <1>p
  <2> QED
    BY Zenon, <2>1, <1>1 DEF StaleNeverLaunchesStep, q
<1> QED
  BY Zenon, <1>6, <1>8, <1>9, <1>10 DEF ProcStep

\* Start, and the start of a managed service.
LEMMA StartsKeep ==
    ASSUME ProcInductive, EnsureStart \/ \E r \in Roles, s \in Specs : StartProcess(r, s)
    PROVE  ProcInductive' /\ ProcStep
<1>t. lock \in LockType /\ LockOK(lock, owner.desired) /\ \A x \in Roles : lock.at = x => LockedRecord(lock, procs[x])
  BY Zenon, ProcTypes DEF ProcInductive
<1>1. ASSUME NEW r \in Roles, NEW s \in Specs, StartProcess(r, s) PROVE ProcInductive' /\ ProcStep
  <2>1. /\ lock = Free /\ owner.desired[r] = "none" /\ procs[r].exec = 0 /\ ~shut.closed /\ Launch(r, s)
        /\ UNCHANGED <<owner, restarts, lock, shut>>
    BY Zenon, <1>1 DEF StartProcess, Exists, Admitted
  <2>2. lock'.step = "pick" /\ lock.op = "free"
    BY <2>1 DEF Free
  <2>3. /\ lock' \in LockType /\ LockOK(lock', owner.desired)
        /\ \A x \in Roles \ {r} : lock'.at = x => LockedRecord(lock', procs[x])
        /\ \A x \in Roles : LockWants(lock, x) => LockWants(lock', x)
    BY Zenon, <2>1, <1>t
  <2> QED
    BY Zenon, <2>1, <2>2, <2>3, LaunchKeeps
<1>2. CASE EnsureStart
  <2>1. lock.step = "start" /\ UNCHANGED <<owner, restarts, shut>>
    BY Zenon, <1>2 DEF EnsureStart
  <2>2. /\ lock.op = "ensure" /\ lock.at \in Roles /\ lock.stop = {} /\ lock.spec = owner.desired[lock.at] /\ lock.spec \in Specs
        /\ procs[lock.at].exec = 0
    BY Zenon, <2>1, <1>t DEF LockOK, LockedRecord
  <2>3. CASE Admitted /\ Launch(lock.at, lock.spec) /\ lock' = [lock EXCEPT !.step = "started"]
    <3>1. /\ lock' \in LockType /\ lock'.step = "started" /\ lock'.op = lock.op /\ lock'.at = lock.at /\ lock'.stop = lock.stop
          /\ lock'.start = lock.start /\ lock'.spec = lock.spec
      BY Zenon, <2>3, <1>t DEF LockType
    <3>2. LockOK(lock', owner.desired) /\ \A x \in Roles : LockWants(lock, x) => LockWants(lock', x)
      BY Zenon, <3>1, <2>2, <1>t DEF LockOK, LockWants
    <3>3. LockWants(lock', lock.at)
      BY Zenon, <3>1, <2>2 DEF LockWants
    <3>4. ~shut.closed
      BY Zenon, <2>3 DEF Admitted
    <3> QED
      BY Zenon, <3>1, <3>2, <3>3, <3>4, <2>1, <2>2, <2>3, LaunchKeeps
  <2>4. CASE /\ lock' = [lock EXCEPT !.step = "failed"]
             /\ UNCHANGED <<procs, execs, leaders, descendants, killed, domains>>
    <3>1. /\ lock' \in LockType /\ lock'.step = "failed" /\ lock'.op = lock.op /\ lock'.at = lock.at /\ lock'.stop = lock.stop
          /\ lock'.start = lock.start /\ lock'.spec = lock.spec
      BY Zenon, <2>4, <1>t DEF LockType
    <3>2. LockOK(lock', owner.desired) /\ \A x \in Roles : LockWants(lock, x) => LockWants(lock', x)
      BY Zenon, <3>1, <2>2, <1>t DEF LockOK, LockWants
    <3>3. \A x \in Roles : lock'.at = x => LockedRecord(lock', procs[x])
      BY Zenon, <3>1 DEF LockedRecord
    <3>4. \A x \in Roles : ~shut'.closed /\ owner.desired[x] # "none" => Cared(x, procs[x], restarts', lock')
      BY Zenon, <3>2, <2>1 DEF ProcInductive, RecordStanding, Cared
    <3>5. /\ leaders' \subseteq leaders /\ descendants' \subseteq leaders \cup descendants /\ killed' \subseteq 1 .. execs
          /\ restarts' \subseteq Roles /\ shut' \in ShutType /\ shut'.callbacks \subseteq 1 .. execs
      BY Zenon, <2>1, <2>4, ProcTypes
    <3> QED
      BY Zenon, <3>1, <3>2, <3>3, <3>4, <3>5, <2>1, <2>4, NoRecordChanges
  <2> QED
    BY Zenon, <1>2, <2>3, <2>4 DEF EnsureStart
<1> QED
  BY Zenon, <1>1, <1>2

\* The holder of the lock clears an ended record to make room for its successor.
LEMMA ClearKeeps ==
    ASSUME ProcInductive, NEW r \in Roles, EnsureManaged(r), ~shut.closed, ~Blocked(r)
    PROVE  ProcInductive' /\ ProcStep
<1>t. /\ procs \in [Roles -> ProcRecord] /\ owner \in [rev : Revisions \cup {<<0, 0>>}, desired : Desires, gen : Nat]
      /\ execs \in 0 .. MaxExec /\ leaders \subseteq 1 .. execs /\ descendants \subseteq 1 .. execs
      /\ killed \subseteq 1 .. execs /\ domains \subseteq 1 .. execs /\ restarts \subseteq Roles
      /\ shut \in ShutType /\ shut.callbacks \subseteq 1 .. execs /\ lock \in LockType /\ owner.desired \in Desires
  BY Zenon, ProcTypes
<1>o. LockOK(lock, owner.desired) /\ RecordStanding(r)
  BY Zenon DEF ProcInductive
<1> DEFINE st == lock.start \ {r}
           d == owner.desired[r]
<1>a. /\ lock.op = "ensure" /\ lock.stop = {} /\ lock.step = "pick" /\ r \in lock.start
      /\ lock' = [lock EXCEPT !.start = st, !.at = r, !.spec = d, !.step = "start"]
      /\ procs' = [procs EXCEPT ![r] = NoRecord]
      /\ UNCHANGED <<owner, restarts, execs, leaders, descendants, killed, domains, shut>>
  BY Zenon DEF EnsureManaged, Put, osVars
<1>d. d \in Specs /\ st \in SUBSET Roles
  <2>1. d # "none" /\ d \in Specs \cup {"none"}
    BY Zenon, <1>a, <1>o, <1>t DEF LockOK, Desires
  <2>2. lock.start \in SUBSET Roles
    BY Zenon, <1>t DEF LockType
  <2> QED
    BY Zenon, <2>1, <2>2
<1>l. /\ lock' \in LockType /\ lock'.op = "ensure" /\ lock'.stop = {} /\ lock'.step = "start" /\ lock'.at = r
      /\ lock'.spec = d /\ lock'.start = st
  <2> HIDE DEF st, d
  <2> QED
    BY Zenon, <1>a, <1>d, <1>t DEF LockType
<1>n. /\ NoRecord.exec = 0 /\ ~NoRecord.managed /\ ~NoRecord.suppressed /\ ~NoRecord.waited /\ ~NoRecord.ending
      /\ ~NoRecord.terminal /\ NoRecord.state = "none" /\ NoRecord.reason = "none"
  BY DEF NoRecord
<1>m. NoRecord \in ProcRecord
  <2>1. 0 \in 0 .. MaxExec /\ 0 \in 0 .. 2 /\ 0 \in Nat
    BY ProcAssumption
  <2> QED
    BY Zenon, <2>1 DEF NoRecord, ProcRecord, Reasons
<1>p. procs' \in [Roles -> ProcRecord] /\ procs'[r] = NoRecord /\ \A x \in Roles \ {r} : procs'[x] = procs[x]
  BY Zenon, <1>a, <1>m, <1>t
\* Nothing runs under the record, and it was not stopped by the caller.
<1>1. procs[r].exec \notin leaders \cup descendants
  <2>1. CASE procs[r].exec = 0
    <3>1. 0 \notin 1 .. execs
      BY <1>t
    <3> QED
      BY Zenon, <2>1, <3>1, <1>t
  <2>2. CASE procs[r].exec # 0
    BY Zenon, <2>2, <1>o DEF Blocked, Exists, RecordStanding, Gone
  <2> QED
    BY Zenon, <2>1, <2>2
<1>2. ~procs[r].suppressed
  <2>1. procs[r].suppressed => procs[r].exec # 0 /\ procs[r].gen = owner.gen
    BY Zenon, <1>o, NoRecordShape DEF RecordStanding, InSet
  <2> QED
    BY Zenon, <2>1 DEF Blocked, Exists
<1>3. OneExecutionPerKey'
  <2> SUFFICES ASSUME NEW f \in leaders \cup descendants PROVE \E x \in Roles : f = procs'[x].exec
    BY Zenon, <1>a DEF OneExecutionPerKey
  <2>1. PICK x \in Roles : f = procs[x].exec
    BY Zenon DEF ProcInductive, OneExecutionPerKey
  <2>2. x # r
    BY Zenon, <2>1, <1>1
  <2> QED
    BY Zenon, <2>1, <2>2, <1>p
<1>4. ASSUME NEW x \in Roles PROVE RecordStanding(x)'
  <2>1. CASE x = r
    <3>1. procs'[x] = NoRecord
      BY Zenon, <2>1, <1>p
    <3>2. 0 <= execs
      BY <1>t
    <3>3. Shape(NoRecord) /\ NoRecord.exec <= execs' /\ InSet(NoRecord, owner'.gen, owner'.desired[x])
      BY Zenon, <3>2, <1>n, <1>a DEF Shape, InSet
    <3>4. Gone(NoRecord, leaders' \cup descendants', domains')
      BY Zenon, <1>n DEF Gone, Over
    <3>5. Cared(x, NoRecord, restarts', lock')
      BY Zenon, <2>1, <1>l DEF Cared, LockWants
    <3> QED
      BY Zenon, <3>1, <3>3, <3>4, <3>5 DEF RecordStanding
  <2>2. CASE x # r
    <3>0. RecordStanding(x) /\ procs'[x] = procs[x]
      BY Zenon, <2>2, <1>p DEF ProcInductive
    <3>1. LockWants(lock, x) => LockWants(lock', x)
      BY Zenon, <2>2, <1>a, <1>l DEF LockWants
    <3>2. ~shut'.closed /\ owner'.desired[x] # "none" => Cared(x, procs'[x], restarts', lock')
      BY Zenon, <3>0, <3>1, <1>a DEF RecordStanding, Cared
    <3> QED
      BY Zenon, <3>0, <3>2, <1>a DEF RecordStanding
  <2> QED
    BY Zenon, <2>1, <2>2
<1>5. LockOK(lock', owner'.desired)
  BY Zenon, <1>l, <1>a, <1>d, <1>o DEF LockOK
<1>6. \A x \in Roles : lock'.at = x => LockedRecord(lock', procs'[x])
  BY Zenon, <1>l, <1>p, <1>n DEF LockedRecord
<1>7. ProcInductive'
  <2>1. /\ execs' \in 0 .. MaxExec /\ leaders' \subseteq 1 .. execs' /\ descendants' \subseteq 1 .. execs'
        /\ killed' \subseteq 1 .. execs' /\ domains' \subseteq 1 .. execs' /\ shut'.callbacks \subseteq 1 .. execs'
        /\ owner' \in [rev : Revisions \cup {<<0, 0>>}, desired : Desires, gen : Nat] /\ restarts' \subseteq Roles /\ shut' \in ShutType
    BY Zenon, <1>a, <1>t
  <2> QED
    BY Zenon, <2>1, <1>p, <1>l, <1>3, <1>4, <1>5, <1>6, PartsMakeIt
<1>8. ReasonIsFirstStep
  <2>1. procs'[r].exec = procs[r].exec => procs[r].reason = "none"
    BY Zenon, <1>p, <1>n, NoRecordShape
  <2> QED
    BY Zenon, <2>1, <1>p DEF ReasonIsFirstStep
<1>9. SuppressedStaysStep
  BY Zenon, <1>2, <1>p DEF SuppressedStaysStep
<1>10. StaleNeverLaunchesStep
  BY Zenon, <1>p, <1>n DEF StaleNeverLaunchesStep
<1> QED
  BY Zenon, <1>7, <1>8, <1>9, <1>10 DEF ProcStep

\* The other steps of the holder of the lock.
LEMMA HolderSteps ==
    ASSUME ProcInductive,
           \/ StopReturns \/ EnsureReturns \/ EnsureMark
           \/ \E r \in Roles : EnsureManaged(r) \/ StopObsolete(r) \/ RestartFires(r)
    PROVE  ProcInductive' /\ ProcStep
<1>t. /\ procs \in [Roles -> ProcRecord] /\ owner.gen \in Nat /\ owner.desired \in Desires
      /\ killed \subseteq 1 .. execs /\ restarts \subseteq Roles
      /\ shut \in ShutType /\ shut.callbacks \subseteq 1 .. execs /\ lock \in LockType
  BY Zenon, ProcTypes
<1>o. /\ LockOK(lock, owner.desired) /\ \A x \in Roles : lock.at = x => LockedRecord(lock, procs[x])
      /\ \A x \in Roles : ~shut.closed /\ owner.desired[x] # "none" => Cared(x, procs[x], restarts, lock)
  BY Zenon DEF ProcInductive, RecordStanding
<1>u. UNCHANGED <<owner, execs, leaders, descendants, domains, shut>>
  BY Zenon, <1>t DEF StopReturns, EnsureReturns, EnsureMark, EnsureManaged, StopObsolete, RestartFires, osVars
<1>f. Free \in LockType /\ Free.step = "pick" /\ Free.op = "free" /\ Free.start = {}
  BY DEF Free, LockType
\* A step that changes the lock, and perhaps the restarts.
<1>l. ASSUME UNCHANGED <<procs, killed>>, restarts' \subseteq Roles, lock' \in LockType, LockOK(lock', owner.desired),
             \A x \in Roles : lock'.at = x => LockedRecord(lock', procs[x]),
             \A x \in Roles : ~shut.closed /\ owner.desired[x] # "none" => Cared(x, procs[x], restarts', lock')
      PROVE  ProcInductive' /\ ProcStep
  <2>1. /\ leaders' \subseteq leaders /\ descendants' \subseteq leaders \cup descendants /\ killed' \subseteq 1 .. execs
        /\ shut' \in ShutType /\ shut'.callbacks \subseteq 1 .. execs
        /\ UNCHANGED <<procs, owner, execs, domains>>
        /\ \A x \in Roles : ~shut'.closed /\ owner.desired[x] # "none" => Cared(x, procs[x], restarts', lock')
    BY Zenon, <1>l, <1>u, <1>t
  <2> QED
    BY Zenon, <2>1, <1>l, NoRecordChanges
<1>1. CASE StopReturns \/ EnsureReturns
  <2>1. lock' = Free /\ UNCHANGED <<procs, restarts, killed>>
    BY Zenon, <1>1 DEF StopReturns, EnsureReturns
  <2>2. \A x \in Roles : ~LockWants(lock, x)
    BY Zenon, <1>1 DEF StopReturns, EnsureReturns, LockWants
  <2>3. lock' \in LockType /\ LockOK(lock', owner.desired) /\ \A x \in Roles : lock'.at = x => LockedRecord(lock', procs[x])
    BY Zenon, <2>1, <1>f DEF LockOK, LockedRecord
  <2>4. \A x \in Roles : ~shut.closed /\ owner.desired[x] # "none" => Cared(x, procs[x], restarts', lock')
    BY Zenon, <2>1, <2>2, <1>o DEF Cared
  <2> QED
    BY Zenon, <2>1, <2>3, <2>4, <1>t, <1>l
<1>2. ASSUME NEW r \in Roles, RestartFires(r) PROVE ProcInductive' /\ ProcStep
  <2>1. /\ lock = Free /\ owner.desired[r] # "none" /\ restarts' = restarts \ {r}
        /\ lock' = [Free EXCEPT !.op = "ensure", !.start = {r}] /\ UNCHANGED <<procs, killed>>
    BY Zenon, <1>2 DEF RestartFires
  <2>2. lock' \in LockType /\ lock'.op = "ensure" /\ lock'.start = {r} /\ lock'.step = "pick"
    BY Zenon, <2>1, <1>f DEF LockType
  <2>3. LockOK(lock', owner.desired) /\ \A x \in Roles : lock'.at = x => LockedRecord(lock', procs[x])
    BY Zenon, <2>1, <2>2 DEF LockOK, LockedRecord
  <2>4. \A x \in Roles : ~LockWants(lock, x)
    BY Zenon, <2>1, <1>f DEF LockWants
  <2>5. LockWants(lock', r)
    BY Zenon, <2>2 DEF LockWants
  <2>6. \A x \in Roles : ~shut.closed /\ owner.desired[x] # "none" => Cared(x, procs[x], restarts', lock')
    BY Zenon, <2>1, <2>4, <2>5, <1>o DEF Cared
  <2>7. restarts' \subseteq Roles
    BY Zenon, <2>1, <1>t
  <2> QED
    BY Zenon, <2>1, <2>2, <2>3, <2>6, <2>7, <1>l
<1>3. ASSUME NEW r \in Roles, EnsureManaged(r) PROVE ProcInductive' /\ ProcStep
  <2>1. CASE shut.closed \/ Blocked(r)
    <3> DEFINE st == lock.start \ {r}
    <3>1. /\ lock.op = "ensure" /\ lock.stop = {} /\ lock.step = "pick" /\ UNCHANGED <<procs, restarts, killed>>
          /\ lock' = [lock EXCEPT !.start = st]
      BY Zenon, <2>1, <1>3 DEF EnsureManaged
    <3>2. st \in SUBSET Roles /\ st \subseteq lock.start
      BY Zenon, <1>t DEF LockType
    <3>3. /\ lock' \in LockType /\ lock'.op = "ensure" /\ lock'.start = st /\ lock'.step = "pick"
      <4> HIDE DEF st
      <4> QED
        BY Zenon, <3>1, <3>2, <1>t DEF LockType
    <3>4. LockOK(lock', owner.desired) /\ \A x \in Roles : lock'.at = x => LockedRecord(lock', procs[x])
      BY Zenon, <3>2, <3>3, <1>o DEF LockOK, LockedRecord
    <3>5. \A x \in Roles \ {r} : LockWants(lock, x) => LockWants(lock', x)
      BY Zenon, <3>1, <3>3 DEF LockWants
    <3>6. ~shut.closed => Cared(r, procs[r], restarts', lock')
      BY Zenon, <2>1 DEF Blocked, Exists, Cared
    <3>7. \A x \in Roles : ~shut.closed /\ owner.desired[x] # "none" => Cared(x, procs[x], restarts', lock')
      BY Zenon, <3>1, <3>5, <3>6, <1>o DEF Cared
    <3> QED
      BY Zenon, <3>1, <3>3, <3>4, <3>7, <1>t, <1>l
  <2>2. CASE ~shut.closed /\ ~Blocked(r)
    BY Zenon, <2>2, <1>3, ClearKeeps
  <2> QED
    BY Zenon, <2>1, <2>2
<1>4. ASSUME NEW r \in Roles, StopObsolete(r) PROVE ProcInductive' /\ ProcStep
  <2> DEFINE st == lock.stop \ {r}
  <2>1. /\ lock.op = "ensure" /\ r \in lock.stop /\ lock' = [lock EXCEPT !.stop = st] /\ UNCHANGED restarts
    BY Zenon, <1>4 DEF StopObsolete
  <2>2. lock.step = "pick" /\ st \in SUBSET Roles
    BY Zenon, <2>1, <1>o, <1>t DEF LockOK, LockType
  <2>3. /\ lock' \in LockType /\ lock'.op = lock.op /\ lock'.start = lock.start /\ lock'.step = "pick" /\ lock'.at = lock.at
    <3> HIDE DEF st
    <3> QED
      BY Zenon, <2>1, <2>2, <1>t DEF LockType
  <2>4. LockOK(lock', owner.desired) /\ \A x : LockWants(lock, x) => LockWants(lock', x)
    BY Zenon, <2>2, <2>3, <1>o DEF LockOK, LockWants
  <2>5. CASE procs[r].state # "RUNNING"
    <3>1. UNCHANGED <<procs, killed>>
      BY Zenon, <2>5, <1>4 DEF StopObsolete
    <3>2. \A x \in Roles : lock'.at = x => LockedRecord(lock', procs[x])
      BY Zenon, <2>3 DEF LockedRecord
    <3>3. \A x \in Roles : ~shut.closed /\ owner.desired[x] # "none" => Cared(x, procs[x], restarts', lock')
      BY Zenon, <2>1, <2>4, <1>o DEF Cared
    <3> QED
      BY Zenon, <3>1, <3>2, <3>3, <2>1, <2>3, <2>4, <1>t, <1>l
  <2>6. CASE procs[r].state = "RUNNING"
    <3> DEFINE p == procs[r]
               q == Terminated(p, "TERMINATED")
    <3>1. procs' = [procs EXCEPT ![r] = q] /\ killed' = killed \cup {p.exec}
      BY Zenon, <2>6, <1>4 DEF StopObsolete, Put, ForceGroup
    <3>2. p \in ProcRecord /\ RecordStanding(r) /\ p.exec # 0 /\ p.exec \in 1 .. execs
      BY Zenon, <2>6, RecordTypes, NoRecordShape
    <3>3. /\ q \in ProcRecord /\ q.state = "STOPPING" /\ q.waited = p.waited /\ q.ending = p.ending
          /\ q.terminal = p.terminal /\ q.drains = p.drains /\ Same(q, p)
      BY Zenon, <3>2, TerminatedRecord DEF Reasons
    <3> HIDE DEF q
    <3>4. q.exec = p.exec /\ ~Over(q) /\ (q.ending => q.waited) /\ (p.reason # "none" => q.reason = p.reason)
      BY Zenon, <3>2, <3>3 DEF Same, Over, RecordStanding, Shape
    <3>5. Shape(q) /\ Gone(q, leaders \cup descendants, domains)
      BY Zenon, <3>2, <3>3, <3>4, StaysAsItWas
    <3>6. InSet(q, owner.gen, owner.desired[r])
      BY Zenon, <3>2, <3>3 DEF RecordStanding, InSet, Same
    <3>7. \A x \in Roles : lock'.at = x => LockedRecord(lock', procs'[x])
      BY Zenon, <2>3 DEF LockedRecord
    <3>8. Cared(r, q, restarts', lock')
      BY Zenon, <3>2, <3>4 DEF Cared
    <3>9. /\ killed' \subseteq 1 .. execs /\ shut' \in ShutType /\ shut'.callbacks \subseteq 1 .. execs /\ shut'.closed = shut.closed
          /\ restarts \subseteq restarts' /\ restarts' \subseteq Roles /\ domains' \subseteq domains
          /\ Gone(q, leaders \cup descendants, domains')
          /\ UNCHANGED <<owner, execs, leaders, descendants>>
      BY Zenon, <3>1, <3>2, <3>5, <2>1, <1>u, <1>t
    <3> QED
      BY Zenon, <3>1, <3>3, <3>4, <3>5, <3>6, <3>7, <3>8, <3>9, <2>3, <2>4, OneRecord
  <2> QED
    BY Zenon, <2>5, <2>6
<1>5. CASE EnsureMark
  <2> DEFINE a == lock.at
             p == procs[a]
  <2>1. /\ lock.step \in {"started", "failed"} /\ UNCHANGED killed
        /\ lock' = [lock EXCEPT !.step = "pick", !.at = "none", !.spec = "none"]
        /\ restarts' = IF ~shut.closed /\ RestartsNow(lock.step, p) THEN restarts \cup {a} ELSE restarts
    BY Zenon, <1>5 DEF EnsureMark
  <2>2. /\ lock.op = "ensure" /\ a \in Roles /\ lock.spec = owner.desired[a]
        /\ LockedRecord(lock, p)
    BY Zenon, <2>1, <1>o DEF LockOK
  <2>3. /\ lock' \in LockType /\ lock'.op = lock.op /\ lock'.start = lock.start /\ lock'.step = "pick"
    BY Zenon, <2>1, <1>t DEF LockType
  <2>4. LockOK(lock', owner.desired) /\ \A x \in Roles \ {a} : LockWants(lock, x) => LockWants(lock', x)
    BY Zenon, <2>3, <1>o DEF LockOK, LockWants
  <2>5. restarts \subseteq restarts' /\ restarts' \subseteq Roles
    BY Zenon, <2>1, <2>2, <1>t
  <2>6. CASE lock.step = "failed"
    <3>1. UNCHANGED procs
      BY Zenon, <2>6, <1>5 DEF EnsureMark
    <3>2. ~shut.closed => a \in restarts'
      BY Zenon, <2>1, <2>6 DEF RestartsNow
    <3>3. \A x \in Roles : lock'.at = x => LockedRecord(lock', procs[x])
      BY Zenon, <2>3 DEF LockedRecord
    <3>4. \A x \in Roles : ~shut.closed /\ owner.desired[x] # "none" => Cared(x, procs[x], restarts', lock')
      BY Zenon, <3>2, <2>4, <2>5, <1>o DEF Cared
    <3> QED
      BY Zenon, <3>1, <3>3, <3>4, <2>1, <2>3, <2>4, <2>5, <1>l
  <2>7. CASE lock.step = "started"
    <3> DEFINE g == owner.gen
               q == [p EXCEPT !.managed = TRUE, !.gen = g]
    <3>1. procs' = [procs EXCEPT ![a] = q]
      BY Zenon, <2>7, <1>5 DEF EnsureMark, Put
    <3>2. p \in ProcRecord /\ RecordStanding(a) /\ p.exec # 0 /\ p.spec = lock.spec /\ ~p.suppressed
      BY Zenon, <2>2, <2>7, RecordTypes DEF LockedRecord
    <3>3. /\ q \in ProcRecord /\ q.exec = p.exec /\ q.spec = p.spec /\ q.gen = g /\ q.suppressed = p.suppressed
          /\ q.state = p.state /\ q.waited = p.waited /\ q.ending = p.ending /\ q.terminal = p.terminal /\ q.drains = p.drains
          /\ q.reason = p.reason
      BY Zenon, <3>2, <1>t DEF ProcRecord
    <3> HIDE DEF q, p, a
    <3>4. InSet(q, owner.gen, owner.desired[a])
      BY Zenon, <3>2, <3>3, <2>2 DEF InSet
    <3>5. q.ending => q.waited
      BY Zenon, <3>2, <3>3 DEF RecordStanding, Shape, p
    <3>6. Shape(q) /\ Gone(q, leaders \cup descendants, domains)
      BY Zenon, <3>2, <3>3, <3>5, <2>2, StaysAsItWas DEF p
    <3>7. \A x \in Roles : lock'.at = x => LockedRecord(lock', procs'[x])
      BY Zenon, <2>3 DEF LockedRecord
    <3>8. ~shut.closed => Cared(a, q, restarts', lock')
      <4>1. ~shut.closed /\ Over(p) => a \in restarts'
        BY Zenon, <2>1 DEF RestartsNow
      <4>2. Over(q) => Over(p)
        BY Zenon, <3>3 DEF Over
      <4> QED
        BY Zenon, <4>1, <4>2, <3>2, <3>3 DEF Cared
    <3>9. /\ killed' \subseteq 1 .. execs /\ shut' \in ShutType /\ shut'.callbacks \subseteq 1 .. execs /\ shut'.closed = shut.closed
          /\ domains' \subseteq domains /\ Gone(q, leaders \cup descendants, domains')
          /\ UNCHANGED <<owner, execs, leaders, descendants>>
          /\ q.exec = procs[a].exec /\ (procs[a].reason # "none" => q.reason = procs[a].reason)
      BY Zenon, <3>3, <3>6, <2>1, <1>u, <1>t DEF p
    <3> QED
      BY Zenon, <3>1, <3>3, <3>4, <3>6, <3>7, <3>8, <3>9, <2>2, <2>3, <2>4, <2>5, OneRecord
  <2> QED
    BY Zenon, <2>1, <2>6, <2>7
<1> QED
  BY Zenon, <1>1, <1>2, <1>3, <1>4, <1>5

\* A record under a new desired set.
LEMMA AdoptedRecord ==
    ASSUME ProcInductive, NEW r \in Roles, NEW desired \in Desires, NEW g \in Nat
    PROVE  LET p == procs[r]
               q == Adopted(r, desired, g)
           IN  /\ q \in ProcRecord /\ InSet(q, g, desired[r]) /\ (Keeps(r, desired) => q.exec # 0)
               /\ q.exec = p.exec /\ q.reason = p.reason /\ q.state = p.state
               /\ q.waited = p.waited /\ q.ending = p.ending /\ q.terminal = p.terminal /\ q.drains = p.drains
<1> DEFINE p == procs[r]
<1>s. p \in ProcRecord /\ RecordStanding(r)
  BY Zenon, RecordTypes
<1>k. Keeps(r, desired) => p.exec # 0
  BY Zenon, NoRecordShape DEF Keeps
<1>1. CASE ~Exists(r)
  <2>1. p = NoRecord
    BY Zenon, <1>1, <1>s DEF Exists, RecordStanding, Shape
  <2>2. Adopted(r, desired, g) = p
    BY Zenon, <1>1, <2>1 DEF Adopted
  <2>3. ~p.managed /\ ~p.suppressed
    BY <2>1 DEF NoRecord
  <2>4. InSet(p, g, desired[r])
    BY Zenon, <2>3 DEF InSet
  <2> QED
    BY Zenon, <2>2, <2>4, <1>s, <1>k
<1>2. CASE Exists(r) /\ Keeps(r, desired)
  <2> DEFINE q == [p EXCEPT !.gen = g]
  <2>1. Adopted(r, desired, g) = q
    BY Zenon, <1>2 DEF Adopted
  <2>2. /\ q \in ProcRecord /\ q.gen = g /\ q.spec = p.spec /\ q.managed = p.managed /\ q.suppressed = p.suppressed
        /\ q.exec = p.exec /\ q.reason = p.reason /\ q.state = p.state
        /\ q.waited = p.waited /\ q.ending = p.ending /\ q.terminal = p.terminal /\ q.drains = p.drains
    BY Zenon, <1>s DEF ProcRecord
  <2> HIDE DEF q
  <2>3. p.managed /\ p.spec = desired[r] /\ ~p.suppressed
    BY Zenon, <1>2, <1>s DEF Keeps, RecordStanding, InSet
  <2>4. InSet(q, g, desired[r])
    BY Zenon, <2>2, <2>3 DEF InSet
  <2> QED
    BY Zenon, <2>1, <2>2, <2>4, <1>k
<1>3. CASE Exists(r) /\ ~Keeps(r, desired)
  <2> DEFINE q == [p EXCEPT !.managed = FALSE, !.suppressed = FALSE]
  <2>1. Adopted(r, desired, g) = q
    BY Zenon, <1>3 DEF Adopted
  <2>2. /\ q \in ProcRecord /\ ~q.managed /\ ~q.suppressed
        /\ q.exec = p.exec /\ q.reason = p.reason /\ q.state = p.state
        /\ q.waited = p.waited /\ q.ending = p.ending /\ q.terminal = p.terminal /\ q.drains = p.drains
    BY Zenon, <1>s DEF ProcRecord
  <2> HIDE DEF q
  <2>4. InSet(q, g, desired[r])
    BY Zenon, <2>2 DEF InSet
  <2> QED
    BY Zenon, <2>1, <2>2, <2>4, <1>3
<1> QED
  BY Zenon, <1>1, <1>2, <1>3

\* A new desired set: what it does not find running as it is to be is put on the list.
LEMMA ReconcileKeeps ==
    ASSUME ProcInductive, NEW rev \in Revisions, NEW desired \in Desires, ReconcileManagedServices(rev, desired)
    PROVE  ProcInductive' /\ ProcStep
<1> DEFINE g == owner.gen + 1
           wanted == {r \in Roles : desired[r] # "none"}
           sp == {r \in Roles : procs[r].state = "RUNNING" /\ ~Keeps(r, desired)}
           st == {r \in wanted : ~Keeps(r, desired) \/ Over(procs[r])}
<1>t. /\ procs \in [Roles -> ProcRecord] /\ owner.gen \in Nat
      /\ execs \in 0 .. MaxExec /\ leaders \subseteq 1 .. execs /\ descendants \subseteq 1 .. execs
      /\ killed \subseteq 1 .. execs /\ domains \subseteq 1 .. execs
      /\ shut \in ShutType /\ shut.callbacks \subseteq 1 .. execs
  BY Zenon, ProcTypes
<1>a. /\ lock = Free /\ owner' = [rev |-> rev, desired |-> desired, gen |-> g] /\ restarts' = {}
      /\ procs' = [r \in Roles |-> Adopted(r, desired, g)]
      /\ lock' = [Free EXCEPT !.op = "ensure", !.stop = sp, !.start = st]
      /\ UNCHANGED <<execs, leaders, descendants, killed, domains, shut>>
  BY Zenon DEF ReconcileManagedServices, osVars
<1>g. g \in Nat /\ g # owner.gen
  BY <1>t
<1>s. sp \in SUBSET Roles /\ st \in SUBSET Roles
  BY Zenon
<1>m. \A r \in Roles : desired[r] # "none" /\ r \notin st => Keeps(r, desired) /\ ~Over(procs[r])
  BY Zenon
<1>d. \A r \in st : desired[r] # "none"
  BY Zenon
<1> HIDE DEF g, sp, st
<1>o. owner' \in [rev : Revisions \cup {<<0, 0>>}, desired : Desires, gen : Nat] /\ owner'.desired = desired /\ owner'.gen = g
  BY Zenon, <1>a, <1>g
<1>f. Free \in LockType /\ Free.step = "pick"
  BY DEF Free, LockType
<1>l. lock' \in LockType /\ lock'.op = "ensure" /\ lock'.step = "pick" /\ lock'.start = st
  BY Zenon, <1>a, <1>s, <1>f DEF LockType
<1>q. ASSUME NEW r \in Roles
      PROVE  /\ procs'[r] \in ProcRecord /\ InSet(procs'[r], g, desired[r]) /\ (Keeps(r, desired) => procs'[r].exec # 0)
             /\ procs'[r].exec = procs[r].exec /\ procs'[r].reason = procs[r].reason /\ procs'[r].state = procs[r].state
             /\ procs'[r].waited = procs[r].waited /\ procs'[r].ending = procs[r].ending
             /\ procs'[r].terminal = procs[r].terminal /\ procs'[r].drains = procs[r].drains
             /\ (procs[r].exec = 0 => procs'[r] = NoRecord)
  <2>1. procs'[r] = Adopted(r, desired, g)
    BY Zenon, <1>a
  <2>2. procs[r].exec = 0 => Adopted(r, desired, g) = NoRecord
    BY Zenon DEF Adopted, Exists
  <2> DEFINE q == Adopted(r, desired, g)
  <2>3. /\ q \in ProcRecord /\ InSet(q, g, desired[r]) /\ (Keeps(r, desired) => q.exec # 0)
        /\ q.exec = procs[r].exec /\ q.reason = procs[r].reason /\ q.state = procs[r].state
        /\ q.waited = procs[r].waited /\ q.ending = procs[r].ending
        /\ q.terminal = procs[r].terminal /\ q.drains = procs[r].drains
    BY Zenon, <1>g, AdoptedRecord
  <2>4. q = procs'[r]
    BY Zenon, <2>1
  <2> HIDE DEF q
  <2> QED
    BY Zenon, <2>1, <2>2, <2>3, <2>4
<1>1. procs' \in [Roles -> ProcRecord]
  BY Zenon, <1>q, <1>a
<1>2. OneExecutionPerKey'
  <2>1. \A e \in leaders \cup descendants : \E x \in Roles : e = procs[x].exec
    BY Zenon DEF ProcInductive, OneExecutionPerKey
  <2>2. \A e \in leaders \cup descendants : \E x \in Roles : e = procs'[x].exec
    BY Zenon, <2>1, <1>q
  <2> QED
    BY Zenon, <2>2, <1>a DEF OneExecutionPerKey
<1>3. ASSUME NEW r \in Roles PROVE RecordStanding(r)'
  <2>0. RecordStanding(r)
    BY Zenon DEF ProcInductive
  <2>1. Shape(procs'[r]) /\ procs'[r].exec <= execs'
    BY Zenon, <2>0, <1>q, <1>a DEF RecordStanding, Shape
  <2>2. Gone(procs'[r], leaders' \cup descendants', domains')
    BY Zenon, <2>0, <1>q, <1>a DEF RecordStanding, Gone, Over
  <2>3. InSet(procs'[r], owner'.gen, owner'.desired[r])
    BY Zenon, <1>q, <1>o
  <2>4. owner'.desired[r] # "none" => Cared(r, procs'[r], restarts', lock')
    <3>1. CASE r \in st
      BY Zenon, <3>1, <1>l DEF Cared, LockWants
    <3>2. CASE r \notin st
      <4>1. desired[r] # "none" => procs'[r].exec # 0 /\ ~Over(procs'[r])
        BY Zenon, <3>2, <1>m, <1>q DEF Over
      <4> QED
        BY Zenon, <4>1, <1>o DEF Cared
    <3> QED
      BY Zenon, <3>1, <3>2
  <2> QED
    BY Zenon, <2>1, <2>2, <2>3, <2>4 DEF RecordStanding
<1>4. LockOK(lock', owner'.desired) /\ \A r \in Roles : lock'.at = r => LockedRecord(lock', procs'[r])
  BY Zenon, <1>l, <1>o, <1>d DEF LockOK, LockedRecord
<1>5. /\ restarts' \subseteq Roles /\ execs' \in 0 .. MaxExec /\ leaders' \subseteq 1 .. execs' /\ descendants' \subseteq 1 .. execs'
      /\ killed' \subseteq 1 .. execs' /\ domains' \subseteq 1 .. execs' /\ shut' \in ShutType
      /\ shut'.callbacks \subseteq 1 .. execs'
  BY Zenon, <1>a, <1>t
<1>6. ProcInductive'
  BY Zenon, <1>1, <1>2, <1>3, <1>4, <1>5, <1>l, <1>o, PartsMakeIt
<1>7. ReasonIsFirstStep /\ SuppressedStaysStep /\ StaleNeverLaunchesStep
  BY Zenon, <1>q DEF ReasonIsFirstStep, SuppressedStaysStep, StaleNeverLaunchesStep
<1> QED
  BY Zenon, <1>6, <1>7 DEF ProcStep

\* The daemon's Close, and the processes themselves.
LEMMA QuietSteps ==
    ASSUME ProcInductive,
           \/ CloseContext \/ SupervisorClose \/ SupervisorForces \/ CloseReturns
           \/ \E e \in 1 .. execs : LeaderExits(e) \/ Forks(e) \/ DescendantsExit(e)
    PROVE  ProcInductive' /\ ProcStep
<1>t. /\ killed \subseteq 1 .. execs /\ domains \subseteq 1 .. execs /\ restarts \subseteq Roles /\ execs \in 0 .. MaxExec
      /\ shut \in ShutType /\ shut.callbacks \subseteq 1 .. execs /\ lock \in LockType
  BY Zenon, ProcTypes
<1>o. /\ LockOK(lock, owner.desired) /\ \A x \in Roles : lock.at = x => LockedRecord(lock, procs[x])
      /\ \A x \in Roles : ~shut.closed /\ owner.desired[x] # "none" => Cared(x, procs[x], restarts, lock)
  BY Zenon DEF ProcInductive, RecordStanding
<1>u. UNCHANGED <<procs, owner, lock, execs, domains>>
  BY Zenon DEF CloseContext, SupervisorClose, SupervisorForces, CloseReturns, LeaderExits, Forks, DescendantsExit
<1>g. leaders' \subseteq leaders /\ descendants' \subseteq leaders \cup descendants
  BY Zenon DEF CloseContext, SupervisorClose, SupervisorForces, CloseReturns, LeaderExits, Forks, DescendantsExit, osVars
<1>k. killed' \subseteq 1 .. execs
  BY Zenon, <1>t DEF CloseContext, SupervisorClose, SupervisorForces, CloseReturns, LeaderExits, Forks, DescendantsExit
<1>d. domains \in SUBSET Nat
  <2>1. 1 .. execs \subseteq Nat
    BY <1>t
  <2> QED
    BY Zenon, <2>1, <1>t
<1>h. /\ shut' \in ShutType /\ shut'.callbacks \subseteq 1 .. execs
      /\ shut'.closed \/ (shut'.closed = shut.closed /\ UNCHANGED restarts)
      /\ restarts' \subseteq Roles
  <2>1. CASE CloseContext
    BY Zenon, <2>1, <1>t DEF CloseContext, ShutType
  <2>2. CASE SupervisorClose
    BY Zenon, <2>2, <1>t, <1>d DEF SupervisorClose, ShutType
  <2>3. CASE SupervisorForces
    BY Zenon, <2>3, <1>t DEF SupervisorForces, ShutType
  <2>4. CASE CloseReturns
    BY Zenon, <2>4, <1>t DEF CloseReturns, ShutType
  <2>5. CASE \E e \in 1 .. execs : LeaderExits(e) \/ Forks(e) \/ DescendantsExit(e)
    BY Zenon, <2>5, <1>t DEF LeaderExits, Forks, DescendantsExit
  <2> QED
    BY Zenon, <2>1, <2>2, <2>3, <2>4, <2>5
<1>1. \A x \in Roles : ~shut'.closed /\ owner.desired[x] # "none" => Cared(x, procs[x], restarts', lock')
  BY Zenon, <1>h, <1>u, <1>o
<1>2. lock' \in LockType /\ LockOK(lock', owner.desired) /\ \A x \in Roles : lock'.at = x => LockedRecord(lock', procs[x])
  BY Zenon, <1>u, <1>t, <1>o
<1> QED
  BY Zenon, <1>u, <1>g, <1>k, <1>h, <1>1, <1>2, NoRecordChanges

\* Every step of the process table.
LEMMA ProcNextKeeps ==
    ASSUME ProcInductive, ProcNext
    PROVE  ProcInductive' /\ ProcStep
<1>1. ASSUME NEW r \in Roles,
             \/ \E s \in Specs : StartProcess(r, s)
             \/ \E mode \in StopModes : StopProcess(r, mode)
             \/ Wait(r) \/ FinalizeWait(r) \/ Drain(r) \/ TimeoutFires(r) \/ GraceFires(r)
             \/ StopObsolete(r) \/ RestartFires(r) \/ EnsureManaged(r) \/ ShutdownManaged(r)
      PROVE  ProcInductive' /\ ProcStep
  BY Zenon, <1>1, StartsKeep, StopKeeps, WaitKeeps, EndingsKeep, TimersKeep, HolderSteps, ShutdownKeeps
<1>2. CASE \E rev \in Revisions, desired \in Desires : ReconcileManagedServices(rev, desired)
  BY Zenon, <1>2, ReconcileKeeps
<1>3. CASE StopReturns \/ EnsureStart \/ EnsureMark \/ EnsureReturns
  BY Zenon, <1>3, HolderSteps, StartsKeep
<1>4. CASE \/ CloseContext \/ SupervisorClose \/ SupervisorForces \/ CloseReturns
           \/ \E e \in 1 .. execs : LeaderExits(e) \/ Forks(e) \/ DescendantsExit(e)
  BY Zenon, <1>4, QuietSteps
<1> QED
  BY Zenon, <1>1, <1>2, <1>3, <1>4 DEF ProcNext

\* ProcInductive holds initially and every step keeps it, whatever waiters, drains, timers,
\* desired sets and the daemon's Close come between two sections of one call.
THEOREM ProcessesAreInductive == ProcSpec => []ProcInductive
<1>1. ProcInit => ProcInductive
  <2> SUFFICES ASSUME ProcInit PROVE ProcInductive
    BY Zenon
  <2>1. 0 \in 0 .. MaxExec /\ 0 \in 0 .. 2 /\ 0 \in Nat /\ 0 <= 0
    BY ProcAssumption
  <2>2. NoRecord \in ProcRecord
    BY Zenon, <2>1 DEF NoRecord, ProcRecord, Reasons
  <2>3. /\ NoRecord.exec = 0 /\ ~NoRecord.managed /\ ~NoRecord.suppressed /\ ~NoRecord.waited /\ ~NoRecord.ending
        /\ ~NoRecord.terminal /\ NoRecord.state = "none"
    BY DEF NoRecord
  <2>4. Free \in LockType /\ Free.step = "pick" /\ Free.start = {}
    BY DEF Free, LockType
  <2>5. owner \in [rev : Revisions \cup {<<0, 0>>}, desired : Desires, gen : Nat] /\ \A r \in Roles : owner.desired[r] = "none"
    BY DEF ProcInit, Desires
  <2>6. shut \in ShutType /\ shut.callbacks = {}
    BY DEF ProcInit, ShutType
  <2>7. ProcTypeOK
    BY Zenon, <2>1, <2>2, <2>4, <2>5, <2>6 DEF ProcInit, ProcTypeOK, LockType, ShutType
  <2>8. OneExecutionPerKey
    BY Zenon DEF ProcInit, OneExecutionPerKey
  <2>9. \A r \in Roles : procs[r] = NoRecord
    BY Zenon DEF ProcInit
  <2>10. Shape(NoRecord) /\ InSet(NoRecord, owner.gen, "none") /\ Gone(NoRecord, leaders \cup descendants, domains)
    BY Zenon, <2>3 DEF Shape, InSet, Gone, Over
  <2>11. \A r \in Roles : RecordStanding(r)
    BY Zenon, <2>1, <2>3, <2>5, <2>9, <2>10 DEF RecordStanding, ProcInit
  <2>12. LockOK(lock, owner.desired) /\ \A r \in Roles : lock.at = r => LockedRecord(lock, procs[r])
    BY Zenon, <2>4 DEF ProcInit, LockOK, LockedRecord
  <2> QED
    BY Zenon, <2>6, <2>7, <2>8, <2>11, <2>12 DEF ProcInductive
<1>2. ProcInductive /\ [ProcNext]_procVars => ProcInductive'
  <2>1. ASSUME ProcInductive, UNCHANGED procVars PROVE ProcInductive'
    <3>1. UNCHANGED <<procs, owner, restarts, lock, execs, leaders, descendants, killed, domains, shut>>
      BY Zenon, <2>1 DEF procVars
    <3>2. OneExecutionPerKey'
      <4>1. OneExecutionPerKey
        BY Zenon, <2>1 DEF ProcInductive
      <4> QED
        BY Zenon, <4>1, <3>1 DEF OneExecutionPerKey
    <3>5. /\ procs \in [Roles -> ProcRecord] /\ owner \in [rev : Revisions \cup {<<0, 0>>}, desired : Desires, gen : Nat]
          /\ restarts \subseteq Roles /\ lock \in LockType /\ execs \in 0 .. MaxExec
          /\ leaders \subseteq 1 .. execs /\ descendants \subseteq 1 .. execs
          /\ killed \subseteq 1 .. execs /\ domains \subseteq 1 .. execs
          /\ shut \in ShutType /\ shut.callbacks \subseteq 1 .. execs
      BY Zenon, <2>1, ProcTypes
    <3>6. /\ procs' \in [Roles -> ProcRecord] /\ owner' \in [rev : Revisions \cup {<<0, 0>>}, desired : Desires, gen : Nat]
          /\ restarts' \subseteq Roles /\ lock' \in LockType /\ execs' \in 0 .. MaxExec
          /\ leaders' \subseteq 1 .. execs' /\ descendants' \subseteq 1 .. execs'
          /\ killed' \subseteq 1 .. execs' /\ domains' \subseteq 1 .. execs'
          /\ shut' \in ShutType /\ shut'.callbacks \subseteq 1 .. execs'
      BY Zenon, <3>1, <3>5
    <3>3. LockOK(lock', owner'.desired) /\ \A r \in Roles : lock'.at = r => LockedRecord(lock', procs'[r])
      BY Zenon, <2>1, <3>1 DEF ProcInductive
    <3>4. ASSUME NEW r \in Roles PROVE RecordStanding(r)'
      <4>1. RecordStanding(r)
        BY Zenon, <2>1 DEF ProcInductive
      <4> QED
        BY Zenon, <3>1, <4>1 DEF RecordStanding
    <3> QED
      BY Zenon, <3>2, <3>3, <3>4, <3>6, PartsMakeIt
  <2> QED
    BY Zenon, <2>1, ProcNextKeeps
<1> QED
  BY <1>1, <1>2, PTL DEF ProcSpec

\* sandboxd's processes, for any roles, specs and revisions: no record is replaced while its
\* group runs, EXITED means reaped, drained and fenced, no desired service is forgotten, and
\* no step changes a recorded reason, launches for an older revision or lifts a suppression.
THEOREM ProcessesAreCorrect == ProcSpec => ProcCorrect
<1>1. ProcInductive => ProcTypeOK /\ OneExecutionPerKey /\ ExitedIsGone /\ NoServiceForgotten
  <2> SUFFICES ASSUME ProcInductive PROVE ExitedIsGone /\ NoServiceForgotten
    BY Zenon DEF ProcInductive
  <2>1. ExitedIsGone
    BY Zenon DEF ProcInductive, RecordStanding, Shape, Gone, ExitedIsGone, GroupRuns, Over
  <2>2. lock = Free => \A r \in Roles : ~LockWants(lock, r)
    BY DEF Free, LockWants
  <2>3. NoServiceForgotten
    BY Zenon, <2>2 DEF ProcInductive, RecordStanding, Cared, NoServiceForgotten, Exists
  <2> QED
    BY Zenon, <2>1, <2>3
<1>2. ProcInductive /\ [ProcNext]_procVars => [ReasonIsFirstStep]_procVars
  BY Zenon, ProcNextKeeps DEF ProcStep
<1>3. ProcInductive /\ [ProcNext]_procVars => [StaleNeverLaunchesStep]_procVars
  BY Zenon, ProcNextKeeps DEF ProcStep
<1>4. ProcInductive /\ [ProcNext]_procVars => [SuppressedStaysStep]_procVars
  BY Zenon, ProcNextKeeps DEF ProcStep
<1> QED
  BY <1>1, <1>2, <1>3, <1>4, ProcessesAreInductive, PTL
  DEF ProcSpec, ProcCorrect, ProcSteps, ReasonIsFirst, StaleNeverLaunches, SuppressedStays

(* ---- one exec call ---------------------------------------------------- *)

\* A queued chunk, and the queue.
ChunkType == [stream : Streams, offset : Nat, size : ChunkSizes]
QueueType == [dispatcher : {"running", "failed", "done"}, chunks : Seq(ChunkType)]

ExecTyped ==
    /\ xcmd \in CmdType /\ xconn \in ConnType /\ xout \in [Streams -> OutType] /\ xqueue \in QueueType
    /\ Len(xqueue.chunks) <= QueueSize

\* Who may still run, and whose pipes may still be open, at each step of the handler.
HandlerStanding ==
    /\ xcmd.step # "running" => ~xcmd.leader
    /\ xcmd.step \notin {"running", "reaped"} => ~xcmd.others
    /\ xcmd.step = "closing" \/ xcmd.exit => \A i \in Streams : ~xout[i].open
    /\ xcmd.exit => xcmd.step = "done"

\* What the client was sent or told of, up to the dispatcher's position or, after the final
\* gap chunks, to the end.
Accounted(i) ==
    /\ xout[i].next <= xout[i].produced
    /\ xout[i].got + xout[i].lost = IF xcmd.exit THEN xout[i].produced ELSE xout[i].next

\* A queue holds pieces of what was produced past the dispatcher's position, in order.
QueueOK(q, out) ==
    /\ \A k \in 1 .. Len(q) :
        out[q[k].stream].next <= q[k].offset /\ q[k].offset + q[k].size <= out[q[k].stream].produced
    /\ \A k, l \in 1 .. Len(q) :
        k < l /\ q[k].stream = q[l].stream => q[k].offset + q[k].size <= q[l].offset
QueueStanding == QueueOK(xqueue.chunks, xout)

\* What stands in every reachable state of ExecStream.
ExecInductive ==
    ExecTyped /\ HandlerStanding /\ (\A i \in Streams : Accounted(i)) /\ QueueStanding

\* The parts of the types.
LEMMA ExecTypes ==
    ASSUME ExecTyped
    PROVE  /\ \A i \in Streams : xout[i] \in OutType
           /\ \A i \in Streams : xout[i].produced \in Nat /\ xout[i].next \in Nat /\ xout[i].got \in Nat /\ xout[i].lost \in Nat
           /\ xqueue.chunks \in Seq(ChunkType) /\ Len(xqueue.chunks) \in Nat
           /\ \A k \in 1 .. Len(xqueue.chunks) : xqueue.chunks[k] \in ChunkType
           /\ xqueue.dispatcher \in {"running", "failed", "done"}
<1>1. xout \in [Streams -> OutType] /\ xqueue \in QueueType
  BY Zenon DEF ExecTyped
<1>2. xqueue.chunks \in Seq(ChunkType) /\ xqueue.dispatcher \in {"running", "failed", "done"}
  BY Zenon, <1>1 DEF QueueType
<1>3. \A k \in 1 .. Len(xqueue.chunks) : xqueue.chunks[k] \in ChunkType
  BY <1>2
<1>4. Len(xqueue.chunks) \in Nat
  BY <1>2
<1>5. \A i \in Streams : xout[i] \in OutType
  BY Zenon, <1>1
<1>6. \A i \in Streams : xout[i].produced \in Nat /\ xout[i].next \in Nat /\ xout[i].got \in Nat /\ xout[i].lost \in Nat
  BY Zenon, <1>5 DEF OutType
<1> QED
  BY Zenon, <1>2, <1>3, <1>4, <1>5, <1>6

\* The numbers of a chunk.
LEMMA ChunkTypes ==
    ASSUME NEW c \in ChunkType
    PROVE  c.stream \in Streams /\ c.offset \in Nat /\ c.size \in Nat \ {0}
<1>1. c.stream \in Streams /\ c.offset \in Nat /\ c.size \in ChunkSizes
  BY Zenon DEF ChunkType
<1>2. ChunkSizes \subseteq Nat \ {0}
  BY ExecAssumption
<1> QED
  BY Zenon, <1>1, <1>2

\* A step of the handler, of the listeners or of the processes that touches no output keeps
\* the invariant if it keeps the handler's part.
LEMMA CommandKeeps ==
    ASSUME ExecInductive, UNCHANGED <<xout, xqueue>>, xcmd' \in CmdType, xconn' \in ConnType,
           xcmd'.exit = xcmd.exit, HandlerStanding'
    PROVE  ExecInductive'
<1>1. ExecTyped'
  BY Zenon DEF ExecInductive, ExecTyped
<1>2. \A i \in Streams : Accounted(i)'
  BY Zenon DEF ExecInductive, Accounted
<1>3. QueueStanding'
  BY Zenon DEF ExecInductive, QueueStanding, QueueOK
<1> QED
  BY Zenon, <1>1, <1>2, <1>3 DEF ExecInductive

\* What deliverCause does to the command.
LEMMA CauseDelivered ==
    ASSUME xcmd \in CmdType, NEW cause \in Controls \cup {"TIMEOUT", "DISCONNECTED"}, NEW force \in BOOLEAN,
           DeliverCause(cause, force)
    PROVE  /\ xcmd' \in CmdType /\ xcmd'.exit = xcmd.exit /\ xcmd'.step = xcmd.step
           /\ xcmd'.leader = xcmd.leader /\ xcmd'.others = xcmd.others /\ ExecCauseIsFirstStep
<1>1. CASE xcmd.cause # "none"
  BY Zenon, <1>1 DEF DeliverCause, ExecCauseIsFirstStep
<1>2. CASE xcmd.cause = "none"
  <2> DEFINE k == xcmd.killed \/ force
  <2>1. xcmd' = [xcmd EXCEPT !.cause = cause, !.killed = k] /\ k \in BOOLEAN
    BY Zenon, <1>2 DEF DeliverCause
  <2> HIDE DEF k
  <2> QED
    BY Zenon, <2>1, <1>2 DEF CmdType, ExecCauseIsFirstStep
<1> QED
  BY Zenon, <1>1, <1>2

\* The handler, its timeout and the daemon's Close.
LEMMA HandlerSteps ==
    ASSUME ExecInductive,
           ExecStart \/ ExecTimeout \/ ExecDaemonCloses \/ ExecReap \/ ExecFence \/ ExecDrained
    PROVE  ExecInductive' /\ ExecCauseIsFirstStep
<1>t. xcmd \in CmdType /\ xconn \in ConnType /\ HandlerStanding
  BY Zenon DEF ExecInductive, ExecTyped
<1>u. UNCHANGED <<xconn, xout, xqueue>>
  BY Zenon DEF ExecStart, ExecTimeout, ExecDaemonCloses, ExecReap, ExecFence, ExecDrained
<1>1. CASE ExecStart
  <2>1. CASE xcmd' = [xcmd EXCEPT !.step = "running", !.leader = TRUE]
    <3>1. /\ xcmd' \in CmdType /\ xcmd'.exit = xcmd.exit /\ xcmd'.cause = xcmd.cause
          /\ xcmd'.step = "running"
      BY Zenon, <2>1, <1>t DEF CmdType
    <3>2. HandlerStanding'
      BY Zenon, <3>1, <1>1, <1>t DEF HandlerStanding, ExecStart
    <3> QED
      BY Zenon, <3>1, <3>2, <1>t, <1>u, CommandKeeps DEF ExecCauseIsFirstStep
  <2>2. CASE xcmd' = [xcmd EXCEPT !.step = "done"]
    <3>1. /\ xcmd' \in CmdType /\ xcmd'.exit = xcmd.exit /\ xcmd'.cause = xcmd.cause
          /\ xcmd'.step = "done" /\ xcmd'.leader = xcmd.leader /\ xcmd'.others = xcmd.others
      BY Zenon, <2>2, <1>t DEF CmdType
    <3>2. HandlerStanding'
      BY Zenon, <3>1, <1>1, <1>t, <1>u DEF HandlerStanding, ExecStart
    <3> QED
      BY Zenon, <3>1, <3>2, <1>t, <1>u, CommandKeeps DEF ExecCauseIsFirstStep
  <2> QED
    BY Zenon, <1>1, <2>1, <2>2 DEF ExecStart
<1>2. CASE ExecTimeout
  <2>1. /\ xcmd' \in CmdType /\ xcmd'.exit = xcmd.exit /\ xcmd'.step = xcmd.step
        /\ xcmd'.leader = xcmd.leader /\ xcmd'.others = xcmd.others /\ ExecCauseIsFirstStep
    <3>1. CASE xcmd.cause = "none"
      BY Zenon, <3>1, <1>2, <1>t, CauseDelivered DEF ExecTimeout, KillFor
    <3>2. CASE xcmd.cause # "none"
      <4>1. xcmd' = [xcmd EXCEPT !.timed = FALSE]
        BY Zenon, <3>2, <1>2 DEF ExecTimeout
      <4> QED
        BY Zenon, <4>1, <1>t DEF CmdType, ExecCauseIsFirstStep
    <3> QED
      BY Zenon, <3>1, <3>2
  <2>2. HandlerStanding'
    BY Zenon, <2>1, <1>t, <1>u DEF HandlerStanding
  <2> QED
    BY Zenon, <2>1, <2>2, <1>t, <1>u, CommandKeeps
<1>3. CASE ExecDaemonCloses
  <2> DEFINE why == IF xcmd.cause = "none" THEN "DAEMON_CLOSED" ELSE xcmd.cause
  <2>1. xcmd' = [xcmd EXCEPT !.cause = why, !.killed = TRUE]
    BY Zenon, <1>3 DEF ExecDaemonCloses
  <2>2. why \in Controls \cup {"none", "EXITED", "TIMEOUT", "DISCONNECTED", "DAEMON_CLOSED"}
    BY Zenon, <1>t DEF CmdType
  <2>3. xcmd.cause # "none" => why = xcmd.cause
    BY Zenon
  <2> HIDE DEF why
  <2>4. /\ xcmd' \in CmdType /\ xcmd'.exit = xcmd.exit /\ xcmd'.step = xcmd.step
        /\ xcmd'.leader = xcmd.leader /\ xcmd'.others = xcmd.others /\ ExecCauseIsFirstStep
    BY Zenon, <2>1, <2>2, <2>3, <1>t DEF CmdType, ExecCauseIsFirstStep
  <2>5. HandlerStanding'
    BY Zenon, <2>4, <1>t, <1>u DEF HandlerStanding
  <2> QED
    BY Zenon, <2>4, <2>5, <1>t, <1>u, CommandKeeps
<1>4. CASE ExecReap
  <2> DEFINE why == IF xcmd.cause = "none" THEN "EXITED" ELSE xcmd.cause
  <2>1. xcmd' = [xcmd EXCEPT !.step = "reaped", !.cause = why, !.timed = FALSE, !.killed = TRUE] /\ ~xcmd.leader
    BY Zenon, <1>4 DEF ExecReap
  <2>2. why \in Controls \cup {"none", "EXITED", "TIMEOUT", "DISCONNECTED", "DAEMON_CLOSED"}
    BY Zenon, <1>t DEF CmdType
  <2>3. xcmd.cause # "none" => why = xcmd.cause
    BY Zenon
  <2> HIDE DEF why
  <2>4. /\ xcmd' \in CmdType /\ xcmd'.exit = xcmd.exit /\ xcmd'.step = "reaped"
        /\ ~xcmd'.leader /\ ExecCauseIsFirstStep
    BY Zenon, <2>1, <2>2, <2>3, <1>t DEF CmdType, ExecCauseIsFirstStep
  <2>5. HandlerStanding'
    BY Zenon, <2>4, <1>4, <1>t, <1>u DEF HandlerStanding, ExecReap
  <2> QED
    BY Zenon, <2>4, <2>5, <1>t, <1>u, CommandKeeps
<1>5. CASE ExecFence
  <2>1. /\ xcmd' \in CmdType /\ xcmd'.exit = xcmd.exit /\ xcmd'.cause = xcmd.cause
        /\ xcmd'.step = "fenced" /\ xcmd'.leader = xcmd.leader /\ ~xcmd'.others
    BY Zenon, <1>5, <1>t DEF CmdType, ExecFence
  <2>2. HandlerStanding'
    BY Zenon, <2>1, <1>5, <1>t, <1>u DEF HandlerStanding, ExecFence
  <2> QED
    BY Zenon, <2>1, <2>2, <1>t, <1>u, CommandKeeps DEF ExecCauseIsFirstStep
<1>6. CASE ExecDrained
  <2>1. /\ xcmd' \in CmdType /\ xcmd'.exit = xcmd.exit /\ xcmd'.cause = xcmd.cause
        /\ xcmd'.step = "closing" /\ xcmd'.leader = xcmd.leader /\ xcmd'.others = xcmd.others
    BY Zenon, <1>6, <1>t DEF CmdType, ExecDrained
  <2>2. HandlerStanding'
    BY Zenon, <2>1, <1>6, <1>t, <1>u DEF HandlerStanding, ExecDrained
  <2> QED
    BY Zenon, <2>1, <2>2, <1>t, <1>u, CommandKeeps DEF ExecCauseIsFirstStep
<1> QED
  BY Zenon, <1>1, <1>2, <1>3, <1>4, <1>5, <1>6

\* The client, the receiver and the watcher.
LEMMA ListenerSteps ==
    ASSUME ExecInductive,
           \/ RecvStdin \/ StdinWritten \/ RecvBadControl \/ ClientLeaves \/ RecvEnds \/ Watch
           \/ \E c \in Controls : RecvControl(c)
    PROVE  ExecInductive' /\ ExecCauseIsFirstStep
<1>t. xcmd \in CmdType /\ xconn \in ConnType /\ HandlerStanding
  BY Zenon DEF ExecInductive, ExecTyped
<1>u. UNCHANGED <<xout, xqueue>>
  BY Zenon DEF RecvStdin, StdinWritten, RecvBadControl, ClientLeaves, RecvEnds, Watch, RecvControl
<1>n. xconn' \in ConnType
  <2>1. CASE RecvStdin \/ RecvBadControl
    BY Zenon, <2>1, <1>t DEF RecvStdin, RecvBadControl, ConnType
  <2>2. CASE StdinWritten
    <3>1. CASE xconn' = [xconn EXCEPT !.receiver = "reading"]
      BY Zenon, <3>1, <1>t DEF ConnType
    <3>2. CASE xconn' = [xconn EXCEPT !.receiver = "returned", !.told = "error"]
      BY Zenon, <3>2, <1>t DEF ConnType
    <3> QED
      BY Zenon, <2>2, <3>1, <3>2 DEF StdinWritten
  <2>3. CASE ClientLeaves
    <3>1. CASE xconn' = [xconn EXCEPT !.client = "gone"]
      BY Zenon, <3>1, <1>t DEF ConnType
    <3>2. CASE xconn' = [xconn EXCEPT !.client = "half"]
      BY Zenon, <3>2, <1>t DEF ConnType
    <3> QED
      BY Zenon, <2>3, <3>1, <3>2 DEF ClientLeaves
  <2>4. CASE RecvEnds
    <3> DEFINE s == IF xconn.client = "half" THEN "eof" ELSE "error"
    <3>1. s \in {"none", "eof", "error"} /\ xconn' = [xconn EXCEPT !.receiver = "returned", !.told = s]
      BY Zenon, <2>4 DEF RecvEnds
    <3> HIDE DEF s
    <3> QED
      BY Zenon, <3>1, <1>t DEF ConnType
  <2>5. CASE Watch
    BY Zenon, <2>5, <1>t DEF Watch, ConnType
  <2>6. CASE \E c \in Controls : RecvControl(c)
    BY Zenon, <2>6, <1>t DEF RecvControl
  <2> QED
    BY Zenon, <2>1, <2>2, <2>3, <2>4, <2>5, <2>6
<1>c. /\ xcmd' \in CmdType /\ xcmd'.exit = xcmd.exit /\ xcmd'.step = xcmd.step
      /\ xcmd'.leader = xcmd.leader /\ xcmd'.others = xcmd.others /\ ExecCauseIsFirstStep
  <2>1. CASE UNCHANGED xcmd
    BY Zenon, <2>1, <1>t DEF ExecCauseIsFirstStep
  <2>2. CASE RecvBadControl
    BY Zenon, <2>2, <1>t DEF RecvBadControl, CmdType, ExecCauseIsFirstStep
  <2>3. CASE Watch
    BY Zenon, <2>1, <2>3, <1>t, CauseDelivered DEF Watch, KillFor
  <2>4. ASSUME NEW c \in Controls, RecvControl(c)
        PROVE  /\ xcmd' \in CmdType /\ xcmd'.exit = xcmd.exit /\ xcmd'.step = xcmd.step
               /\ xcmd'.leader = xcmd.leader /\ xcmd'.others = xcmd.others /\ ExecCauseIsFirstStep
    <3>1. DeliverCause(c, c = "FORCED") /\ (c = "FORCED") \in BOOLEAN
      BY Zenon, <2>4 DEF RecvControl
    <3> QED
      BY Zenon, <3>1, <1>t, CauseDelivered
  <2> QED
    BY Zenon, <2>1, <2>2, <2>3, <2>4 DEF RecvStdin, StdinWritten, ClientLeaves, RecvEnds
<1>h. HandlerStanding'
  BY Zenon, <1>c, <1>t, <1>u DEF HandlerStanding
<1> QED
  BY Zenon, <1>c, <1>h, <1>n, <1>t, <1>u, CommandKeeps

\* The processes of the group: a leader forks, and everybody ends.
LEMMA ProcessSteps ==
    ASSUME ExecInductive, ExecLeaderExits \/ ExecForks \/ ExecOthersExit
    PROVE  ExecInductive' /\ ExecCauseIsFirstStep
<1>t. xcmd \in CmdType /\ xconn \in ConnType /\ HandlerStanding
  BY Zenon DEF ExecInductive, ExecTyped
<1>u. UNCHANGED <<xconn, xout, xqueue>>
  BY Zenon DEF ExecLeaderExits, ExecForks, ExecOthersExit
<1>1. CASE ExecLeaderExits
  <2>1. /\ xcmd' \in CmdType /\ xcmd'.exit = xcmd.exit /\ xcmd'.step = xcmd.step /\ xcmd'.cause = xcmd.cause
        /\ ~xcmd'.leader /\ xcmd'.others = xcmd.others
    BY Zenon, <1>1, <1>t DEF ExecLeaderExits, CmdType
  <2>2. HandlerStanding'
    BY Zenon, <2>1, <1>t, <1>u DEF HandlerStanding
  <2> QED
    BY Zenon, <2>1, <2>2, <1>t, <1>u, CommandKeeps DEF ExecCauseIsFirstStep
<1>2. CASE ExecForks
  <2>1. /\ xcmd' \in CmdType /\ xcmd'.exit = xcmd.exit /\ xcmd'.step = xcmd.step /\ xcmd'.cause = xcmd.cause
        /\ xcmd'.leader = xcmd.leader /\ xcmd.leader
    BY Zenon, <1>2, <1>t DEF ExecForks, CmdType
  <2>2. HandlerStanding'
    BY Zenon, <2>1, <1>t, <1>u DEF HandlerStanding
  <2> QED
    BY Zenon, <2>1, <2>2, <1>t, <1>u, CommandKeeps DEF ExecCauseIsFirstStep
<1>3. CASE ExecOthersExit
  <2>1. /\ xcmd' \in CmdType /\ xcmd'.exit = xcmd.exit /\ xcmd'.step = xcmd.step /\ xcmd'.cause = xcmd.cause
        /\ xcmd'.leader = xcmd.leader /\ ~xcmd'.others
    BY Zenon, <1>3, <1>t DEF ExecOthersExit, CmdType
  <2>2. HandlerStanding'
    BY Zenon, <2>1, <1>t, <1>u DEF HandlerStanding
  <2> QED
    BY Zenon, <2>1, <2>2, <1>t, <1>u, CommandKeeps DEF ExecCauseIsFirstStep
<1> QED
  BY Zenon, <1>1, <1>2, <1>3

\* The end of the call: the exit tells the client of the tail it has missed.
LEMMA FinishKeeps ==
    ASSUME ExecInductive, ExecFinish
    PROVE  ExecInductive' /\ ExecCauseIsFirstStep
<1>t. ExecTyped /\ xcmd \in CmdType /\ xconn \in ConnType /\ HandlerStanding /\ QueueStanding
  BY Zenon DEF ExecInductive, ExecTyped
<1>o. /\ \A i \in Streams : xout[i] \in OutType
      /\ \A i \in Streams : xout[i].produced \in Nat /\ xout[i].next \in Nat /\ xout[i].got \in Nat /\ xout[i].lost \in Nat
  BY Zenon, <1>t, ExecTypes
<1>u. xcmd.step = "closing" /\ UNCHANGED <<xconn, xqueue>>
  BY Zenon DEF ExecFinish
<1>1. CASE xcmd' = [xcmd EXCEPT !.step = "done"] /\ UNCHANGED xout
  <2>1. /\ xcmd' \in CmdType /\ xcmd'.exit = xcmd.exit /\ xcmd'.step = "done" /\ xcmd'.cause = xcmd.cause
        /\ xcmd'.leader = xcmd.leader /\ xcmd'.others = xcmd.others
    BY Zenon, <1>1, <1>t DEF CmdType
  <2>2. HandlerStanding'
    BY Zenon, <2>1, <1>1, <1>t, <1>u DEF HandlerStanding
  <2> QED
    BY Zenon, <2>1, <2>2, <1>1, <1>t, <1>u, CommandKeeps DEF ExecCauseIsFirstStep
<1>2. CASE /\ xcmd' = [xcmd EXCEPT !.step = "done", !.exit = TRUE]
           /\ xout' = [i \in Streams |-> [xout[i] EXCEPT !.lost = @ + (xout[i].produced - xout[i].next)]]
  <2>1. /\ xcmd' \in CmdType /\ xcmd'.exit /\ xcmd'.step = "done" /\ xcmd'.cause = xcmd.cause
        /\ xcmd'.leader = xcmd.leader /\ xcmd'.others = xcmd.others /\ ~xcmd.exit
    BY Zenon, <1>2, <1>t, <1>u DEF CmdType, HandlerStanding
  <2>2. ASSUME NEW i \in Streams
        PROVE  /\ xout'[i] \in OutType /\ xout'[i].produced = xout[i].produced /\ xout'[i].next = xout[i].next
               /\ xout'[i].open = xout[i].open /\ Accounted(i)'
    <3> DEFINE n == xout[i].lost + (xout[i].produced - xout[i].next)
    <3>1. xout[i].next <= xout[i].produced /\ xout[i].got + xout[i].lost = xout[i].next
      BY Zenon, <2>1 DEF ExecInductive, Accounted
    <3>2. n \in Nat /\ xout[i].got + n = xout[i].produced
      BY <3>1, <1>o
    <3>3. xout'[i] = [xout[i] EXCEPT !.lost = n]
      BY Zenon, <1>2
    <3> HIDE DEF n
    <3>4. /\ xout'[i] \in OutType /\ xout'[i].produced = xout[i].produced /\ xout'[i].next = xout[i].next
          /\ xout'[i].open = xout[i].open /\ xout'[i].got = xout[i].got /\ xout'[i].lost = n
      BY Zenon, <3>2, <3>3, <1>o DEF OutType
    <3> QED
      BY Zenon, <3>1, <3>2, <3>4, <2>1 DEF Accounted
  <2>3. xout' \in [Streams -> OutType]
    BY Zenon, <2>2, <1>2
  <2>4. ExecTyped'
    BY Zenon, <2>1, <2>3, <1>t, <1>u DEF ExecTyped
  <2>5. HandlerStanding'
    BY Zenon, <2>1, <2>2, <1>t, <1>u DEF HandlerStanding
  <2>6. QueueStanding'
    <3>1. \A k \in 1 .. Len(xqueue.chunks) : xqueue.chunks[k].stream \in Streams
      BY Zenon, <1>t, ExecTypes, ChunkTypes
    <3> QED
      BY Zenon, <3>1, <2>2, <1>t, <1>u DEF QueueStanding, QueueOK
  <2> QED
    BY Zenon, <2>1, <2>2, <2>4, <2>5, <2>6 DEF ExecInductive, ExecCauseIsFirstStep
<1> QED
  BY Zenon, <1>1, <1>2 DEF ExecFinish

\* A queue that loses its head keeps what stands of the rest.
LEMMA TailOfQueue ==
    ASSUME NEW q \in Seq(ChunkType), q # <<>>
    PROVE  /\ Tail(q) \in Seq(ChunkType) /\ Len(q) \in Nat /\ 1 \in 1 .. Len(q) /\ Head(q) = q[1]
           /\ Len(Tail(q)) = Len(q) - 1
           /\ \A k \in 1 .. Len(Tail(q)) : k + 1 \in 1 .. Len(q) /\ 1 < k + 1 /\ Tail(q)[k] = q[k + 1]
<1>1. Tail(q) \in Seq(ChunkType) /\ Len(q) \in Nat /\ 1 \in 1 .. Len(q) /\ Head(q) = q[1]
  OBVIOUS
<1>2. Len(Tail(q)) = Len(q) - 1
  OBVIOUS
<1>3. ASSUME NEW k \in 1 .. Len(Tail(q)) PROVE k + 1 \in 1 .. Len(q) /\ 1 < k + 1 /\ Tail(q)[k] = q[k + 1]
  BY <1>1, <1>2
<1> QED
  BY Zenon, <1>1, <1>2, <1>3

\* A queue that takes a chunk.
LEMMA QueueTakes ==
    ASSUME NEW q \in Seq(ChunkType), NEW c \in ChunkType
    PROVE  /\ Append(q, c) \in Seq(ChunkType) /\ Len(q) \in Nat /\ Len(Append(q, c)) = Len(q) + 1
           /\ \A k \in 1 .. Len(q) : Append(q, c)[k] = q[k]
           /\ Append(q, c)[Len(q) + 1] = c
           /\ \A k \in 1 .. Len(Append(q, c)) : k \in 1 .. Len(q) \/ k = Len(q) + 1
           /\ \A k, l \in 1 .. Len(Append(q, c)) : k < l => k \in 1 .. Len(q)
<1>1. Append(q, c) \in Seq(ChunkType) /\ Len(q) \in Nat /\ Len(Append(q, c)) = Len(q) + 1
  OBVIOUS
<1>2. \A k \in 1 .. Len(q) : Append(q, c)[k] = q[k]
  OBVIOUS
<1>3. Append(q, c)[Len(q) + 1] = c
  OBVIOUS
<1>4. \A k \in 1 .. Len(q) + 1 : k \in 1 .. Len(q) \/ k = Len(q) + 1
  BY <1>1
<1>5. \A k, l \in 1 .. Len(q) + 1 : k < l => k \in 1 .. Len(q)
  BY <1>1
<1> QED
  BY Zenon, <1>1, <1>2, <1>3, <1>4, <1>5

\* A read of a pipe: the chunk is queued behind what was produced before it, or dropped.
LEMMA PumpKeeps ==
    ASSUME ExecInductive, NEW i \in Streams, NEW size \in ChunkSizes, Pump(i, size)
    PROVE  ExecInductive' /\ ExecCauseIsFirstStep
<1> DEFINE new == [stream |-> i, offset |-> xout[i].produced, size |-> size]
           q == xqueue.chunks
<1>t. ExecTyped /\ HandlerStanding /\ QueueStanding /\ \A j \in Streams : Accounted(j)
  BY Zenon DEF ExecInductive
<1>o. /\ \A j \in Streams : xout[j] \in OutType
      /\ \A j \in Streams : xout[j].produced \in Nat /\ xout[j].next \in Nat /\ xout[j].got \in Nat /\ xout[j].lost \in Nat
      /\ q \in Seq(ChunkType) /\ Len(q) \in Nat /\ Len(q) <= QueueSize
      /\ \A k \in 1 .. Len(q) : q[k] \in ChunkType
  BY Zenon, <1>t, ExecTypes DEF ExecTyped
<1>z. size \in Nat \ {0} /\ QueueSize \in Nat
  BY ExecAssumption
<1>a. UNCHANGED <<xcmd, xconn>> /\ xout[i].open /\ xcmd.step # "done"
  BY Zenon DEF Pump, ExecActive
<1>e. ~xcmd.exit /\ xcmd.step # "closing"
  BY Zenon, <1>a, <1>t DEF HandlerStanding
<1>n. new \in ChunkType
  BY Zenon, <1>o DEF ChunkType
<1>1. /\ xout'[i] = [xout[i] EXCEPT !.produced = xout[i].produced + size]
      /\ \A j \in Streams \ {i} : xout'[j] = xout[j]
      /\ DOMAIN xout' = Streams
  <2>1. xout \in [Streams -> OutType]
    BY Zenon, <1>t DEF ExecTyped
  <2>2. xout' = [xout EXCEPT ![i] = [xout[i] EXCEPT !.produced = xout[i].produced + size]]
    BY Zenon DEF Pump
  <2> QED
    BY Zenon, <2>1, <2>2
<1>2. xout[i].produced + size \in Nat
  BY <1>o, <1>z
<1>3. /\ xout'[i] \in OutType /\ xout'[i].produced = xout[i].produced + size /\ xout'[i].next = xout[i].next
      /\ xout'[i].got = xout[i].got /\ xout'[i].lost = xout[i].lost
  BY Zenon, <1>1, <1>2, <1>o DEF OutType
<1>4. xout' \in [Streams -> OutType]
  <2>1. \A j \in Streams : xout'[j] \in OutType
    BY Zenon, <1>1, <1>3, <1>o
  <2>2. xout' = [xout EXCEPT ![i].produced = @ + size] /\ xout \in [Streams -> OutType]
    BY Zenon, <1>t DEF Pump, ExecTyped
  <2> QED
    BY Zenon, <2>1, <2>2
<1>5. \A j \in Streams : Accounted(j)'
  <2>1. xout[i].next <= xout[i].produced + size /\ xout[i].got + xout[i].lost = xout[i].next
    <3>1. xout[i].next <= xout[i].produced /\ xout[i].got + xout[i].lost = xout[i].next
      BY Zenon, <1>t, <1>e DEF Accounted
    <3> QED
      BY <3>1, <1>o, <1>z
  <2>2. Accounted(i)'
    BY Zenon, <2>1, <1>3, <1>a, <1>e DEF Accounted
  <2>3. ASSUME NEW j \in Streams \ {i} PROVE Accounted(j)'
    BY Zenon, <1>t, <1>1, <1>a DEF Accounted
  <2> QED
    BY Zenon, <2>2, <2>3
<1>6. HandlerStanding'
  BY Zenon, <1>t, <1>a, <1>e DEF HandlerStanding
\* What was queued is still within what was produced.
<1>7. \A k \in 1 .. Len(q) : xout'[q[k].stream].next <= q[k].offset /\ q[k].offset + q[k].size <= xout'[q[k].stream].produced
  <2> SUFFICES ASSUME NEW k \in 1 .. Len(q)
               PROVE  xout'[q[k].stream].next <= q[k].offset /\ q[k].offset + q[k].size <= xout'[q[k].stream].produced
    BY Zenon
  <2>1. q[k].stream \in Streams /\ q[k].offset \in Nat /\ q[k].size \in Nat
    BY Zenon, <1>o, ChunkTypes
  <2>2. xout[q[k].stream].next <= q[k].offset /\ q[k].offset + q[k].size <= xout[q[k].stream].produced
    BY Zenon, <1>t DEF QueueStanding, QueueOK
  <2>3. CASE q[k].stream = i
    <3>1. xout[i].next <= q[k].offset /\ q[k].offset + q[k].size <= xout[i].produced
      BY Zenon, <2>2, <2>3
    <3>2. q[k].offset + q[k].size <= xout[i].produced + size
      <4> DEFINE o == q[k].offset
                 s == q[k].size
                 p == xout[i].produced
      <4>1. o \in Nat /\ s \in Nat /\ p \in Nat /\ o + s <= p
        BY Zenon, <3>1, <2>1, <1>o
      <4> HIDE DEF o, s, p
      <4>2. o + s <= p + size
        BY <4>1, <1>z
      <4> QED
        BY Zenon, <4>2 DEF o, s, p
    <3> QED
      BY Zenon, <3>1, <3>2, <2>3, <1>3
  <2>4. CASE q[k].stream # i
    BY Zenon, <2>1, <2>2, <2>4, <1>1
  <2> QED
    BY Zenon, <2>3, <2>4
<1>8. \A k, l \in 1 .. Len(q) : k < l /\ q[k].stream = q[l].stream => q[k].offset + q[k].size <= q[l].offset
  BY Zenon, <1>t DEF QueueStanding, QueueOK
<1>9. CASE xqueue' = xqueue
  <2>1. ExecTyped'
    BY Zenon, <1>9, <1>4, <1>a, <1>t DEF ExecTyped
  <2>2. QueueStanding'
    BY Zenon, <1>7, <1>8, <1>9 DEF QueueStanding, QueueOK
  <2> QED
    BY Zenon, <2>1, <2>2, <1>5, <1>6, <1>a DEF ExecInductive, ExecCauseIsFirstStep
<1>10. CASE ~QueueFull /\ xqueue' = [xqueue EXCEPT !.chunks = Append(q, new)]
  <2> DEFINE r == Append(q, new)
  <2>1. /\ r \in Seq(ChunkType) /\ Len(r) = Len(q) + 1
        /\ \A k \in 1 .. Len(q) : r[k] = q[k]
        /\ r[Len(q) + 1] = new
        /\ \A k \in 1 .. Len(r) : k \in 1 .. Len(q) \/ k = Len(q) + 1
        /\ \A k, l \in 1 .. Len(r) : k < l => k \in 1 .. Len(q)
    <3> HIDE DEF new, q
    <3> QED
      BY Zenon, <1>o, <1>n, QueueTakes
  <2>2. Len(q) + 1 <= QueueSize
    <3>1. Len(q) # QueueSize
      BY Zenon, <1>10 DEF QueueFull
    <3> HIDE DEF q
    <3> QED
      BY <3>1, <1>o, <1>z
  <2>3. new.stream = i /\ new.offset = xout[i].produced /\ new.size = size
    BY Zenon
  <2>4. xqueue'.chunks = r /\ xqueue' \in QueueType
    <3>1. xqueue \in QueueType
      BY Zenon, <1>t DEF ExecTyped
    <3> HIDE DEF new, q
    <3> QED
      BY Zenon, <3>1, <2>1, <1>10 DEF QueueType
  <2> HIDE DEF new, q, r
  <2>5. ExecTyped'
    BY Zenon, <2>1, <2>2, <2>4, <1>4, <1>a, <1>t DEF ExecTyped
  <2>6. \A k \in 1 .. Len(r) : xout'[r[k].stream].next <= r[k].offset /\ r[k].offset + r[k].size <= xout'[r[k].stream].produced
    <3>1. xout[i].next <= xout[i].produced
      BY Zenon, <1>t DEF Accounted
    <3>2. xout[i].produced + size <= xout[i].produced + size
      BY <1>2
    <3>3. xout'[new.stream].next <= new.offset /\ new.offset + new.size <= xout'[new.stream].produced
      BY Zenon, <3>1, <3>2, <2>3, <1>3
    <3> QED
      BY Zenon, <3>3, <2>1, <1>7
  <2>7. \A k, l \in 1 .. Len(r) : k < l /\ r[k].stream = r[l].stream => r[k].offset + r[k].size <= r[l].offset
    <3> SUFFICES ASSUME NEW k \in 1 .. Len(r), NEW l \in 1 .. Len(r), k < l, r[k].stream = r[l].stream
                 PROVE  r[k].offset + r[k].size <= r[l].offset
      BY Zenon
    <3>1. k \in 1 .. Len(q) /\ r[k] = q[k]
      BY Zenon, <2>1
    <3>2. CASE l \in 1 .. Len(q)
      BY Zenon, <3>1, <3>2, <2>1, <1>8
    <3>3. CASE l = Len(q) + 1
      <4>1. q[k].offset + q[k].size <= xout[q[k].stream].produced
        BY Zenon, <3>1, <1>t DEF QueueStanding, QueueOK, q
      <4> QED
        BY Zenon, <4>1, <3>1, <3>3, <2>1, <2>3
    <3> QED
      BY Zenon, <3>2, <3>3, <2>1
  <2>8. QueueStanding'
    BY Zenon, <2>4, <2>6, <2>7 DEF QueueStanding, QueueOK
  <2> QED
    BY Zenon, <2>5, <2>8, <1>5, <1>6, <1>a DEF ExecInductive, ExecCauseIsFirstStep
<1> QED
  BY Zenon, <1>9, <1>10 DEF Pump

\* The end of a pipe and of the dispatcher.
LEMMA EndsKeep ==
    ASSUME ExecInductive, DispatchEnds \/ \E i \in Streams : PumpEnds(i)
    PROVE  ExecInductive' /\ ExecCauseIsFirstStep
<1>t. ExecTyped /\ HandlerStanding /\ QueueStanding /\ \A j \in Streams : Accounted(j)
  BY Zenon DEF ExecInductive
<1>1. CASE DispatchEnds
  <2>1. xqueue' = [xqueue EXCEPT !.dispatcher = "done"] /\ UNCHANGED <<xcmd, xconn, xout>>
    BY Zenon, <1>1 DEF DispatchEnds
  <2>2. xqueue' \in QueueType /\ xqueue'.chunks = xqueue.chunks
    BY Zenon, <2>1, <1>t DEF QueueType, ExecTyped
  <2>3. ExecTyped'
    BY Zenon, <2>1, <2>2, <1>t DEF ExecTyped
  <2>4. HandlerStanding'
    BY Zenon, <2>1, <1>t DEF HandlerStanding
  <2>5. QueueStanding'
    BY Zenon, <2>1, <2>2, <1>t DEF QueueStanding
  <2>6. \A j \in Streams : Accounted(j)'
    BY Zenon, <2>1, <1>t DEF Accounted
  <2> QED
    BY Zenon, <2>1, <2>3, <2>4, <2>5, <2>6 DEF ExecInductive, ExecCauseIsFirstStep
<1>2. ASSUME NEW i \in Streams, PumpEnds(i) PROVE ExecInductive' /\ ExecCauseIsFirstStep
  <2>1. UNCHANGED <<xcmd, xconn, xqueue>> /\ xout' = [xout EXCEPT ![i] = [xout[i] EXCEPT !.open = FALSE]]
    BY Zenon, <1>2 DEF PumpEnds
  <2>2. xout \in [Streams -> OutType]
    BY Zenon, <1>t DEF ExecTyped
  <2>3. /\ xout'[i] = [xout[i] EXCEPT !.open = FALSE]
        /\ \A j \in Streams \ {i} : xout'[j] = xout[j]
    BY Zenon, <2>1, <2>2
  <2>4. /\ xout'[i] \in OutType /\ ~xout'[i].open /\ xout'[i].produced = xout[i].produced /\ xout'[i].next = xout[i].next
        /\ xout'[i].got = xout[i].got /\ xout'[i].lost = xout[i].lost
    <3>1. xout[i] \in OutType
      BY Zenon, <2>2, <1>2
    <3> QED
      BY Zenon, <3>1, <2>3 DEF OutType
  <2>5. ExecTyped'
    BY Zenon, <2>1, <2>2, <2>3, <2>4, <1>t DEF ExecTyped
  <2>6. HandlerStanding'
    BY Zenon, <2>1, <2>3, <2>4, <1>t DEF HandlerStanding
  <2>7. \A j \in Streams : /\ xout'[j].produced = xout[j].produced /\ xout'[j].next = xout[j].next
                           /\ xout'[j].got = xout[j].got /\ xout'[j].lost = xout[j].lost
    BY Zenon, <2>3, <2>4
  <2>8. \A k \in 1 .. Len(xqueue.chunks) : xqueue.chunks[k].stream \in Streams
    BY Zenon, <1>t, ExecTypes, ChunkTypes
  <2>9. QueueStanding'
    <3> DEFINE q == xqueue.chunks
    <3>1. QueueOK(q, xout) /\ xqueue'.chunks = q
      BY Zenon, <2>1, <1>t DEF QueueStanding
    <3>2. \A k \in 1 .. Len(q) : q[k].stream \in Streams
      BY Zenon, <2>8
    <3> HIDE DEF q
    <3>3. QueueOK(q, xout')
      BY Zenon, <3>1, <3>2, <2>7 DEF QueueOK
    <3> QED
      BY Zenon, <3>1, <3>3 DEF QueueStanding
  <2>10. \A j \in Streams : Accounted(j)'
    BY Zenon, <2>1, <2>7, <1>t DEF Accounted
  <2> QED
    BY Zenon, <2>1, <2>5, <2>6, <2>9, <2>10 DEF ExecInductive, ExecCauseIsFirstStep
<1> QED
  BY Zenon, <1>1, <1>2

\* A chunk is sent: what the client was not sent before it is told to be lost.
LEMMA DispatchKeeps ==
    ASSUME ExecInductive, Dispatch
    PROVE  ExecInductive' /\ ExecCauseIsFirstStep
<1> DEFINE q == xqueue.chunks
           c == Head(xqueue.chunks)
           r == Tail(xqueue.chunks)
<1>t. ExecTyped /\ HandlerStanding /\ QueueStanding /\ \A j \in Streams : Accounted(j)
  BY Zenon DEF ExecInductive
<1>o. /\ \A j \in Streams : xout[j] \in OutType
      /\ \A j \in Streams : xout[j].produced \in Nat /\ xout[j].next \in Nat /\ xout[j].got \in Nat /\ xout[j].lost \in Nat
      /\ q \in Seq(ChunkType) /\ Len(q) \in Nat /\ Len(q) <= QueueSize
      /\ \A k \in 1 .. Len(q) : q[k] \in ChunkType
      /\ xqueue.dispatcher \in {"running", "failed", "done"}
  BY Zenon, <1>t, ExecTypes DEF ExecTyped
<1>a. UNCHANGED xconn /\ q # <<>> /\ xcmd.step # "done"
  BY Zenon DEF Dispatch, ExecActive
<1>e. ~xcmd.exit
  BY Zenon, <1>a, <1>t DEF HandlerStanding
<1>r. /\ r \in Seq(ChunkType) /\ 1 \in 1 .. Len(q) /\ c = q[1] /\ Len(r) = Len(q) - 1
      /\ \A k \in 1 .. Len(r) : k + 1 \in 1 .. Len(q) /\ 1 < k + 1 /\ r[k] = q[k + 1]
  BY Zenon, <1>o, <1>a, TailOfQueue
<1>s. Len(r) <= QueueSize
  <2> HIDE DEF q, r
  <2> QED
    BY <1>r, <1>o, ExecAssumption
<1>7. \A k \in 1 .. Len(q) : xout[q[k].stream].next <= q[k].offset /\ q[k].offset + q[k].size <= xout[q[k].stream].produced
  BY Zenon, <1>t DEF QueueStanding, QueueOK
<1>8. \A k, l \in 1 .. Len(q) : k < l /\ q[k].stream = q[l].stream => q[k].offset + q[k].size <= q[l].offset
  BY Zenon, <1>t DEF QueueStanding, QueueOK
<1>9. \A k, l \in 1 .. Len(r) : k < l /\ r[k].stream = r[l].stream => r[k].offset + r[k].size <= r[l].offset
  <2>1. \A k, l \in 1 .. Len(r) : k < l => k + 1 < l + 1
    <3> HIDE DEF q, r
    <3> QED
      BY <1>r, <1>o
  <2> HIDE DEF q, r
  <2> QED
    BY Zenon, <2>1, <1>r, <1>8
<1>1. CASE xconn.client = "gone"
  <2>1. /\ KillFor("DISCONNECTED") /\ UNCHANGED xout
        /\ xqueue' = [dispatcher |-> "failed", chunks |-> r]
    BY Zenon, <1>1 DEF Dispatch
  <2>2. /\ xcmd' \in CmdType /\ xcmd'.exit = xcmd.exit /\ xcmd'.step = xcmd.step
        /\ xcmd'.leader = xcmd.leader /\ xcmd'.others = xcmd.others /\ ExecCauseIsFirstStep
    BY Zenon, <2>1, <1>t, CauseDelivered DEF KillFor, ExecTyped
  <2>3. xqueue' \in QueueType /\ xqueue'.chunks = r
    BY Zenon, <2>1, <1>r DEF QueueType
  <2> HIDE DEF q, r
  <2>4. ExecTyped'
    BY Zenon, <2>1, <2>2, <2>3, <1>s, <1>a, <1>t DEF ExecTyped
  <2>5. HandlerStanding'
    BY Zenon, <2>1, <2>2, <1>t DEF HandlerStanding
  <2>6. \A k \in 1 .. Len(r) : xout[r[k].stream].next <= r[k].offset /\ r[k].offset + r[k].size <= xout[r[k].stream].produced
    BY Zenon, <1>r, <1>7
  <2>7. QueueStanding'
    BY Zenon, <2>1, <2>3, <2>6, <1>9 DEF QueueStanding, QueueOK
  <2>8. \A j \in Streams : Accounted(j)'
    BY Zenon, <2>1, <2>2, <1>t DEF Accounted
  <2> QED
    BY Zenon, <2>2, <2>4, <2>5, <2>7, <2>8 DEF ExecInductive
<1>2. CASE xconn.client # "gone"
  <2> DEFINE i == c.stream
             n == c.offset + c.size
             g == xout[i].got + c.size
             l == xout[i].lost + (c.offset - xout[i].next)
  <2>1. /\ xout' = [xout EXCEPT ![i] = Delivered(xout[i], c)] /\ UNCHANGED xcmd
        /\ xqueue' = [xqueue EXCEPT !.chunks = r]
    BY Zenon, <1>2 DEF Dispatch
  <2>2. i \in Streams /\ c.offset \in Nat /\ c.size \in Nat
    BY Zenon, <1>r, <1>o, ChunkTypes
  <2>3. xout[i].next <= c.offset /\ c.offset + c.size <= xout[i].produced
    BY Zenon, <1>r, <1>7
  <2>4. xout[i].got + xout[i].lost = xout[i].next
    BY Zenon, <2>2, <1>t, <1>e DEF Accounted
  <2>5. n \in Nat /\ g \in Nat /\ l \in Nat /\ g + l = n /\ n <= xout[i].produced
    <3> DEFINE a == xout[i].next
               b == xout[i].got
               d == xout[i].lost
               o == c.offset
               z == c.size
               p == xout[i].produced
    <3>1. /\ a \in Nat /\ b \in Nat /\ d \in Nat /\ o \in Nat /\ z \in Nat /\ p \in Nat
          /\ a <= o /\ o + z <= p /\ b + d = a
      BY Zenon, <2>2, <2>3, <2>4, <1>o
    <3> HIDE DEF a, b, d, o, z, p
    <3>2. o + z \in Nat /\ b + z \in Nat /\ d + (o - a) \in Nat /\ (b + z) + (d + (o - a)) = o + z /\ o + z <= p
      BY <3>1
    <3> QED
      BY Zenon, <3>2 DEF a, b, d, o, z, p
  <2>6. xout \in [Streams -> OutType]
    BY Zenon, <1>t DEF ExecTyped
  <2>7. /\ xout'[i] = [xout[i] EXCEPT !.next = n, !.got = g, !.lost = l]
        /\ \A j \in Streams \ {i} : xout'[j] = xout[j]
    BY Zenon, <2>1, <2>2, <2>6 DEF Delivered
  <2>8. xqueue' \in QueueType /\ xqueue'.chunks = r
    <3>1. xqueue \in QueueType
      BY Zenon, <1>t DEF ExecTyped
    <3> HIDE DEF q, c, r
    <3> QED
      BY Zenon, <3>1, <2>1, <1>r DEF QueueType
  <2>n. n = c.offset + c.size
    BY Zenon
  <2> HIDE DEF q, c, r, i, n, g, l
  <2>9. /\ xout'[i] \in OutType /\ xout'[i].open = xout[i].open /\ xout'[i].produced = xout[i].produced
        /\ xout'[i].next = n /\ xout'[i].got = g /\ xout'[i].lost = l
    <3>1. xout[i] \in OutType
      BY Zenon, <2>2, <1>o
    <3> QED
      BY Zenon, <3>1, <2>5, <2>7 DEF OutType
  <2>10. xout' \in [Streams -> OutType]
    BY Zenon, <2>1, <2>6, <2>7, <2>9
  <2>11. ExecTyped'
    BY Zenon, <2>1, <2>8, <2>10, <1>s, <1>a, <1>t DEF ExecTyped
  <2>12. HandlerStanding'
    BY Zenon, <2>1, <2>7, <2>9, <1>t DEF HandlerStanding
  <2>13. \A j \in Streams : Accounted(j)'
    <3> SUFFICES ASSUME NEW j \in Streams PROVE Accounted(j)'
      BY Zenon
    <3>1. CASE j = i
      <4>1. xout'[j].next <= xout'[j].produced /\ xout'[j].got + xout'[j].lost = xout'[j].next
        <5>1. xout'[j].next = n /\ xout'[j].got = g /\ xout'[j].lost = l /\ xout'[j].produced = xout[i].produced
          BY Zenon, <3>1, <2>9
        <5> QED
          BY Zenon, <5>1, <2>5
      <4>2. ~xcmd'.exit
        BY Zenon, <2>1, <1>e
      <4> QED
        BY <4>1, <4>2 DEF Accounted
    <3>2. CASE j # i
      BY Zenon, <3>2, <2>1, <2>7, <1>t DEF Accounted
    <3> QED
      BY Zenon, <3>1, <3>2
  <2>14. \A k \in 1 .. Len(r) : xout'[r[k].stream].next <= r[k].offset /\ r[k].offset + r[k].size <= xout'[r[k].stream].produced
    <3> SUFFICES ASSUME NEW k \in 1 .. Len(r)
                 PROVE  xout'[r[k].stream].next <= r[k].offset /\ r[k].offset + r[k].size <= xout'[r[k].stream].produced
      BY Zenon
    <3>1. k + 1 \in 1 .. Len(q) /\ 1 < k + 1 /\ r[k] = q[k + 1]
      BY Zenon, <1>r
    <3>2. r[k].stream \in Streams
      BY Zenon, <3>1, <1>o, ChunkTypes
    <3>3. xout[r[k].stream].next <= r[k].offset /\ r[k].offset + r[k].size <= xout[r[k].stream].produced
      BY Zenon, <3>1, <1>7
    <3>4. CASE r[k].stream = i
      <4>1. n <= r[k].offset
        BY Zenon, <3>1, <3>4, <1>r, <1>8, <2>n DEF i
      <4> QED
        BY Zenon, <4>1, <3>3, <3>4, <2>9
    <3>5. CASE r[k].stream # i
      BY Zenon, <3>2, <3>3, <3>5, <2>7
    <3> QED
      BY Zenon, <3>4, <3>5
  <2>15. QueueStanding'
    BY Zenon, <2>8, <2>14, <1>9 DEF QueueStanding, QueueOK
  <2> QED
    BY Zenon, <2>1, <2>11, <2>12, <2>13, <2>15 DEF ExecInductive, ExecCauseIsFirstStep
<1> QED
  BY Zenon, <1>1, <1>2

\* ExecInductive holds initially and every step keeps it: whichever goroutines race, the
\* client's account of each stream stays exact up to the dispatcher's position.
THEOREM ExecIsInductive == ExecSpec => []ExecInductive
<1>1. ExecInit => ExecInductive
  <2> SUFFICES ASSUME ExecInit PROVE ExecInductive
    BY Zenon
  <2>1. /\ xcmd \in CmdType /\ xcmd.step = "new" /\ ~xcmd.exit /\ ~xcmd.leader /\ ~xcmd.others
        /\ xconn \in ConnType
    BY Zenon DEF ExecInit, CmdType, ConnType
  <2>2. \A i \in Streams : xout[i] = [open |-> TRUE, produced |-> 0, next |-> 0, got |-> 0, lost |-> 0]
    BY Zenon DEF ExecInit
  <2>3. xout \in [Streams -> OutType]
    BY DEF ExecInit, OutType
  <2>4. xqueue.chunks = <<>> /\ xqueue \in QueueType
    BY DEF ExecInit, QueueType
  <2>5. Len(xqueue.chunks) = 0 /\ 0 <= QueueSize /\ 1 .. 0 = {}
    BY <2>4, ExecAssumption
  <2>6. ExecTyped
    BY Zenon, <2>1, <2>3, <2>4, <2>5 DEF ExecTyped
  <2>7. HandlerStanding
    BY Zenon, <2>1 DEF HandlerStanding
  <2>8. 0 <= 0 /\ 0 + 0 = 0
    OBVIOUS
  <2>9. \A i \in Streams : Accounted(i)
    <3> SUFFICES ASSUME NEW i \in Streams PROVE Accounted(i)
      BY Zenon
    <3>1. xout[i].next = 0 /\ xout[i].produced = 0 /\ xout[i].got = 0 /\ xout[i].lost = 0
      BY <2>2
    <3> QED
      BY Zenon, <3>1, <2>1, <2>8 DEF Accounted
  <2>10. QueueStanding
    BY Zenon, <2>5 DEF QueueStanding, QueueOK
  <2> QED
    BY Zenon, <2>6, <2>7, <2>9, <2>10 DEF ExecInductive
<1>2. ExecInductive /\ [ExecNext]_execVars => ExecInductive'
  <2>1. ASSUME ExecInductive, UNCHANGED execVars PROVE ExecInductive'
    BY Zenon, <2>1 DEF ExecInductive, ExecTyped, HandlerStanding, Accounted, QueueStanding, execVars
  <2> QED
    BY Zenon, <2>1, HandlerSteps, ListenerSteps, ProcessSteps, FinishKeeps, PumpKeeps, EndsKeep, DispatchKeeps DEF ExecNext
<1> QED
  BY <1>1, <1>2, PTL DEF ExecSpec

\* The Exec RPC, for any queue size and any chunks: an exit accounts for every byte of both
\* streams, comes after the group is gone and the pipes are drained, and carries the first
\* cause that was delivered.
THEOREM ExecIsCorrect == ExecSpec => ExecCorrect
<1>1. ExecInductive => ExecTypeOK /\ ExecLossIsExact /\ ExecExitIsFenced
  <2> SUFFICES ASSUME ExecInductive PROVE ExecTypeOK /\ ExecLossIsExact /\ ExecExitIsFenced
    BY Zenon
  <2>1. ExecTyped
    BY Zenon DEF ExecInductive
  <2>2. xqueue.chunks \in Seq(ChunkType)
    BY Zenon, <2>1, ExecTypes
  <2>3. DOMAIN xqueue.chunks = 1 .. Len(xqueue.chunks)
    BY <2>2
  <2>4. ExecTypeOK
    BY Zenon, <2>1, <2>3, ExecTypes DEF ExecTypeOK, ExecTyped, ChunkType
  <2>5. ExecLossIsExact
    BY Zenon DEF ExecInductive, Accounted, ExecLossIsExact
  <2>6. ExecExitIsFenced
    BY Zenon DEF ExecInductive, HandlerStanding, ExecExitIsFenced
  <2> QED
    BY Zenon, <2>4, <2>5, <2>6
<1>2. ExecInductive /\ [ExecNext]_execVars => [ExecCauseIsFirstStep]_execVars
  BY Zenon, HandlerSteps, ListenerSteps, ProcessSteps, FinishKeeps, PumpKeeps, EndsKeep, DispatchKeeps DEF ExecNext
<1> QED
  BY <1>1, <1>2, ExecIsInductive, PTL DEF ExecSpec, ExecCorrect, ExecCauseIsFirst
=============================================================================
