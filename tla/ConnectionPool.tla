--------------------------- MODULE ConnectionPool ---------------------------
(***************************************************************************)
(* The operator's pool of connections to sandboxd                          *)
(* (internal/sandboxclient/process_pool.go) and the proof of the target    *)
(* that every lease rests on (process.go, lifecycle/execution_fence.go).   *)
(*                                                                         *)
(* The proof is read from the API server object by object, so it may mix   *)
(* an Environment with the credential of a moment later.  A pool entry is  *)
(* keyed by the execution generation alone; all else is in its proof.      *)
(***************************************************************************)
EXTENDS Integers, FiniteSets

CONSTANTS
    Callers,
    MaxConn,   \* bound: connections dialled
    MaxWorld   \* bound: changes of the Environment and its credential

ASSUME PoolAssumption == IsFiniteSet(Callers) /\ MaxConn \in Nat /\ MaxWorld \in Nat

VARIABLES
    target,   \* the Environment: generation, hold policy, credential, reachable
    callers,  \* the acquire calls and the leases
    conns,    \* every connection dialled
    pool      \* entries and pending dials by generation; closed

poolVars == <<target, callers, conns, pool>>

Gens == 1 .. MaxWorld + 1
Proofs == [gen : Gens, hold : 0 .. MaxWorld, cred : 0 .. MaxWorld]
NoProof == [gen |-> 0, hold |-> 0, cred |-> 0]
\* again: the proof is read a second time, after dialling.
\* creds: history, the credentials current since the call began.
CallerType ==
    [step : {"idle", "read", "prove", "lease", "waiting", "dial", "install", "using"},
     again : BOOLEAN, fence : [gen : 0 .. MaxWorld + 1, hold : 0 .. MaxWorld],
     env : Proofs \cup {NoProof}, proof : Proofs \cup {NoProof}, current : Proofs \cup {NoProof},
     conn : 0 .. MaxConn, failed : BOOLEAN, creds : SUBSET (0 .. MaxWorld)]
Resting ==
    [step |-> "idle", again |-> FALSE, fence |-> [gen |-> 0, hold |-> 0], env |-> NoProof,
     proof |-> NoProof, current |-> NoProof, conn |-> 0, failed |-> FALSE, creds |-> {}]
NoConn == [proof |-> NoProof, open |-> FALSE, evicted |-> FALSE, borrowers |-> 0]

PoolTypeOK ==
    /\ target \in [gen : Gens, hold : 0 .. MaxWorld, cred : 0 .. MaxWorld, up : BOOLEAN]
    /\ callers \in [Callers -> CallerType]
    /\ conns \in [1 .. MaxConn -> [proof : Proofs \cup {NoProof}, open : BOOLEAN,
                                   evicted : BOOLEAN, borrowers : 0 .. Cardinality(Callers)]]
    /\ pool \in [entry : [Gens -> 0 .. MaxConn], pending : SUBSET Gens, closed : BOOLEAN,
                 dialled : 0 .. MaxConn, changes : 0 .. MaxWorld]

PoolInit ==
    /\ target = [gen |-> 1, hold |-> 0, cred |-> 0, up |-> TRUE]
    /\ callers = [c \in Callers |-> Resting]
    /\ conns = [i \in 1 .. MaxConn |-> NoConn]
    /\ pool = [entry |-> [g \in Gens |-> 0], pending |-> {}, closed |-> FALSE, dialled |-> 0,
               changes |-> 0]

CallerAt(c, step) == callers[c].step = step
SetCaller(c, r) == callers' = [callers EXCEPT ![c] = r]
CallFails(c) == SetCaller(c, Resting)
Key(c) == callers[c].fence.gen

-----------------------------------------------------------------------------
(* The entries.  The mutex is held in every step here.                     *)

\* evictLocked: whoever still uses the connection keeps it.
Evicted(x) == [x EXCEPT !.evicted = TRUE, !.open = @ /\ x.borrowers > 0]
EvictEntry(g) ==
    /\ conns' = IF pool.entry[g] = 0 THEN conns
                ELSE [conns EXCEPT ![pool.entry[g]] = Evicted(@)]
    /\ pool' = [pool EXCEPT !.entry[g] = 0]

Release(c) ==
    /\ CallerAt(c, "using") /\ CallFails(c)
    /\ LET x == conns[callers[c].conn]
           last == x.borrowers = 1
       IN conns' = [conns EXCEPT ![callers[c].conn] =
              [x EXCEPT !.borrowers = @ - 1,
                        !.open = @ /\ ~(last /\ (x.evicted \/ pool.closed))]]
    /\ UNCHANGED <<target, pool>>

EvictIdle(g) ==
    /\ pool.entry[g] # 0 /\ conns[pool.entry[g]].borrowers = 0
    /\ EvictEntry(g)
    /\ UNCHANGED <<target, callers>>

ClosePool ==
    /\ ~pool.closed
    /\ pool' = [pool EXCEPT !.closed = TRUE, !.entry = [g \in Gens |-> 0]]
    /\ conns' = [i \in 1 .. MaxConn |->
                    IF i \in {pool.entry[g] : g \in Gens}
                    THEN [conns[i] EXCEPT !.evicted = TRUE, !.open = FALSE] ELSE conns[i]]
    /\ UNCHANGED <<target, callers>>

-----------------------------------------------------------------------------
(* acquire.                                                                *)

\* The fence was captured when the caller read the Environment, perhaps a while ago.
BeginCall(c) ==
    /\ CallerAt(c, "idle")
    /\ SetCaller(c, [Resting EXCEPT !.step = "read", !.creds = {target.cred},
                                    !.fence = [gen |-> target.gen, hold |-> target.hold]])
    /\ UNCHANGED <<target, conns, pool>>

\* Revalidate: an uncached read of the Environment.  If it fails, or finds another
\* execution, the first proof invalidates the entry; the second only fails the dial.
FenceHolds(c) ==
    target.up /\ target.gen = callers[c].fence.gen /\ target.hold = callers[c].fence.hold
ProofFails(c) ==
    IF callers[c].again
    THEN /\ SetCaller(c, [callers[c] EXCEPT !.step = "install", !.failed = TRUE])
         /\ UNCHANGED <<conns, pool>>
    ELSE CallFails(c) /\ EvictEntry(Key(c))
Revalidate(c) ==
    /\ CallerAt(c, "read")
    /\ \/ /\ ~callers[c].again /\ pool.closed
          /\ CallFails(c) /\ UNCHANGED <<conns, pool>>
       \/ /\ callers[c].again \/ ~pool.closed
          /\ \/ ProofFails(c)
             \/ /\ FenceHolds(c)
                /\ SetCaller(c, [callers[c] EXCEPT !.step = "prove",
                        !.env = [gen |-> target.gen, hold |-> target.hold, cred |-> target.cred]])
                /\ UNCHANGED <<conns, pool>>
    /\ UNCHANGED target
\* resolveProcessTargetForEnvironment: the Pod must be of the generation just read, and
\* the credential must be the one bound to that Pod.
Prove(c) ==
    /\ CallerAt(c, "prove")
    /\ \/ ProofFails(c)
       \/ LET p == [callers[c].env EXCEPT !.cred = target.cred] IN
          /\ target.up /\ target.gen = p.gen
          /\ SetCaller(c, IF callers[c].again
                          THEN [callers[c] EXCEPT !.step = "install", !.current = p]
                          ELSE [callers[c] EXCEPT !.step = "lease", !.proof = p])
          /\ UNCHANGED <<conns, pool>>
    /\ UNCHANGED target

\* Mutant: an entry of the same execution is good enough.
Matches_Key(p, q) == p.gen = q.gen
Matches(p, q) == p = q
\* Under the mutex: reuse the entry, or evict it and wait for a dial or begin one.
Lease(c) ==
    LET e == pool.entry[Key(c)]
        reuse == e # 0 /\ Matches(conns[e].proof, callers[c].proof)
        wait == Key(c) \in pool.pending
    IN
    /\ CallerAt(c, "lease")
    /\ IF pool.closed THEN CallFails(c) /\ UNCHANGED <<conns, pool>>
       ELSE IF reuse
       THEN /\ conns' = [conns EXCEPT ![e].borrowers = @ + 1]
            /\ SetCaller(c, [callers[c] EXCEPT !.step = "using", !.conn = e])
            /\ UNCHANGED pool
       ELSE /\ conns' = IF e = 0 THEN conns ELSE [conns EXCEPT ![e] = Evicted(@)]
            /\ pool' = [pool EXCEPT !.entry[Key(c)] = 0,
                                    !.pending = IF wait THEN @ ELSE @ \cup {Key(c)}]
            /\ SetCaller(c, [callers[c] EXCEPT !.step = IF wait THEN "waiting" ELSE "dial"])
    /\ UNCHANGED target
\* The caller gives up, or the pool closes.
StopWaiting(c) ==
    /\ CallerAt(c, "waiting") /\ CallFails(c)
    /\ UNCHANGED <<target, conns, pool>>

\* open: dial with what was proved, then prove again.
Dial(c) ==
    /\ CallerAt(c, "dial")
    /\ \/ /\ pool.dialled < MaxConn
          /\ pool' = [pool EXCEPT !.dialled = @ + 1]
          /\ conns' = [conns EXCEPT ![pool.dialled + 1] =
                          [NoConn EXCEPT !.proof = callers[c].proof, !.open = TRUE]]
          /\ SetCaller(c, [callers[c] EXCEPT !.step = "read", !.again = TRUE, !.conn = pool.dialled + 1])
       \/ /\ SetCaller(c, [callers[c] EXCEPT !.step = "install", !.failed = TRUE])
          /\ UNCHANGED <<conns, pool>>
    /\ UNCHANGED target

Installs(c) ==
    ~callers[c].failed /\ Matches(callers[c].proof, callers[c].current) /\ ~pool.closed
\* Mutant: a dial that failed wakes nobody.
WakesWaiter_IfInstalled(c, x) == Installs(c) /\ CallerAt(x, "waiting") /\ Key(x) = Key(c)
\* Those who wait for this dial start again when it is over.
WakesWaiter(c, x) == CallerAt(x, "waiting") /\ Key(x) = Key(c)
Install(c) ==
    LET i == callers[c].conn IN
    /\ CallerAt(c, "install")
    /\ IF Installs(c)
       THEN /\ conns' = [conns EXCEPT ![i].borrowers = 1]
            /\ pool' = [pool EXCEPT !.pending = @ \ {Key(c)}, !.entry[Key(c)] = i]
       ELSE /\ conns' = IF i = 0 THEN conns ELSE [conns EXCEPT ![i].open = FALSE]
            /\ pool' = [pool EXCEPT !.pending = @ \ {Key(c)}]
    /\ callers' = [x \in Callers |->
          CASE x = c /\ Installs(c) -> [callers[x] EXCEPT !.step = "using"]
            [] x = c /\ ~Installs(c) -> Resting
            [] x # c /\ WakesWaiter(c, x) -> [callers[x] EXCEPT !.step = "read"]
            [] OTHER -> callers[x]]
    /\ UNCHANGED target

\* A new execution, another hold policy, another credential, or unreachable.
TargetChanges ==
    /\ pool.changes < MaxWorld /\ pool' = [pool EXCEPT !.changes = @ + 1]
    /\ target' \in {[target EXCEPT !.gen = @ + 1, !.cred = @ + 1, !.up = TRUE],
                    [target EXCEPT !.hold = @ + 1], [target EXCEPT !.cred = @ + 1],
                    [target EXCEPT !.up = FALSE]}
    /\ callers' = [c \in Callers |-> IF CallerAt(c, "idle") THEN callers[c]
                                     ELSE [callers[c] EXCEPT !.creds = @ \cup {target'.cred}]]
    /\ UNCHANGED conns

PoolNext ==
    \/ \E c \in Callers :
        \/ BeginCall(c) \/ Revalidate(c) \/ Prove(c) \/ Lease(c) \/ StopWaiting(c)
        \/ Dial(c) \/ Install(c) \/ Release(c)
    \/ \E g \in Gens : EvictIdle(g)
    \/ ClosePool \/ TargetChanges

PoolSpec == PoolInit /\ [][PoolNext]_poolVars
\* The calls an acquire makes come back.  Nobody is assumed to give up waiting.
PoolFairness ==
    \A c \in Callers : WF_poolVars(Revalidate(c) \/ Prove(c) \/ Lease(c) \/ Dial(c) \/ Install(c))

-----------------------------------------------------------------------------
\* Nothing leaks: a connection that is open is pooled, borrowed, or being opened by a
\* caller; a borrower's connection stays open unless the pool closes; and a closed pool
\* has nothing open but what a caller is about to close.
NothingLeaks ==
    LET opening(i) == \E c \in Callers : callers[c].conn = i /\ callers[c].again /\ ~CallerAt(c, "using")
    IN
    /\ \A i \in 1 .. MaxConn : conns[i].open =>
        \/ opening(i)
        \/ ~pool.closed /\ (conns[i].borrowers > 0 \/ i \in {pool.entry[g] : g \in Gens})
        \/ pool.closed /\ conns[i].evicted /\ conns[i].borrowers > 0
    /\ \A c \in Callers : CallerAt(c, "using") => conns[callers[c].conn].open \/ pool.closed

\* A lease is for the execution and the hold policy the caller fenced, over the credential
\* that was current at some time since the call began: "Mandatory uncached proof on every
\* attempted reuse".
LeaseIsFresh ==
    \A c \in Callers : CallerAt(c, "using") =>
        LET p == conns[callers[c].conn].proof IN
        /\ p.gen = callers[c].fence.gen /\ p.hold = callers[c].fence.hold
        /\ p.cred \in callers[c].creds

\* The pool of sandbox connections, under every interleaving of acquire, release, eviction,
\* dial and close: types, no leak, no stale lease (ProcessConnectionPool).
PoolSafe == PoolTypeOK /\ NothingLeaks /\ LeaseIsFresh

\* A caller that waits for the dial of another is released by it, whether it succeeds, fails or
\* finds the pool closed (acquire closes pending.ready on every path).
AcquireEnds == \A c \in Callers : callers[c].step = "waiting" ~> callers[c].step # "waiting"
=============================================================================
