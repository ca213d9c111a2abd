----------------------------- MODULE PoolProofs -----------------------------
(***************************************************************************)
(* The pool of sandbox connections is safe for any number of callers,      *)
(* connections and changes of the Environment.  The invariant says who may *)
(* hold a connection (an opener alone, an entry, or counted borrowers) and *)
(* what each caller has proved so far.  One lemma per operation.           *)
(***************************************************************************)
EXTENDS ConnectionPool, FiniteSetTheorems, TLAPS

\* A caller that opens a connection, and one that owes the others the end of a dial.
Opening(c) == callers[c].again /\ ~CallerAt(c, "using")
Dialling(c) == callers[c].step \in {"dial", "install"} \/ Opening(c)
Users(i) == {c \in Callers : CallerAt(c, "using") /\ callers[c].conn = i}
\* The proof is of the execution the caller fenced, over a credential current since.
FreshFor(c, p) ==
    p.gen = callers[c].fence.gen /\ p.hold = callers[c].fence.hold /\ p.cred \in callers[c].creds

TargetCounted ==
    target.gen <= pool.changes + 1 /\ target.hold <= pool.changes /\ target.cred <= pool.changes

CallerStanding(c) ==
    LET x == callers[c] IN
    /\ x.step = "idle" => ~x.again
    /\ x.step # "idle" => x.fence.gen \in Gens /\ target.cred \in x.creds
    /\ x.step = "prove" => x.env.gen = x.fence.gen /\ x.env.hold = x.fence.hold
    /\ x.step \in {"lease", "dial"} \/ Opening(c) => FreshFor(c, x.proof)
    /\ x.again => x.step \in {"read", "prove", "install", "using"} /\ x.conn \in 1 .. pool.dialled
    /\ x.step = "using" => x.conn \in 1 .. pool.dialled /\ FreshFor(c, conns[x.conn].proof)
    /\ x.step = "install" /\ ~x.again => x.failed
    /\ x.step # "using" /\ ~x.again => x.conn = 0
CallersStanding == \A c \in Callers : CallerStanding(c)

\* The connection being opened is the opener's alone.
OpenersStanding ==
    \A c \in Callers : Opening(c) =>
        /\ conns[callers[c].conn].open /\ ~conns[callers[c].conn].evicted /\ conns[callers[c].conn].proof = callers[c].proof
        /\ Users(callers[c].conn) = {}
        /\ \A g \in Gens : pool.entry[g] # callers[c].conn
        /\ \A d \in Callers : Opening(d) /\ callers[d].conn = callers[c].conn => d = c

\* One dial at a time for an execution, and no entry meanwhile.
DialsStanding ==
    /\ \A c \in Callers : Dialling(c) =>
        /\ Key(c) \in pool.pending
        /\ \A d \in Callers : Dialling(d) /\ Key(d) = Key(c) => d = c
    /\ \A g \in Gens : g \in pool.pending \/ pool.closed => pool.entry[g] = 0

EntriesStanding ==
    \A g \in Gens : pool.entry[g] # 0 =>
        /\ pool.entry[g] \in 1 .. pool.dialled
        /\ conns[pool.entry[g]].open /\ ~conns[pool.entry[g]].evicted
        /\ conns[pool.entry[g]].proof.gen = g

ConnsStanding ==
    \A i \in 1 .. MaxConn :
        /\ conns[i].borrowers = Cardinality(Users(i))
        /\ i > pool.dialled => ~conns[i].open
        /\ conns[i].open =>
            \/ \E c \in Callers : Opening(c) /\ callers[c].conn = i
            \/ \E g \in Gens : pool.entry[g] = i
            \/ conns[i].evicted /\ conns[i].borrowers > 0

UsersConnected == \A c \in Callers : CallerAt(c, "using") => conns[callers[c].conn].open \/ pool.closed

PoolInductive ==
    /\ PoolTypeOK /\ TargetCounted /\ CallersStanding /\ OpenersStanding /\ DialsStanding
    /\ EntriesStanding /\ ConnsStanding /\ UsersConnected

ConnType ==
    [proof : Proofs \cup {NoProof}, open : BOOLEAN, evicted : BOOLEAN, borrowers : 0 .. Cardinality(Callers)]

\* Any set of callers is finite, and no larger than all of them.
LEMMA CallersCounted ==
    ASSUME NEW S \in SUBSET Callers
    PROVE  IsFiniteSet(S) /\ Cardinality(S) \in 0 .. Cardinality(Callers) /\ Cardinality(Callers) \in Nat
  BY PoolAssumption, FS_Subset, FS_CardinalityType

\* The types, one by one.
LEMMA PoolTyped ==
    PoolTypeOK =>
        /\ target.gen \in Gens /\ target.hold \in 0 .. MaxWorld /\ target.cred \in 0 .. MaxWorld
        /\ callers \in [Callers -> CallerType] /\ conns \in [1 .. MaxConn -> ConnType]
        /\ pool.entry \in [Gens -> 0 .. MaxConn] /\ pool.pending \in SUBSET Gens
        /\ pool.closed \in BOOLEAN /\ pool.dialled \in 0 .. MaxConn /\ pool.changes \in 0 .. MaxWorld
  BY Zenon DEF PoolTypeOK, ConnType

\* A caller that uses a connection or opens one has it, and so does an entry that is there.
LEMMA ConnsInRange ==
    ASSUME PoolInductive
    PROVE  /\ \A c \in Callers : CallerAt(c, "using") \/ Opening(c) => callers[c].conn \in 1 .. MaxConn
           /\ \A g \in Gens : pool.entry[g] # 0 =>
                 /\ pool.entry[g] \in 1 .. MaxConn /\ pool.entry[g] \in 1 .. pool.dialled
                 /\ conns[pool.entry[g]].open /\ ~conns[pool.entry[g]].evicted /\ conns[pool.entry[g]].proof.gen = g
<1>1. pool.dialled \in 0 .. MaxConn /\ MaxConn \in Nat
  BY Zenon, PoolTyped, PoolAssumption DEF PoolInductive
<1>2. \A c \in Callers : CallerAt(c, "using") \/ Opening(c) => callers[c].conn \in 1 .. pool.dialled
  BY Zenon DEF PoolInductive, CallersStanding, CallerStanding, Opening, CallerAt
<1>3. \A g \in Gens : pool.entry[g] # 0 =>
          /\ pool.entry[g] \in 1 .. pool.dialled /\ conns[pool.entry[g]].open /\ ~conns[pool.entry[g]].evicted
          /\ conns[pool.entry[g]].proof.gen = g
  BY Zenon DEF PoolInductive, EntriesStanding
<1>4. \A i \in 1 .. pool.dialled : i \in 1 .. MaxConn
  BY <1>1
<1> QED
  BY Zenon, <1>2, <1>3, <1>4

\* A step of a caller that neither lends nor returns a connection, and opens or ends no dial.
PrivateStep(c, r) ==
    /\ SetCaller(c, r) /\ UNCHANGED <<target, conns, pool>> /\ r \in CallerType
    /\ callers[c].step # "using" /\ r.step # "using"
    /\ r.again <=> callers[c].again
    /\ r.again => r.conn = callers[c].conn /\ r.proof = callers[c].proof
    /\ r.step \in {"dial", "install"} \/ r.again <=> Dialling(c)
    /\ Dialling(c) => r.fence = callers[c].fence

\* Such a step keeps the invariant if it leaves its caller standing.
LEMMA PrivateKeeps ==
    ASSUME PoolInductive, NEW c \in Callers, NEW r, PrivateStep(c, r), CallerStanding(c)'
    PROVE  PoolInductive'
<1>t. callers \in [Callers -> CallerType] /\ r \in CallerType
  BY Zenon, PoolTyped DEF PoolInductive, PrivateStep
<1>c. callers' = [callers EXCEPT ![c] = r] /\ UNCHANGED <<target, conns, pool>>
  BY Zenon DEF PrivateStep, SetCaller
<1>r. callers'[c] = r /\ \A d \in Callers : d # c => callers'[d] = callers[d]
  BY Zenon, <1>t, <1>c
<1>1. PoolTypeOK' /\ TargetCounted'
  BY Zenon, <1>t, <1>c DEF PoolInductive, PoolTypeOK, TargetCounted
<1>2. CallersStanding'
  <2> SUFFICES ASSUME NEW d \in Callers, d # c PROVE CallerStanding(d)'
    BY Zenon DEF CallersStanding
  <2>1. CallerStanding(d) /\ callers'[d] = callers[d] /\ conns' = conns /\ pool' = pool /\ target' = target
    BY Zenon, <1>r, <1>c DEF PoolInductive, CallersStanding
  <2> QED
    BY <2>1 DEF CallerStanding, Opening, FreshFor, CallerAt
<1>o. \A d \in Callers : /\ Opening(d)' <=> Opening(d)
                         /\ Opening(d) => callers'[d].conn = callers[d].conn /\ callers'[d].proof = callers[d].proof
  BY Zenon, <1>r DEF Opening, PrivateStep, CallerAt
<1>d. \A d \in Callers : Dialling(d)' <=> Dialling(d)
  BY Zenon, <1>r, <1>o DEF Dialling, PrivateStep, Opening, CallerAt
<1>k. \A d \in Callers : Dialling(d) => Key(d)' = Key(d)
  BY Zenon, <1>r DEF PrivateStep, Key
<1>u. \A i : Users(i)' = Users(i)
  BY Zenon, <1>r DEF Users, CallerAt, PrivateStep
<1>3. OpenersStanding'
  BY <1>c, <1>o, <1>u DEF PoolInductive, OpenersStanding
<1>4. DialsStanding'
  BY Zenon, <1>c, <1>d, <1>k DEF PoolInductive, DialsStanding
<1>5. EntriesStanding'
  BY Zenon, <1>c DEF PoolInductive, EntriesStanding
<1>6. ConnsStanding'
  BY <1>c, <1>o, <1>u DEF PoolInductive, ConnsStanding
<1>7. UsersConnected'
  BY Zenon, <1>r, <1>c DEF PoolInductive, UsersConnected, CallerAt, PrivateStep
<1> QED
  BY Zenon, <1>1, <1>2, <1>3, <1>4, <1>5, <1>6, <1>7 DEF PoolInductive

\* A resting caller is of the type of a caller.
LEMMA RestingTyped == Resting \in CallerType
<1>1. NoProof \in Proofs \cup {NoProof} /\ 0 \in 0 .. MaxConn /\ "idle" \in {"idle", "read", "prove", "lease",
        "waiting", "dial", "install", "using"} /\ {} \in SUBSET (0 .. MaxWorld)
        /\ [gen |-> 0, hold |-> 0] \in [gen : 0 .. MaxWorld + 1, hold : 0 .. MaxWorld]
  BY PoolAssumption
<1> QED
  BY Zenon, <1>1 DEF Resting, CallerType

\* A call that fails before it dials, or after it waited, leaves nothing behind.
LEMMA FailureKeeps ==
    ASSUME PoolInductive, NEW c \in Callers, CallFails(c), UNCHANGED <<target, conns, pool>>,
           callers[c].step # "using", ~Dialling(c)
    PROVE  PoolInductive'
<1>t. callers \in [Callers -> CallerType]
  BY Zenon, PoolTyped DEF PoolInductive
<1>1. callers'[c] = Resting
  BY Zenon, <1>t DEF CallFails, SetCaller
<1>2. PrivateStep(c, Resting)
  BY Zenon, RestingTyped DEF CallFails, PrivateStep, Resting, Dialling, Opening, CallerAt
<1>3. CallerStanding(c)'
  BY <1>1 DEF CallerStanding, Resting, Opening, CallerAt
<1> QED
  BY Zenon, <1>2, <1>3, PrivateKeeps

\* acquire begins with the fence its caller captured.
LEMMA BeginCallKeeps == ASSUME PoolInductive, NEW c \in Callers, BeginCall(c) PROVE PoolInductive'
<1> DEFINE r == [Resting EXCEPT !.step = "read", !.creds = {target.cred},
                                !.fence = [gen |-> target.gen, hold |-> target.hold]]
<1>t. /\ callers \in [Callers -> CallerType] /\ target.gen \in Gens /\ target.hold \in 0 .. MaxWorld
      /\ target.cred \in 0 .. MaxWorld
  BY Zenon, PoolTyped DEF PoolInductive
<1>1. /\ {target.cred} \in SUBSET (0 .. MaxWorld)
      /\ [gen |-> target.gen, hold |-> target.hold] \in [gen : 0 .. MaxWorld + 1, hold : 0 .. MaxWorld]
      /\ "read" \in {"idle", "read", "prove", "lease", "waiting", "dial", "install", "using"}
  BY <1>t, PoolAssumption DEF Gens
<1>2. r \in CallerType
  BY Zenon, <1>1, RestingTyped DEF CallerType
<1>3. r.step = "read" /\ ~r.again /\ r.conn = 0 /\ r.fence.gen = target.gen /\ r.creds = {target.cred}
  BY Zenon DEF Resting
<1>4. SetCaller(c, r) /\ UNCHANGED <<target, conns, pool>> /\ callers[c].step = "idle" /\ ~callers[c].again
  BY Zenon DEF BeginCall, PoolInductive, CallersStanding, CallerStanding, CallerAt
<1> HIDE DEF r
<1>5. callers'[c] = r
  BY Zenon, <1>4, <1>t DEF SetCaller
<1>6. PrivateStep(c, r)
  BY Zenon, <1>2, <1>3, <1>4 DEF PrivateStep, Dialling, Opening
<1>7. CallerStanding(c)'
  BY Zenon, <1>3, <1>4, <1>5, <1>t DEF CallerStanding, Opening, FreshFor, CallerAt
<1> QED
  BY Zenon, <1>6, <1>7, PrivateKeeps

\* The dial failed, or its second proof did: the caller goes on to close and to wake the others.
LEMMA DialFailureKeeps ==
    ASSUME PoolInductive, NEW c \in Callers, UNCHANGED <<target, conns, pool>>,
           SetCaller(c, [callers[c] EXCEPT !.step = "install", !.failed = TRUE]),
           callers[c].step = "dial" \/ (callers[c].step \in {"read", "prove"} /\ callers[c].again)
    PROVE  PoolInductive'
<1> DEFINE r == [callers[c] EXCEPT !.step = "install", !.failed = TRUE]
<1>t. callers \in [Callers -> CallerType] /\ callers[c] \in CallerType
  BY Zenon, PoolTyped DEF PoolInductive
<1>1. r \in CallerType
  BY Zenon, <1>t DEF CallerType
<1>2. /\ r.step = "install" /\ r.failed /\ r.again = callers[c].again /\ r.conn = callers[c].conn
      /\ r.proof = callers[c].proof /\ r.fence = callers[c].fence /\ r.creds = callers[c].creds
  BY Zenon, <1>t DEF CallerType
<1>3. SetCaller(c, r)
  OBVIOUS
<1> HIDE DEF r
<1>4. callers'[c] = r
  BY Zenon, <1>3, <1>t DEF SetCaller
<1>s. CallerStanding(c)
  BY Zenon DEF PoolInductive, CallersStanding
<1>5. PrivateStep(c, r)
  BY Zenon, <1>1, <1>2, <1>3 DEF PrivateStep, Dialling, Opening, CallerAt
<1>6. CallerStanding(c)'
  BY Zenon, <1>2, <1>4, <1>s DEF CallerStanding, Opening, FreshFor, CallerAt
<1> QED
  BY Zenon, <1>5, <1>6, PrivateKeeps

\* What evictLocked does to the connections.
LEMMA EvictionEffect ==
    ASSUME PoolInductive, NEW g \in Gens,
           conns' = IF pool.entry[g] = 0 THEN conns ELSE [conns EXCEPT ![pool.entry[g]] = Evicted(@)]
    PROVE  /\ conns' \in [1 .. MaxConn -> ConnType]
           /\ \A i \in 1 .. MaxConn :
                /\ conns'[i].proof = conns[i].proof /\ conns'[i].borrowers = conns[i].borrowers
                /\ i # pool.entry[g] => conns'[i] = conns[i]
                /\ i = pool.entry[g] => conns'[i].evicted /\ (conns'[i].open <=> conns[i].open /\ conns[i].borrowers > 0)
<1>t. conns \in [1 .. MaxConn -> ConnType] /\ pool.entry[g] \in 0 .. MaxConn /\ MaxConn \in Nat
  BY Zenon, PoolTyped, PoolAssumption DEF PoolInductive
<1>1. ASSUME NEW x \in ConnType
      PROVE  /\ Evicted(x) \in ConnType /\ Evicted(x).proof = x.proof /\ Evicted(x).borrowers = x.borrowers
             /\ Evicted(x).evicted /\ (Evicted(x).open <=> x.open /\ x.borrowers > 0)
  <2>1. (x.open /\ x.borrowers > 0) \in BOOLEAN
    OBVIOUS
  <2>2. Evicted(x) \in ConnType
    BY Zenon, <2>1 DEF Evicted, ConnType
  <2>3. Evicted(x).open = (x.open /\ x.borrowers > 0) /\ Evicted(x).evicted
    BY Zenon DEF Evicted, ConnType
  <2> QED
    BY Zenon, <2>2, <2>3 DEF Evicted, ConnType
<1>2. CASE pool.entry[g] = 0
  BY <1>2, <1>t
<1>3. CASE pool.entry[g] # 0
  <2>1. pool.entry[g] \in 1 .. MaxConn
    BY <1>3, <1>t
  <2>2. conns' = [conns EXCEPT ![pool.entry[g]] = Evicted(conns[pool.entry[g]])]
    BY Zenon, <1>3
  <2>3. conns'[pool.entry[g]] = Evicted(conns[pool.entry[g]])
        /\ \A i \in 1 .. MaxConn : i # pool.entry[g] => conns'[i] = conns[i]
    BY Zenon, <2>1, <2>2, <1>t
  <2> QED
    BY <2>1, <2>2, <2>3, <1>1, <1>t
<1> QED
  BY Zenon, <1>2, <1>3

PoolType ==
    [entry : [Gens -> 0 .. MaxConn], pending : SUBSET Gens, closed : BOOLEAN,
     dialled : 0 .. MaxConn, changes : 0 .. MaxWorld]
\* An entry is evicted; meanwhile callers that hold nothing may move.
Evicting(g) ==
    /\ conns' = IF pool.entry[g] = 0 THEN conns ELSE [conns EXCEPT ![pool.entry[g]] = Evicted(@)]
    /\ pool' \in PoolType /\ pool'.entry = [pool.entry EXCEPT ![g] = 0]
    /\ pool'.closed = pool.closed /\ pool'.dialled = pool.dialled /\ pool'.changes = pool.changes
    /\ UNCHANGED target
MovesFreely(d) ==
    /\ ~CallerAt(d, "using") /\ ~Opening(d)
    /\ callers'[d].step # "using" /\ ~callers'[d].again /\ CallerStanding(d)'

\* Eviction keeps the invariant: whoever still uses the connection keeps it open.
LEMMA EvictingKeeps ==
    ASSUME PoolInductive, NEW g \in Gens, Evicting(g), callers' \in [Callers -> CallerType],
           \A d \in Callers : callers'[d] = callers[d] \/ MovesFreely(d),
           DialsStanding'
    PROVE  PoolInductive'
<1>t. /\ callers \in [Callers -> CallerType] /\ conns \in [1 .. MaxConn -> ConnType]
      /\ pool.entry \in [Gens -> 0 .. MaxConn] /\ MaxConn \in Nat
  BY Zenon, PoolTyped, PoolAssumption DEF PoolInductive
<1>p. /\ pool'.entry = [pool.entry EXCEPT ![g] = 0] /\ pool'.closed = pool.closed
      /\ pool'.dialled = pool.dialled /\ pool'.changes = pool.changes /\ pool' \in PoolType
      /\ target' = target
  BY Zenon DEF Evicting
<1>e. pool'.entry[g] = 0 /\ \A h \in Gens : h # g => pool'.entry[h] = pool.entry[h]
  BY Zenon, <1>p, <1>t
<1>v. /\ conns' \in [1 .. MaxConn -> ConnType]
      /\ \A i \in 1 .. MaxConn :
           /\ conns'[i].proof = conns[i].proof /\ conns'[i].borrowers = conns[i].borrowers
           /\ i # pool.entry[g] => conns'[i] = conns[i]
           /\ i = pool.entry[g] => conns'[i].evicted /\ (conns'[i].open <=> conns[i].open /\ conns[i].borrowers > 0)
  BY Zenon, EvictionEffect DEF Evicting
<1>1. PoolTypeOK' /\ TargetCounted'
  BY Zenon, <1>p, <1>v DEF PoolInductive, PoolTypeOK, TargetCounted, ConnType, PoolType, Evicting
<1>o. \A d \in Callers : /\ Opening(d)' <=> Opening(d)
                         /\ Opening(d) => callers'[d] = callers[d]
                         /\ CallerAt(d, "using")' <=> CallerAt(d, "using")
                         /\ CallerAt(d, "using") => callers'[d] = callers[d]
  BY Zenon DEF Opening, CallerAt, MovesFreely
<1>u. \A i : Users(i)' = Users(i)
  BY Zenon, <1>o DEF Users
<1>n. \A c \in Callers : CallerAt(c, "using") \/ Opening(c) => callers[c].conn \in 1 .. MaxConn
  BY Zenon, ConnsInRange
<1>2. CallersStanding'
  <2> SUFFICES ASSUME NEW c \in Callers PROVE CallerStanding(c)'
    BY Zenon DEF CallersStanding
  <2>1. CallerStanding(c)
    BY Zenon DEF PoolInductive, CallersStanding
  <2>2. CASE callers'[c] = callers[c]
    <3>1. callers[c].step = "using" => conns'[callers[c].conn].proof = conns[callers[c].conn].proof
      BY Zenon, <1>n, <1>v DEF CallerAt
    <3>2. pool'.dialled = pool.dialled /\ target' = target
      BY Zenon, <1>p
    <3> QED
      BY Zenon, <2>1, <2>2, <3>1, <3>2 DEF CallerStanding, Opening, CallerAt, FreshFor
  <2> QED
    BY Zenon, <2>2 DEF MovesFreely
<1>3. OpenersStanding'
  <2> SUFFICES ASSUME NEW c \in Callers, Opening(c)'
               PROVE  /\ conns'[callers'[c].conn].open /\ ~conns'[callers'[c].conn].evicted /\ conns'[callers'[c].conn].proof = callers'[c].proof
                      /\ Users(callers[c].conn)' = {}
                      /\ \A h \in Gens : pool'.entry[h] # callers'[c].conn
                      /\ \A d \in Callers : Opening(d)' /\ callers'[d].conn = callers'[c].conn => d = c
    BY Zenon DEF OpenersStanding
  <2>o. Opening(c) /\ callers'[c] = callers[c]
    BY Zenon, <1>o
  <2>1. /\ conns[callers[c].conn].open /\ ~conns[callers[c].conn].evicted /\ conns[callers[c].conn].proof = callers[c].proof
        /\ Users(callers[c].conn) = {}
        /\ \A h \in Gens : pool.entry[h] # callers[c].conn
        /\ \A d \in Callers : Opening(d) /\ callers[d].conn = callers[c].conn => d = c
    BY Zenon, <2>o DEF PoolInductive, OpenersStanding
  <2>2. callers[c].conn # 0 /\ callers[c].conn \in 1 .. MaxConn
    BY <1>n, <2>o
  <2>3. conns'[callers[c].conn] = conns[callers[c].conn]
    BY Zenon, <2>1, <2>2, <1>v
  <2>4. \A h \in Gens : pool'.entry[h] # callers[c].conn
    BY Zenon, <2>1, <2>2, <1>e
  <2>5. \A d \in Callers : Opening(d)' /\ callers'[d].conn = callers'[c].conn => d = c
    BY Zenon, <2>1, <2>o, <1>o
  <2>6. Users(callers[c].conn)' = {}
    BY Zenon, <2>1, <1>o, <2>o DEF Users
  <2> QED
    BY Zenon, <2>1, <2>3, <2>4, <2>5, <2>6, <2>o
<1>5. EntriesStanding'
  <2> SUFFICES ASSUME NEW h \in Gens, pool'.entry[h] # 0
               PROVE  /\ pool'.entry[h] \in 1 .. pool'.dialled
                      /\ conns'[pool'.entry[h]].open /\ ~conns'[pool'.entry[h]].evicted
                      /\ conns'[pool'.entry[h]].proof.gen = h
    BY Zenon DEF EntriesStanding
  <2>1. h # g /\ pool'.entry[h] = pool.entry[h]
    BY Zenon, <1>e
  <2>2. /\ pool.entry[h] \in 1 .. pool.dialled /\ conns[pool.entry[h]].open /\ ~conns[pool.entry[h]].evicted
        /\ conns[pool.entry[h]].proof.gen = h
    BY Zenon, <2>1 DEF PoolInductive, EntriesStanding
  <2>3. pool.entry[h] \in 1 .. MaxConn
    BY <2>1, <1>t
  <2>4. pool.entry[h] # pool.entry[g]
    BY Zenon, <2>1, <2>2 DEF PoolInductive, EntriesStanding
  <2> QED
    BY <2>1, <2>2, <2>3, <2>4, <1>v, <1>p
<1>6. ConnsStanding'
  <2> SUFFICES ASSUME NEW i \in 1 .. MaxConn
               PROVE  /\ conns'[i].borrowers = Cardinality(Users(i)')
                      /\ i > pool'.dialled => ~conns'[i].open
                      /\ conns'[i].open =>
                          \/ \E c \in Callers : Opening(c)' /\ callers'[c].conn = i
                          \/ \E h \in Gens : pool'.entry[h] = i
                          \/ conns'[i].evicted /\ conns'[i].borrowers > 0
    BY Zenon DEF ConnsStanding
  <2>1. /\ conns[i].borrowers = Cardinality(Users(i)) /\ (i > pool.dialled => ~conns[i].open)
        /\ conns[i].open =>
              \/ \E c \in Callers : Opening(c) /\ callers[c].conn = i
              \/ \E h \in Gens : pool.entry[h] = i
              \/ conns[i].evicted /\ conns[i].borrowers > 0
    BY Zenon DEF PoolInductive, ConnsStanding
  <2>2. CASE i = pool.entry[g]
    BY Zenon, <2>1, <2>2, <1>v, <1>u, <1>p
  <2>3. CASE i # pool.entry[g]
    <3>1. ASSUME NEW h \in Gens, pool.entry[h] = i PROVE pool'.entry[h] = i
      BY Zenon, <3>1, <2>3, <1>e
    <3> QED
      BY <2>1, <2>3, <3>1, <1>v, <1>u, <1>p, <1>o
  <2> QED
    BY Zenon, <2>2, <2>3
<1>7. UsersConnected'
  <2> SUFFICES ASSUME NEW c \in Callers, CallerAt(c, "using")
               PROVE  conns'[callers'[c].conn].open \/ pool'.closed
    BY Zenon, <1>o DEF UsersConnected
  <2>1. callers'[c].conn = callers[c].conn /\ callers[c].conn \in 1 .. MaxConn
    BY Zenon, <1>o, <1>n
  <2>2. conns[callers[c].conn].open \/ pool.closed
    BY Zenon DEF PoolInductive, UsersConnected
  <2>3. conns[callers[c].conn].borrowers > 0
    <3>1. Users(callers[c].conn) \in SUBSET Callers /\ c \in Users(callers[c].conn)
      BY Zenon DEF Users
    <3>2. Cardinality(Users(callers[c].conn)) \in Nat /\ Cardinality(Users(callers[c].conn)) # 0
      BY <3>1, CallersCounted, FS_EmptySet
    <3> QED
      BY <3>2, <2>1 DEF PoolInductive, ConnsStanding
  <2> QED
    BY Zenon, <2>1, <2>2, <2>3, <1>v, <1>p
<1> QED
  BY Zenon, <1>1, <1>2, <1>3, <1>5, <1>6, <1>7 DEF PoolInductive

\* Eviction, alone or by a call whose first proof failed.
LEMMA EvictionKeeps ==
    ASSUME PoolInductive, NEW g \in Gens, EvictEntry(g), UNCHANGED target,
           UNCHANGED callers \/ \E c \in Callers : CallFails(c) /\ ~CallerAt(c, "using") /\ ~Dialling(c)
    PROVE  PoolInductive'
<1>t. callers \in [Callers -> CallerType] /\ pool.entry \in [Gens -> 0 .. MaxConn] /\ pool \in PoolType
  BY Zenon, PoolTyped DEF PoolInductive, PoolTypeOK, PoolType
<1>p. /\ pool' \in PoolType /\ pool'.entry = [pool.entry EXCEPT ![g] = 0] /\ pool'.pending = pool.pending
      /\ pool'.closed = pool.closed /\ pool'.dialled = pool.dialled /\ pool'.changes = pool.changes
  <2> DEFINE e == [pool.entry EXCEPT ![g] = 0]
  <2>1. pool' = [pool EXCEPT !.entry = e]
    BY Zenon, <1>t DEF EvictEntry, PoolType
  <2>2. e \in [Gens -> 0 .. MaxConn]
    BY <1>t, PoolAssumption
  <2> HIDE DEF e
  <2>3. pool' \in PoolType
    BY Zenon, <2>1, <2>2, <1>t DEF PoolType
  <2>4. pool'.entry = e
    BY Zenon, <2>1, <1>t DEF PoolType
  <2> QED
    BY Zenon, <2>1, <2>3, <2>4, <1>t DEF PoolType, e
<1>e. pool'.entry[g] = 0 /\ \A h \in Gens : h # g => pool'.entry[h] = pool.entry[h]
  BY Zenon, <1>p, <1>t
<1>1. Evicting(g)
  BY Zenon, <1>p DEF Evicting, EvictEntry
<1>r. Resting.step = "idle" /\ ~Resting.again /\ Resting.conn = 0
  BY Zenon DEF Resting
<1>2. /\ callers' \in [Callers -> CallerType]
      /\ \A d \in Callers : callers'[d] = callers[d]
            \/ (callers'[d] = Resting /\ ~CallerAt(d, "using") /\ ~Dialling(d))
  <2>1. CASE UNCHANGED callers
    BY Zenon, <2>1, <1>t
  <2>2. ASSUME NEW c \in Callers, CallFails(c), ~CallerAt(c, "using"), ~Dialling(c)
        PROVE  /\ callers' \in [Callers -> CallerType]
               /\ \A d \in Callers : callers'[d] = callers[d]
                    \/ (callers'[d] = Resting /\ ~CallerAt(d, "using") /\ ~Dialling(d))
    BY Zenon, <2>2, <1>t, RestingTyped DEF CallFails, SetCaller
  <2> QED
    BY Zenon, <2>1, <2>2
<1>3. \A d \in Callers : callers'[d] = callers[d] \/ MovesFreely(d)
  BY Zenon, <1>2, <1>r DEF MovesFreely, Dialling, CallerStanding, Opening, CallerAt
<1>4. \A d \in Callers : (Dialling(d)' <=> Dialling(d)) /\ (Dialling(d) => Key(d)' = Key(d))
  BY Zenon, <1>2, <1>r DEF Dialling, Opening, CallerAt, Key
<1>5. DialsStanding'
  BY Zenon, <1>4, <1>p, <1>e DEF PoolInductive, DialsStanding
<1> QED
  BY Zenon, <1>1, <1>2, <1>3, <1>5, EvictingKeeps

\* A proof that failed: the first evicts, the second ends the dial.
LEMMA ProofFailureKeeps ==
    ASSUME PoolInductive, NEW c \in Callers, callers[c].step \in {"read", "prove"}, ProofFails(c),
           UNCHANGED target
    PROVE  PoolInductive'
<1>1. CASE callers[c].again
  BY Zenon, <1>1, DialFailureKeeps DEF ProofFails
<1>2. CASE ~callers[c].again
  <2>1. Key(c) \in Gens
    BY Zenon DEF PoolInductive, CallersStanding, CallerStanding, Key
  <2>2. CallFails(c) /\ EvictEntry(Key(c))
    BY Zenon, <1>2 DEF ProofFails
  <2>3. ~CallerAt(c, "using") /\ ~Dialling(c)
    BY Zenon, <1>2 DEF CallerAt, Dialling, Opening
  <2> HIDE DEF Key
  <2> QED
    BY Zenon, <2>1, <2>2, <2>3, EvictionKeeps
<1> QED
  BY Zenon, <1>1, <1>2

\* The uncached read of the Environment keeps the invariant, found or not.
LEMMA RevalidateKeeps == ASSUME PoolInductive, NEW c \in Callers, Revalidate(c) PROVE PoolInductive'
<1>t. /\ callers \in [Callers -> CallerType] /\ callers[c] \in CallerType
      /\ target.gen \in Gens /\ target.hold \in 0 .. MaxWorld /\ target.cred \in 0 .. MaxWorld
  BY Zenon, PoolTyped DEF PoolInductive
<1>s. CallerStanding(c) /\ callers[c].step = "read" /\ UNCHANGED target
  BY Zenon DEF PoolInductive, CallersStanding, Revalidate, CallerAt
<1>1. CASE ~callers[c].again /\ CallFails(c) /\ UNCHANGED <<conns, pool>>
  BY Zenon, <1>1, <1>s, FailureKeeps DEF Dialling, Opening
<1>2. CASE ProofFails(c)
  BY Zenon, <1>2, <1>s, ProofFailureKeeps
<1>3. CASE /\ FenceHolds(c) /\ UNCHANGED <<conns, pool>>
           /\ SetCaller(c, [callers[c] EXCEPT !.step = "prove",
                  !.env = [gen |-> target.gen, hold |-> target.hold, cred |-> target.cred]])
  <2> DEFINE p == [gen |-> target.gen, hold |-> target.hold, cred |-> target.cred]
             r == [callers[c] EXCEPT !.step = "prove", !.env = p]
  <2>1. p \in Proofs \cup {NoProof} /\ p.gen = callers[c].fence.gen /\ p.hold = callers[c].fence.hold
    BY Zenon, <1>t, <1>3 DEF Proofs, FenceHolds
  <2>2. SetCaller(c, r)
    BY Zenon, <1>3
  <2> HIDE DEF p
  <2>3. r \in CallerType
    BY Zenon, <1>t, <2>1 DEF CallerType
  <2>4. /\ r.step = "prove" /\ r.env = p /\ r.again = callers[c].again /\ r.conn = callers[c].conn
        /\ r.proof = callers[c].proof /\ r.fence = callers[c].fence /\ r.creds = callers[c].creds
    BY Zenon, <1>t DEF CallerType
  <2> HIDE DEF r
  <2>5. callers'[c] = r
    BY Zenon, <2>2, <1>t DEF SetCaller
  <2>6. PrivateStep(c, r)
    BY Zenon, <2>2, <2>3, <2>4, <1>s, <1>3 DEF PrivateStep, Dialling, Opening, CallerAt
  <2>7. CallerStanding(c)'
    BY Zenon, <2>1, <2>4, <2>5, <1>s, <1>3 DEF CallerStanding, Opening, FreshFor, CallerAt
  <2> QED
    BY <2>6, <2>7, PrivateKeeps
<1> QED
  BY Zenon, <1>1, <1>2, <1>3 DEF Revalidate

\* So does the proof of the Pod and its credential, the first and the second.
LEMMA ProveKeeps == ASSUME PoolInductive, NEW c \in Callers, Prove(c) PROVE PoolInductive'
<1>t. /\ callers \in [Callers -> CallerType] /\ callers[c] \in CallerType
      /\ target.gen \in Gens /\ target.hold \in 0 .. MaxWorld /\ target.cred \in 0 .. MaxWorld
  BY PoolTyped DEF PoolInductive
<1>s. CallerStanding(c) /\ callers[c].step = "prove" /\ UNCHANGED target
  BY Zenon DEF PoolInductive, CallersStanding, Prove, CallerAt
<1>1. CASE ProofFails(c)
  BY Zenon, <1>1, <1>s, ProofFailureKeeps
<1> DEFINE p == [callers[c].env EXCEPT !.cred = target.cred]
           r == IF callers[c].again THEN [callers[c] EXCEPT !.step = "install", !.current = p]
                ELSE [callers[c] EXCEPT !.step = "lease", !.proof = p]
<1>2. CASE SetCaller(c, r) /\ UNCHANGED <<conns, pool>>
  <2>1. callers[c].env \in Proofs
    BY <1>t, <1>s, PoolAssumption DEF CallerStanding, CallerType, NoProof, Gens
  <2>2. p \in Proofs \cup {NoProof} /\ p.gen = callers[c].fence.gen /\ p.hold = callers[c].fence.hold /\ p.cred = target.cred
    BY Zenon, <2>1, <1>s, <1>t DEF Proofs, CallerStanding
  <2> HIDE DEF p
  <2>3. r \in CallerType
    BY Zenon, <1>t, <2>2 DEF CallerType
  <2>4. /\ r.again = callers[c].again /\ r.conn = callers[c].conn
        /\ r.fence = callers[c].fence /\ r.creds = callers[c].creds
        /\ callers[c].again => r.step = "install" /\ r.proof = callers[c].proof
        /\ ~callers[c].again => r.step = "lease" /\ r.proof = p
    BY Zenon, <1>t DEF CallerType
  <2>5. SetCaller(c, r)
    BY Zenon, <1>2
  <2> HIDE DEF r
  <2>6. callers'[c] = r
    BY <2>5, <1>t DEF SetCaller
  <2>7. PrivateStep(c, r)
    BY Zenon, <2>3, <2>4, <2>5, <1>s, <1>2 DEF PrivateStep, Dialling, Opening, CallerAt
  <2>8. CallerStanding(c)'
    BY Zenon, <2>2, <2>4, <2>6, <1>s, <1>2 DEF CallerStanding, Opening, FreshFor, CallerAt
  <2> QED
    BY <2>7, <2>8, PrivateKeeps
<1> QED
  BY Zenon, <1>1, <1>2 DEF Prove

\* A pooled connection is lent: only to a caller that has just proved the very target it was
\* dialled for.
LEMMA ReuseKeeps ==
    ASSUME PoolInductive, NEW c \in Callers, CallerAt(c, "lease"),
           NEW e, e = pool.entry[Key(c)], e # 0,
           Matches(conns[e].proof, callers[c].proof), UNCHANGED <<target, pool>>,
           conns' = [conns EXCEPT ![e].borrowers = @ + 1],
           SetCaller(c, [callers[c] EXCEPT !.step = "using", !.conn = e])
    PROVE  PoolInductive'
<1> DEFINE r == [callers[c] EXCEPT !.step = "using", !.conn = e]
<1>t. /\ callers \in [Callers -> CallerType] /\ conns \in [1 .. MaxConn -> ConnType]
      /\ pool.entry \in [Gens -> 0 .. MaxConn] /\ MaxConn \in Nat /\ callers[c] \in CallerType
      /\ pool.dialled \in 0 .. MaxConn
  BY Zenon, PoolTyped, PoolAssumption DEF PoolInductive
<1>s. CallerStanding(c) /\ callers[c].step = "lease" /\ ~callers[c].again
  BY Zenon DEF PoolInductive, CallersStanding, CallerStanding, CallerAt
<1>g. Key(c) \in Gens
  BY Zenon, <1>s DEF CallerStanding, Key
<1>e. /\ e \in 1 .. MaxConn /\ e \in 1 .. pool.dialled /\ conns[e].open /\ ~conns[e].evicted
      /\ conns[e].proof = callers[c].proof
  BY <1>g, <1>t DEF PoolInductive, EntriesStanding, Matches
<1>c. SetCaller(c, r) /\ conns' = [conns EXCEPT ![e] = [conns[e] EXCEPT !.borrowers = @ + 1]]
  OBVIOUS
<1>x. \E g \in Gens : pool.entry[g] = e
  BY Zenon, <1>g
<1>r. /\ r \in CallerType /\ r.step = "using" /\ r.conn = e /\ ~r.again /\ r.fence = callers[c].fence
      /\ r.creds = callers[c].creds
  <2>1. e \in 0 .. MaxConn
    BY <1>e, <1>t
  <2>2. r \in CallerType
    BY Zenon, <2>1, <1>t DEF CallerType
  <2> QED
    BY Zenon, <2>2, <1>s, <1>t DEF CallerType
<1> HIDE DEF r
<1>k. callers'[c] = r /\ callers' \in [Callers -> CallerType] /\ \A d \in Callers : d # c => callers'[d] = callers[d]
  BY Zenon, <1>c, <1>r, <1>t DEF SetCaller
<1>o. \A d \in Callers : (Opening(d)' <=> Opening(d)) /\ (Opening(d) => d # c)
  BY Zenon, <1>k, <1>r, <1>s DEF Opening, CallerAt
<1>d. \A d \in Callers : (Dialling(d)' <=> Dialling(d)) /\ (Dialling(d) => d # c)
  BY Zenon, <1>k, <1>r, <1>s, <1>o DEF Dialling
<1>u. /\ Users(e)' = Users(e) \cup {c} /\ c \notin Users(e)
      /\ \A i : i # e => Users(i)' = Users(i)
  BY Zenon, <1>k, <1>r, <1>s DEF Users, CallerAt
<1>v. /\ conns'[e].borrowers = Cardinality(Users(e)')
      /\ conns'[e].open = conns[e].open /\ conns'[e].evicted = conns[e].evicted /\ conns'[e].proof = conns[e].proof
      /\ \A i \in 1 .. MaxConn : i # e => conns'[i] = conns[i]
      /\ conns' \in [1 .. MaxConn -> ConnType]
  <2>1. conns[e].borrowers = Cardinality(Users(e)) /\ conns[e] \in ConnType
    BY Zenon, <1>e, <1>t DEF PoolInductive, ConnsStanding
  <2>2. Users(e) \in SUBSET Callers /\ Users(e) \cup {c} \in SUBSET Callers
    BY Zenon DEF Users
  <2>3. Cardinality(Users(e) \cup {c}) = Cardinality(Users(e)) + 1
    BY Zenon, <2>2, <1>u, CallersCounted, FS_AddElement
  <2>4. conns[e].borrowers + 1 \in 0 .. Cardinality(Callers)
    BY Zenon, <2>1, <2>2, <2>3, CallersCounted
  <2> DEFINE x == [conns[e] EXCEPT !.borrowers = @ + 1]
  <2>5. x \in ConnType
    BY Zenon, <2>1, <2>4 DEF ConnType
  <2>6. x.borrowers = conns[e].borrowers + 1 /\ x.open = conns[e].open /\ x.evicted = conns[e].evicted /\ x.proof = conns[e].proof
    BY Zenon, <2>1 DEF ConnType
  <2>7. conns' = [conns EXCEPT ![e] = x]
    BY Zenon, <1>c
  <2> HIDE DEF x
  <2> QED
    <3>1. conns'[e] = x /\ \A i \in 1 .. MaxConn : i # e => conns'[i] = conns[i]
      BY Zenon, <2>7, <1>e, <1>t
    <3>2. conns' \in [1 .. MaxConn -> ConnType]
      BY Zenon, <2>7, <2>5, <1>t
    <3>3. x.borrowers = Cardinality(Users(e)')
      BY Zenon, <2>1, <2>3, <2>6, <1>u
    <3> QED
      BY Zenon, <3>1, <3>2, <3>3, <2>6
<1>1. PoolTypeOK' /\ TargetCounted'
  BY Zenon, <1>k, <1>v DEF PoolInductive, PoolTypeOK, TargetCounted, ConnType
<1>n. \A d \in Callers : CallerAt(d, "using") \/ Opening(d) => callers[d].conn \in 1 .. MaxConn
  BY Zenon, ConnsInRange
<1>2. CallersStanding'
  <2> SUFFICES ASSUME NEW d \in Callers PROVE CallerStanding(d)'
    BY Zenon DEF CallersStanding
  <2>1. CASE d = c
    <3>1. FreshFor(c, callers[c].proof) /\ callers[c].fence.gen \in Gens /\ target.cred \in callers[c].creds
      BY Zenon, <1>s DEF CallerStanding
    <3>2. conns'[e].proof = callers[c].proof /\ FreshFor(c, conns[e].proof)'
      BY Zenon, <3>1, <1>k, <1>r, <1>e, <1>v DEF FreshFor
    <3> QED
      BY Zenon, <2>1, <3>1, <3>2, <1>k, <1>r, <1>e DEF CallerStanding, Opening, CallerAt
  <2>2. CASE d # c
    <3>1. CallerStanding(d) /\ callers'[d] = callers[d]
      BY Zenon, <2>2, <1>k DEF PoolInductive, CallersStanding
    <3>2. CallerAt(d, "using") => conns'[callers[d].conn].proof = conns[callers[d].conn].proof
      BY Zenon, <1>n, <1>v
    <3> QED
      BY <3>1, <3>2 DEF CallerStanding, Opening, CallerAt, FreshFor
  <2> QED
    BY Zenon, <2>1, <2>2
<1>3. OpenersStanding'
  <2> SUFFICES ASSUME NEW d \in Callers, Opening(d)'
               PROVE  /\ conns'[callers'[d].conn].open /\ ~conns'[callers'[d].conn].evicted /\ conns'[callers'[d].conn].proof = callers'[d].proof
                      /\ Users(callers[d].conn)' = {}
                      /\ \A g \in Gens : pool'.entry[g] # callers'[d].conn
                      /\ \A b \in Callers : Opening(b)' /\ callers'[b].conn = callers'[d].conn => b = d
    BY Zenon DEF OpenersStanding
  <2>o. Opening(d) /\ callers'[d] = callers[d]
    BY Zenon, <1>o, <1>k
  <2>1. /\ conns[callers[d].conn].open /\ ~conns[callers[d].conn].evicted /\ conns[callers[d].conn].proof = callers[d].proof
        /\ Users(callers[d].conn) = {}
        /\ \A g \in Gens : pool.entry[g] # callers[d].conn
        /\ \A b \in Callers : Opening(b) /\ callers[b].conn = callers[d].conn => b = d
    BY Zenon, <2>o DEF PoolInductive, OpenersStanding
  <2>2. callers[d].conn # e /\ callers[d].conn \in 1 .. MaxConn
    BY Zenon, <2>1, <1>x, <1>n, <2>o
  <2>3. Users(callers[d].conn)' = {}
    BY <2>1, <2>2, <2>o, <1>k, <1>r DEF Users, CallerAt
  <2>4. \A b \in Callers : Opening(b)' /\ callers'[b].conn = callers'[d].conn => b = d
    BY Zenon, <2>1, <2>o, <1>o, <1>k
  <2> QED
    BY Zenon, <2>1, <2>2, <2>3, <2>4, <2>o, <1>v
<1>4. DialsStanding'
  BY Zenon, <1>d, <1>k DEF PoolInductive, DialsStanding, Key
<1>5. EntriesStanding'
  <2> SUFFICES ASSUME NEW g \in Gens, pool.entry[g] # 0
               PROVE  /\ pool.entry[g] \in 1 .. pool.dialled
                      /\ conns'[pool.entry[g]].open /\ ~conns'[pool.entry[g]].evicted
                      /\ conns'[pool.entry[g]].proof.gen = g
    BY Zenon DEF EntriesStanding
  <2>1. /\ pool.entry[g] \in 1 .. MaxConn /\ pool.entry[g] \in 1 .. pool.dialled
        /\ conns[pool.entry[g]].open /\ ~conns[pool.entry[g]].evicted /\ conns[pool.entry[g]].proof.gen = g
    BY Zenon, ConnsInRange
  <2>2. /\ conns'[pool.entry[g]].open = conns[pool.entry[g]].open
        /\ conns'[pool.entry[g]].evicted = conns[pool.entry[g]].evicted
        /\ conns'[pool.entry[g]].proof = conns[pool.entry[g]].proof
    <3>1. CASE pool.entry[g] = e
      BY Zenon, <3>1, <1>v
    <3>2. CASE pool.entry[g] # e
      BY Zenon, <3>2, <2>1, <1>v
    <3> QED
      BY Zenon, <3>1, <3>2
  <2> QED
    BY Zenon, <2>1, <2>2
<1>6. ConnsStanding'
  <2> SUFFICES ASSUME NEW i \in 1 .. MaxConn
               PROVE  /\ conns'[i].borrowers = Cardinality(Users(i)')
                      /\ i > pool.dialled => ~conns'[i].open
                      /\ conns'[i].open =>
                          \/ \E d \in Callers : Opening(d)' /\ callers'[d].conn = i
                          \/ \E h \in Gens : pool.entry[h] = i
                          \/ conns'[i].evicted /\ conns'[i].borrowers > 0
    BY Zenon DEF ConnsStanding
  <2>1. CASE i = e
    <3>1. conns'[i].borrowers = Cardinality(Users(i)')
      BY Zenon, <2>1, <1>v
    <3>2. ~(i > pool.dialled)
      BY <2>1, <1>e, <1>t
    <3> QED
      BY Zenon, <2>1, <3>1, <3>2, <1>x
  <2>2. CASE i # e
    BY <2>2, <1>v, <1>u, <1>o, <1>k DEF PoolInductive, ConnsStanding
  <2> QED
    BY Zenon, <2>1, <2>2
<1>7. UsersConnected'
  <2> SUFFICES ASSUME NEW d \in Callers, CallerAt(d, "using")'
               PROVE  conns'[callers'[d].conn].open \/ pool.closed
    BY Zenon DEF UsersConnected
  <2>1. CASE d = c
    BY Zenon, <2>1, <1>k, <1>r, <1>v, <1>e
  <2>2. CASE d # c
    BY Zenon, <2>2, <1>k, <1>v, <1>n DEF PoolInductive, UsersConnected, CallerAt
  <2> QED
    BY Zenon, <2>1, <2>2
<1> QED
  BY Zenon, <1>1, <1>2, <1>3, <1>4, <1>5, <1>6, <1>7 DEF PoolInductive

\* No entry to reuse: the caller waits for the dial under way, or begins one.
LEMMA MissKeeps ==
    ASSUME PoolInductive, NEW c \in Callers, CallerAt(c, "lease"), NEW g, g = Key(c), UNCHANGED target,
           conns' = IF pool.entry[g] = 0 THEN conns ELSE [conns EXCEPT ![pool.entry[g]] = Evicted(@)],
           pool' = [pool EXCEPT !.entry[g] = 0, !.pending = IF g \in pool.pending THEN @ ELSE @ \cup {g}],
           SetCaller(c, [callers[c] EXCEPT !.step = IF g \in pool.pending THEN "waiting" ELSE "dial"])
    PROVE  PoolInductive'
<1> DEFINE s == IF g \in pool.pending THEN "waiting" ELSE "dial"
           P == IF g \in pool.pending THEN pool.pending ELSE pool.pending \cup {g}
           r == [callers[c] EXCEPT !.step = s]
<1>t. /\ callers \in [Callers -> CallerType] /\ callers[c] \in CallerType /\ pool \in PoolType
      /\ pool.entry \in [Gens -> 0 .. MaxConn] /\ pool.pending \in SUBSET Gens
  BY Zenon, PoolTyped DEF PoolInductive, PoolTypeOK, PoolType
<1>s. CallerStanding(c) /\ callers[c].step = "lease" /\ ~callers[c].again
  BY Zenon DEF PoolInductive, CallersStanding, CallerStanding, CallerAt
<1>g. g \in Gens
  BY Zenon, <1>s DEF CallerStanding, Key
<1>p. /\ pool' \in PoolType /\ pool'.entry = [pool.entry EXCEPT ![g] = 0] /\ pool'.pending = P
      /\ pool'.closed = pool.closed /\ pool'.dialled = pool.dialled /\ pool'.changes = pool.changes
  <2> DEFINE e == [pool.entry EXCEPT ![g] = 0]
  <2>1. pool' = [pool EXCEPT !.entry = e, !.pending = P]
    BY Zenon, <1>t DEF PoolType
  <2>2. e \in [Gens -> 0 .. MaxConn] /\ P \in SUBSET Gens
    BY <1>t, <1>g, PoolAssumption
  <2> HIDE DEF e, P
  <2>3. pool' \in PoolType
    BY Zenon, <2>1, <2>2, <1>t DEF PoolType
  <2>4. pool'.entry = e /\ pool'.pending = P
    BY Zenon, <2>1, <1>t DEF PoolType
  <2> QED
    BY <2>1, <2>3, <2>4, <1>t DEF PoolType, e
<1>e. pool'.entry[g] = 0 /\ \A h \in Gens : h # g => pool'.entry[h] = pool.entry[h]
  BY <1>p, <1>t, <1>g
<1>1. Evicting(g)
  BY Zenon, <1>p DEF Evicting
<1>r. /\ r \in CallerType /\ r.step = s /\ r.again = callers[c].again /\ r.conn = callers[c].conn
      /\ r.proof = callers[c].proof /\ r.fence = callers[c].fence /\ r.creds = callers[c].creds
  <2>1. s \in {"idle", "read", "prove", "lease", "waiting", "dial", "install", "using"}
    OBVIOUS
  <2> HIDE DEF s
  <2>2. r \in CallerType
    BY Zenon, <2>1, <1>t DEF CallerType
  <2> QED
    BY Zenon, <2>2, <1>t DEF CallerType
<1>k. /\ callers' \in [Callers -> CallerType] /\ callers'[c] = r
      /\ \A d \in Callers : d # c => callers'[d] = callers[d]
  <2>1. SetCaller(c, r)
    OBVIOUS
  <2> HIDE DEF r
  <2> QED
    BY Zenon, <2>1, <1>r, <1>t DEF SetCaller
<1>n. pool.pending \in SUBSET Gens /\ P = IF g \in pool.pending THEN pool.pending ELSE pool.pending \cup {g}
  BY Zenon, <1>t
<1> HIDE DEF r, P
<1>2. \A d \in Callers : callers'[d] = callers[d] \/ MovesFreely(d)
  <2>1. FreshFor(c, callers[c].proof)'
    BY Zenon, <1>k, <1>r, <1>s DEF CallerStanding, FreshFor
  <2>2. MovesFreely(c)
    BY Zenon, <2>1, <1>k, <1>r, <1>s DEF MovesFreely, CallerStanding, Opening, CallerAt
  <2> QED
    BY Zenon, <2>2, <1>k
<1>3. DialsStanding'
  <2>1. \A d \in Callers : Key(d)' = Key(d)
    BY Zenon, <1>k, <1>r DEF Key
  <2>2. \A d \in Callers : d # c => (Dialling(d)' <=> Dialling(d))
    BY Zenon, <1>k DEF Dialling, Opening, CallerAt
  <2>3. ~Dialling(c) /\ (Dialling(c)' <=> g \notin pool.pending)
    BY Zenon, <1>k, <1>r, <1>s DEF Dialling, Opening, CallerAt
  <2>4. \A d \in Callers : Dialling(d)' => Key(d)' \in pool'.pending
    BY <2>1, <2>2, <2>3, <1>p, <1>n DEF PoolInductive, DialsStanding
  <2>5. ASSUME NEW d \in Callers, NEW b \in Callers, Dialling(d)', Dialling(b)', Key(b)' = Key(d)' PROVE b = d
    <3>1. Dialling(c)' => \A x \in Callers : Dialling(x) => Key(x) # g
      BY Zenon, <2>3 DEF PoolInductive, DialsStanding
    <3> QED
      BY Zenon, <2>1, <2>2, <2>3, <2>5, <3>1 DEF PoolInductive, DialsStanding
  <2>6. \A h \in Gens : h \in pool'.pending \/ pool'.closed => pool'.entry[h] = 0
    BY <1>p, <1>n, <1>e DEF PoolInductive, DialsStanding
  <2> QED
    BY Zenon, <2>4, <2>5, <2>6 DEF DialsStanding
<1> QED
  BY Zenon, <1>1, <1>2, <1>3, <1>k, <1>g, EvictingKeeps

\* Under the mutex a call reuses the entry, waits for a dial, or begins one.
LEMMA LeaseKeeps == ASSUME PoolInductive, NEW c \in Callers, Lease(c) PROVE PoolInductive'
<1>s. callers[c].step = "lease" /\ ~callers[c].again /\ CallerAt(c, "lease")
  BY Zenon DEF PoolInductive, CallersStanding, CallerStanding, CallerAt, Lease
<1> DEFINE e == pool.entry[Key(c)]
<1>1. CASE pool.closed
  BY Zenon, <1>1, <1>s, FailureKeeps DEF Lease, Dialling, Opening
<1>2. CASE ~pool.closed /\ e # 0 /\ Matches(conns[e].proof, callers[c].proof)
  <2>1. PICK f : f = e
    OBVIOUS
  <2> QED
    BY Zenon, <1>2, <2>1, <1>s, ReuseKeeps DEF Lease
<1>3. CASE ~pool.closed /\ ~(e # 0 /\ Matches(conns[e].proof, callers[c].proof))
  <2>1. PICK g : g = Key(c)
    OBVIOUS
  <2>2. /\ UNCHANGED target
        /\ conns' = IF pool.entry[g] = 0 THEN conns ELSE [conns EXCEPT ![pool.entry[g]] = Evicted(@)]
        /\ pool' = [pool EXCEPT !.entry[g] = 0, !.pending = IF g \in pool.pending THEN @ ELSE @ \cup {g}]
        /\ SetCaller(c, [callers[c] EXCEPT !.step = IF g \in pool.pending THEN "waiting" ELSE "dial"])
    BY Zenon, <1>3, <2>1 DEF Lease
  <2> QED
    BY Zenon, <2>1, <2>2, <1>s, MissKeeps
<1> QED
  BY Zenon, <1>1, <1>2, <1>3

\* A new connection belongs to the caller that dials it.
LEMMA DialKeeps == ASSUME PoolInductive, NEW c \in Callers, Dial(c) PROVE PoolInductive'
<1>t. /\ callers \in [Callers -> CallerType] /\ callers[c] \in CallerType /\ pool \in PoolType
      /\ conns \in [1 .. MaxConn -> ConnType] /\ pool.entry \in [Gens -> 0 .. MaxConn]
      /\ pool.dialled \in 0 .. MaxConn /\ MaxConn \in Nat
  BY Zenon, PoolTyped, PoolAssumption DEF PoolInductive, PoolTypeOK, PoolType
<1>s. CallerStanding(c) /\ callers[c].step = "dial" /\ ~callers[c].again /\ UNCHANGED target
  BY Zenon DEF PoolInductive, CallersStanding, CallerStanding, CallerAt, Dial
<1>1. CASE SetCaller(c, [callers[c] EXCEPT !.step = "install", !.failed = TRUE]) /\ UNCHANGED <<conns, pool>>
  <2>1. UNCHANGED <<target, conns, pool>> /\ SetCaller(c, [callers[c] EXCEPT !.step = "install", !.failed = TRUE])
    BY Zenon, <1>1, <1>s
  <2>2. callers[c].step = "dial" \/ (callers[c].step \in {"read", "prove"} /\ callers[c].again)
    BY Zenon, <1>s
  <2> QED
    BY Zenon, <2>1, <2>2, DialFailureKeeps
<1>2. ASSUME NEW i, i = pool.dialled + 1, pool.dialled < MaxConn,
             pool' = [pool EXCEPT !.dialled = i],
             conns' = [conns EXCEPT ![i] = [NoConn EXCEPT !.proof = callers[c].proof, !.open = TRUE]],
             SetCaller(c, [callers[c] EXCEPT !.step = "read", !.again = TRUE, !.conn = i])
      PROVE  PoolInductive'
  <2> DEFINE x == [NoConn EXCEPT !.proof = callers[c].proof, !.open = TRUE]
             r == [callers[c] EXCEPT !.step = "read", !.again = TRUE, !.conn = i]
  <2>i. i \in 1 .. MaxConn /\ i \in 0 .. MaxConn /\ i \in Int
    BY <1>2, <1>t
  <2>p. /\ pool' \in PoolType /\ pool'.dialled = i /\ pool'.entry = pool.entry /\ pool'.pending = pool.pending
        /\ pool'.closed = pool.closed /\ pool'.changes = pool.changes
    BY Zenon, <1>2, <1>t, <2>i DEF PoolType
  <2>x. /\ x \in ConnType /\ x.open /\ ~x.evicted /\ x.proof = callers[c].proof /\ x.borrowers = 0
    <3>1. {} \in SUBSET Callers
      OBVIOUS
    <3>2. 0 \in 0 .. Cardinality(Callers)
      BY <3>1, CallersCounted
    <3>3. callers[c].proof \in Proofs \cup {NoProof}
      BY Zenon, <1>t DEF CallerType
    <3>4. NoConn \in ConnType
      BY Zenon, <3>2 DEF NoConn, ConnType
    <3>5. x \in ConnType
      BY Zenon, <3>3, <3>4 DEF ConnType
    <3> QED
      BY Zenon, <3>3, <3>5 DEF NoConn
  <2>r. /\ r \in CallerType /\ r.step = "read" /\ r.again /\ r.conn = i /\ r.proof = callers[c].proof
        /\ r.fence = callers[c].fence /\ r.creds = callers[c].creds
    <3>1. r \in CallerType
      BY Zenon, <2>i, <1>t DEF CallerType
    <3> QED
      BY Zenon, <3>1, <1>t DEF CallerType
  <2>k. /\ callers' \in [Callers -> CallerType] /\ callers'[c] = r
        /\ \A d \in Callers : d # c => callers'[d] = callers[d]
    <3>1. SetCaller(c, r)
      BY Zenon, <1>2
    <3> HIDE DEF r
    <3> QED
      BY Zenon, <3>1, <2>r, <1>t DEF SetCaller
  <2>v. /\ conns' \in [1 .. MaxConn -> ConnType] /\ conns'[i] = x
        /\ \A j \in 1 .. MaxConn : j # i => conns'[j] = conns[j]
    <3>1. conns' = [conns EXCEPT ![i] = x]
      BY Zenon, <1>2
    <3> HIDE DEF x
    <3> QED
      BY Zenon, <3>1, <2>x, <2>i, <1>t
  <2> HIDE DEF x, r
  <2>n. \A d \in Callers : CallerAt(d, "using") \/ Opening(d)
            => callers[d].conn \in 1 .. MaxConn /\ callers[d].conn # i /\ callers[d].conn \in 1 .. pool.dialled
    BY <1>t, <1>2 DEF PoolInductive, CallersStanding, CallerStanding, Opening, CallerAt
  <2>o. \A d \in Callers : d # c => (Opening(d)' <=> Opening(d)) /\ (CallerAt(d, "using")' <=> CallerAt(d, "using"))
    BY Zenon, <2>k DEF Opening, CallerAt
  <2>c. Opening(c)' /\ ~CallerAt(c, "using")' /\ ~Opening(c) /\ ~CallerAt(c, "using") /\ Dialling(c) /\ Dialling(c)'
    BY Zenon, <2>k, <2>r, <1>s DEF Opening, CallerAt, Dialling
  <2>u. \A j : Users(j)' = Users(j)
    BY Zenon, <2>k, <2>o, <2>c DEF Users
  <2>w. Users(i) = {}
    BY Zenon, <2>n DEF Users
  <2>1. PoolTypeOK' /\ TargetCounted'
    BY Zenon, <2>k, <2>v, <2>p, <1>s DEF PoolInductive, PoolTypeOK, TargetCounted, ConnType, PoolType
  <2>2. CallersStanding'
    <3> SUFFICES ASSUME NEW d \in Callers PROVE CallerStanding(d)'
      BY Zenon DEF CallersStanding
    <3>1. CASE d = c
      <4>1. FreshFor(c, callers[c].proof)' /\ callers[c].fence.gen \in Gens /\ target.cred \in callers[c].creds
        BY Zenon, <1>s, <2>k, <2>r DEF CallerStanding, FreshFor
      <4>2. i \in 1 .. pool'.dialled
        BY <2>p, <2>i
      <4> QED
        BY Zenon, <3>1, <4>1, <4>2, <2>k, <2>r, <1>s DEF CallerStanding, CallerAt
    <3>2. CASE d # c
      <4>1. CallerStanding(d) /\ callers'[d] = callers[d]
        BY Zenon, <3>2, <2>k DEF PoolInductive, CallersStanding
      <4>2. CallerAt(d, "using") => conns'[callers[d].conn] = conns[callers[d].conn]
        BY Zenon, <2>n, <2>v
      <4>3. \A j \in 1 .. pool.dialled : j \in 1 .. pool'.dialled
        BY <2>p, <1>2, <1>t
      <4> QED
        BY <4>1, <4>2, <4>3, <1>s DEF CallerStanding, Opening, CallerAt, FreshFor
    <3> QED
      BY Zenon, <3>1, <3>2
  <2>3. OpenersStanding'
    <3> SUFFICES ASSUME NEW d \in Callers, Opening(d)'
                 PROVE  /\ conns'[callers'[d].conn].open /\ ~conns'[callers'[d].conn].evicted
                        /\ conns'[callers'[d].conn].proof = callers'[d].proof
                        /\ Users(callers[d].conn)' = {}
                        /\ \A g \in Gens : pool'.entry[g] # callers'[d].conn
                        /\ \A b \in Callers : Opening(b)' /\ callers'[b].conn = callers'[d].conn => b = d
      BY Zenon DEF OpenersStanding
    <3>1. CASE d = c
      <4>1. \A g \in Gens : pool.entry[g] # i
        BY <1>2, <1>t, <2>i DEF PoolInductive, EntriesStanding
      <4>2. Users(callers[d].conn)' = {}
        BY Zenon, <3>1, <2>n, <2>k, <2>r, <2>o, <2>c DEF Users
      <4>3. \A b \in Callers : Opening(b)' /\ callers'[b].conn = i => b = c
        BY Zenon, <2>n, <2>k, <2>o
      <4> QED
        BY <3>1, <4>1, <4>2, <4>3, <2>k, <2>r, <2>v, <2>x, <2>p
    <3>2. CASE d # c
      <4>o. Opening(d) /\ callers'[d] = callers[d] /\ callers[d].conn # i /\ callers[d].conn \in 1 .. MaxConn
        BY Zenon, <3>2, <2>o, <2>k, <2>n
      <4>1. /\ conns[callers[d].conn].open /\ ~conns[callers[d].conn].evicted
            /\ conns[callers[d].conn].proof = callers[d].proof
            /\ Users(callers[d].conn) = {}
            /\ \A g \in Gens : pool.entry[g] # callers[d].conn
            /\ \A b \in Callers : Opening(b) /\ callers[b].conn = callers[d].conn => b = d
        BY Zenon, <4>o DEF PoolInductive, OpenersStanding
      <4>2. Users(callers[d].conn)' = {}
        BY Zenon, <4>1, <4>o, <2>k, <2>o, <2>c DEF Users
      <4>3. \A b \in Callers : Opening(b)' /\ callers'[b].conn = callers'[d].conn => b = d
        BY Zenon, <4>1, <4>o, <2>k, <2>o, <2>r
      <4> QED
        BY Zenon, <4>1, <4>2, <4>3, <4>o, <2>v, <2>p
    <3> QED
      BY Zenon, <3>1, <3>2
  <2>4. DialsStanding'
    <3>1. \A d \in Callers : (Dialling(d)' <=> Dialling(d)) /\ Key(d)' = Key(d)
      BY Zenon, <2>k, <2>r, <2>o, <2>c DEF Dialling, Key
    <3> QED
      BY <3>1, <2>p DEF PoolInductive, DialsStanding
  <2>5. EntriesStanding'
    <3> SUFFICES ASSUME NEW g \in Gens, pool.entry[g] # 0
                 PROVE  /\ pool.entry[g] \in 1 .. pool'.dialled
                        /\ conns'[pool.entry[g]].open /\ ~conns'[pool.entry[g]].evicted
                        /\ conns'[pool.entry[g]].proof.gen = g
      BY Zenon, <2>p DEF EntriesStanding
    <3>1. /\ pool.entry[g] \in 1 .. pool.dialled /\ conns[pool.entry[g]].open /\ ~conns[pool.entry[g]].evicted
          /\ conns[pool.entry[g]].proof.gen = g
      BY Zenon DEF PoolInductive, EntriesStanding
    <3>2. pool.entry[g] \in 1 .. MaxConn /\ pool.entry[g] # i /\ pool.entry[g] \in 1 .. pool'.dialled
      BY <3>1, <1>2, <1>t, <2>p
    <3> QED
      BY Zenon, <3>1, <3>2, <2>v
  <2>6. ConnsStanding'
    <3> SUFFICES ASSUME NEW j \in 1 .. MaxConn
                 PROVE  /\ conns'[j].borrowers = Cardinality(Users(j)')
                        /\ j > i => ~conns'[j].open
                        /\ conns'[j].open =>
                            \/ \E d \in Callers : Opening(d)' /\ callers'[d].conn = j
                            \/ \E h \in Gens : pool.entry[h] = j
                            \/ conns'[j].evicted /\ conns'[j].borrowers > 0
      BY Zenon, <2>p DEF ConnsStanding
    <3>1. CASE j = i
      <4>1. Cardinality(Users(j)') = 0
        BY Zenon, <3>1, <2>u, <2>w, FS_EmptySet
      <4> QED
        BY <3>1, <4>1, <2>v, <2>x, <2>c, <2>k, <2>r, <2>i
    <3>2. CASE j # i
      <4>1. /\ conns[j].borrowers = Cardinality(Users(j)) /\ (j > pool.dialled => ~conns[j].open)
            /\ conns[j].open =>
                  \/ \E d \in Callers : Opening(d) /\ callers[d].conn = j
                  \/ \E h \in Gens : pool.entry[h] = j
                  \/ conns[j].evicted /\ conns[j].borrowers > 0
        BY Zenon DEF PoolInductive, ConnsStanding
      <4>2. ASSUME NEW d \in Callers, Opening(d), callers[d].conn = j PROVE Opening(d)' /\ callers'[d].conn = j
        BY Zenon, <4>2, <2>o, <2>c, <2>k
      <4>3. j > i => j > pool.dialled
        BY <1>2, <1>t
      <4> QED
        BY Zenon, <3>2, <4>1, <4>2, <4>3, <2>v, <2>u
    <3> QED
      BY Zenon, <3>1, <3>2
  <2>7. UsersConnected'
    BY <2>k, <2>o, <2>c, <2>n, <2>v, <2>p DEF PoolInductive, UsersConnected
  <2> QED
    BY Zenon, <2>1, <2>2, <2>3, <2>4, <2>5, <2>6, <2>7 DEF PoolInductive
<1>3. pool.dialled + 1 = pool.dialled + 1
  OBVIOUS
<1> QED
  BY Zenon, <1>1, <1>2, <1>3 DEF Dial

\* The dial is over: its callers go on, and the dialler uses what it opened or closes it.
LEMMA InstallKeeps == ASSUME PoolInductive, NEW c \in Callers, Install(c) PROVE PoolInductive'
<1> USE DEF PoolInductive
<1>t. /\ callers \in [Callers -> CallerType] /\ callers[c] \in CallerType /\ pool \in PoolType
      /\ conns \in [1 .. MaxConn -> ConnType] /\ pool.entry \in [Gens -> 0 .. MaxConn]
      /\ pool.dialled \in 0 .. MaxConn /\ MaxConn \in Nat /\ pool.pending \in SUBSET Gens
  BY Zenon, PoolTyped, PoolAssumption DEF PoolTypeOK, PoolType
<1>s. CallerStanding(c) /\ callers[c].step = "install" /\ UNCHANGED target
  BY Zenon DEF CallersStanding, CallerAt, Install
<1>0. PICK g : g = Key(c)
  OBVIOUS
<1>i. PICK i : i = callers[c].conn
  OBVIOUS
<1>g. g \in Gens /\ Dialling(c) /\ g \in pool.pending /\ pool.entry[g] = 0
  BY Zenon, <1>0, <1>s DEF CallerStanding, Key, Dialling, DialsStanding
<1>j. i \in 0 .. MaxConn /\ (Opening(c) <=> i # 0) /\ (i # 0 => i \in 1 .. MaxConn /\ i \in 1 .. pool.dialled)
  BY <1>i, <1>s, <1>t DEF CallerStanding, Opening, CallerAt
<1>b. i # 0 => /\ conns[i].open /\ ~conns[i].evicted /\ conns[i].proof = callers[c].proof /\ Users(i) = {}
               /\ \A h \in Gens : pool.entry[h] # i
               /\ \A d \in Callers : Opening(d) /\ callers[d].conn = i => d = c
               /\ conns[i].proof.gen = g
  <2>1. Opening(c) => FreshFor(c, callers[c].proof)
    BY Zenon, <1>s DEF CallerStanding
  <2> QED
    BY Zenon, <2>1, <1>i, <1>j, <1>0 DEF OpenersStanding, FreshFor, Key
<1>n. \A d \in Callers : CallerAt(d, "using") \/ Opening(d) => callers[d].conn \in 1 .. MaxConn
  BY Zenon, ConnsInRange
<1>q. \A d \in Callers : d # c /\ Dialling(d) => Key(d) # g
  BY Zenon, <1>g, <1>0 DEF DialsStanding
\* What the step does to the callers.
<1> DEFINE ok == Installs(c)
<1>k. /\ callers' \in [Callers -> CallerType]
      /\ ok => callers'[c] = [callers[c] EXCEPT !.step = "using"]
      /\ ~ok => callers'[c] = Resting
      /\ \A d \in Callers : d # c => callers'[d] = callers[d]
                \/ (CallerAt(d, "waiting") /\ callers'[d] = [callers[d] EXCEPT !.step = "read"])
  <2>1. callers' = [x \in Callers |->
          CASE x = c /\ ok -> [callers[x] EXCEPT !.step = "using"]
            [] x = c /\ ~ok -> Resting
            [] x # c /\ WakesWaiter(c, x) -> [callers[x] EXCEPT !.step = "read"]
            [] OTHER -> callers[x]]
    BY Zenon DEF Install
  <2> HIDE DEF ok
  <2>2. \A x \in Callers : /\ [callers[x] EXCEPT !.step = "using"] \in CallerType
                           /\ [callers[x] EXCEPT !.step = "read"] \in CallerType
    BY Zenon, <1>t DEF CallerType
  <2>3. /\ ok => callers'[c] = [callers[c] EXCEPT !.step = "using"]
        /\ ~ok => callers'[c] = Resting
    BY Zenon, <2>1
  <2>4. ASSUME NEW d \in Callers, d # c
        PROVE  callers'[d] = callers[d] \/ (CallerAt(d, "waiting") /\ callers'[d] = [callers[d] EXCEPT !.step = "read"])
    <3>1. CASE WakesWaiter(c, d)
      BY Zenon, <2>1, <2>4, <3>1 DEF WakesWaiter
    <3>2. CASE ~WakesWaiter(c, d)
      BY Zenon, <2>1, <2>4, <3>2
    <3> QED
      BY Zenon, <3>1, <3>2
  <2>5. \A d \in Callers : callers'[d] \in CallerType
    BY Zenon, <2>2, <2>3, <2>4, <1>t, RestingTyped
  <2>6. \E f : callers' = [x \in Callers |-> f[x]]
    <3>1. callers' = [x \in Callers |-> callers'[x]]
      BY Zenon, <2>1
    <3> QED
      BY Zenon, <3>1
  <2> QED
    BY Zenon, <2>3, <2>4, <2>5, <2>6
<1>l. ASSUME NEW d \in Callers, d # c
      PROVE  /\ callers'[d].again = callers[d].again /\ callers'[d].conn = callers[d].conn
             /\ callers'[d].proof = callers[d].proof /\ callers'[d].fence = callers[d].fence
             /\ callers'[d].creds = callers[d].creds /\ callers'[d].env = callers[d].env
             /\ callers'[d].failed = callers[d].failed
             /\ callers'[d].step = callers[d].step \/ (callers[d].step = "waiting" /\ callers'[d].step = "read")
  <2>1. callers[d] \in CallerType
    BY Zenon, <1>t
  <2>2. CASE callers'[d] = callers[d]
    BY Zenon, <2>2
  <2>3. CASE callers'[d] # callers[d]
    BY <2>1, <2>3, <1>k, <1>l DEF CallerType, CallerAt
  <2> QED
    BY Zenon, <2>2, <2>3
<1>w. \A d \in Callers : callers[d].step = "waiting" => ~callers[d].again
  BY Zenon DEF CallersStanding, CallerStanding
<1>o. \A d \in Callers : d # c => /\ Opening(d)' <=> Opening(d)
                                  /\ CallerAt(d, "using")' <=> CallerAt(d, "using")
                                  /\ Dialling(d)' <=> Dialling(d)
                                  /\ Key(d)' = Key(d)
  BY Zenon, <1>l, <1>w DEF Opening, CallerAt, Dialling, Key
<1>p. /\ pool' \in PoolType /\ pool'.pending = pool.pending \ {g} /\ pool'.closed = pool.closed
      /\ pool'.dialled = pool.dialled /\ pool'.changes = pool.changes
      /\ pool'.entry = IF ok THEN [pool.entry EXCEPT ![g] = i] ELSE pool.entry
  <2> DEFINE P == pool.pending \ {g}
             E == IF ok THEN [pool.entry EXCEPT ![g] = i] ELSE pool.entry
  <2>1. pool' = [pool EXCEPT !.pending = P, !.entry = E]
    <3>1. CASE ok
      BY Zenon, <3>1, <1>0, <1>i, <1>t DEF Install, PoolType
    <3>2. CASE ~ok
      BY Zenon, <3>2, <1>0, <1>t DEF Install, PoolType
    <3> QED
      BY Zenon, <3>1, <3>2
  <2>2. P \in SUBSET Gens /\ E \in [Gens -> 0 .. MaxConn]
    BY Zenon, <1>t, <1>j
  <2> HIDE DEF P, E
  <2>3. pool' \in PoolType
    BY Zenon, <2>1, <2>2, <1>t DEF PoolType
  <2>4. pool'.entry = E /\ pool'.pending = P
    BY Zenon, <2>1, <1>t DEF PoolType
  <2> QED
    BY Zenon, <2>1, <2>3, <2>4, <1>t DEF PoolType, P, E
<1>4. DialsStanding'
  <2>1. ~Dialling(c)'
    BY <1>k, <1>s DEF Dialling, Opening, CallerAt, Resting, CallerType
  <2>2. \A h \in Gens : h \in pool'.pending \/ pool'.closed => pool'.entry[h] = 0
    BY Zenon, <1>p, <1>t DEF DialsStanding, Installs
  <2> QED
    BY <2>1, <2>2, <1>o, <1>q, <1>p DEF DialsStanding
<1>a. ok => i # 0
  BY Zenon, <1>s, <1>j, <1>i DEF Installs, CallerStanding, Opening, CallerAt
<1>u. /\ ok => Users(i)' = {c}
      /\ \A j : ~ok \/ j # i => Users(j)' = Users(j)
  <2>1. ok => callers'[c].step = "using" /\ callers'[c].conn = i
    BY Zenon, <1>k, <1>t, <1>i DEF CallerType
  <2>2. ~ok => callers'[c].step # "using"
    BY <1>k DEF Resting
  <2>3. callers[c].step # "using" /\ (ok => Users(i) = {})
    BY Zenon, <1>a, <1>b, <1>s
  <2>4. \A d \in Callers : d # c => /\ CallerAt(d, "using")' <=> CallerAt(d, "using")
                                   /\ callers'[d].conn = callers[d].conn
    BY Zenon, <1>o, <1>l
  <2>5. \A j, d : d \in Users(j)' <=> d \in Callers /\ CallerAt(d, "using")' /\ callers'[d].conn = j
    BY Zenon DEF Users
  <2>6. \A j, d : d \in Users(j) <=> d \in Callers /\ CallerAt(d, "using") /\ callers[d].conn = j
    BY Zenon DEF Users
  <2>7. CallerAt(c, "using")' <=> ok
    BY Zenon, <2>1, <2>2 DEF CallerAt
  <2>8. ~CallerAt(c, "using")
    BY Zenon, <2>3 DEF CallerAt
  <2>9. ok => Users(i)' = {c}
    BY <2>1, <2>3, <2>4, <2>5, <2>6, <2>7
  <2>10. ASSUME NEW j, ~ok \/ j # i PROVE Users(j)' = Users(j)
    <3>1. ASSUME NEW d PROVE d \in Users(j)' <=> d \in Users(j)
      <4>1. CASE d = c
        BY Zenon, <4>1, <2>10, <2>1, <2>5, <2>6, <2>7, <2>8
      <4>2. CASE d # c
        BY <4>2, <2>4, <2>5, <2>6
      <4> QED
        BY Zenon, <4>1, <4>2
    <3> QED
      BY Zenon, <3>1
  <2> QED
    BY Zenon, <2>9, <2>10
<1>v. /\ conns' \in [1 .. MaxConn -> ConnType]
      /\ \A j \in 1 .. MaxConn : j # i => conns'[j] = conns[j]
      /\ i # 0 => /\ conns'[i].proof = conns[i].proof /\ conns'[i].evicted = conns[i].evicted
                  /\ ok => conns'[i].borrowers = 1 /\ conns'[i].open
                  /\ ~ok => conns'[i].borrowers = conns[i].borrowers /\ ~conns'[i].open
  <2>1. CASE ok
    <3> DEFINE x == [conns[i] EXCEPT !.borrowers = 1]
    <3>1. i \in 1 .. MaxConn /\ conns[i] \in ConnType /\ conns[i].open
      BY Zenon, <2>1, <1>a, <1>j, <1>t, <1>b
    <3>2. conns' = [conns EXCEPT ![i] = x]
      BY Zenon, <2>1, <1>i DEF Install
    <3>3. 1 \in 0 .. Cardinality(Callers)
      <4>1. {c} \in SUBSET Callers /\ Cardinality({c}) = 1
        BY Zenon, FS_Singleton
      <4> QED
        BY Zenon, <4>1, CallersCounted
    <3>4. x \in ConnType
      BY Zenon, <3>1, <3>3 DEF ConnType
    <3>5. x.proof = conns[i].proof /\ x.evicted = conns[i].evicted /\ x.borrowers = 1 /\ x.open = conns[i].open
      BY Zenon, <3>1 DEF ConnType
    <3> HIDE DEF x
    <3>6. conns'[i] = x /\ conns' \in [1 .. MaxConn -> ConnType] /\ \A j \in 1 .. MaxConn : j # i => conns'[j] = conns[j]
      BY Zenon, <3>1, <3>2, <3>4, <1>t
    <3> QED
      BY Zenon, <2>1, <3>1, <3>5, <3>6
  <2>2. CASE ~ok /\ i = 0
    BY Zenon, <2>2, <1>i, <1>t DEF Install
  <2>3. CASE ~ok /\ i # 0
    <3> DEFINE x == [conns[i] EXCEPT !.open = FALSE]
    <3>1. i \in 1 .. MaxConn /\ conns[i] \in ConnType
      BY Zenon, <2>3, <1>j, <1>t
    <3>2. conns' = [conns EXCEPT ![i] = x]
      BY Zenon, <2>3, <1>i DEF Install
    <3>4. x \in ConnType
      BY Zenon, <3>1 DEF ConnType
    <3>5. x.proof = conns[i].proof /\ x.evicted = conns[i].evicted /\ x.borrowers = conns[i].borrowers /\ ~x.open
      BY Zenon, <3>1 DEF ConnType
    <3> HIDE DEF x
    <3>6. conns'[i] = x /\ conns' \in [1 .. MaxConn -> ConnType] /\ \A j \in 1 .. MaxConn : j # i => conns'[j] = conns[j]
      BY Zenon, <3>1, <3>2, <3>4, <1>t
    <3> QED
      BY Zenon, <2>3, <3>1, <3>5, <3>6
  <2> QED
    BY Zenon, <2>1, <2>2, <2>3
<1>1. PoolTypeOK' /\ TargetCounted'
  BY Zenon, <1>k, <1>v, <1>p, <1>s DEF PoolTypeOK, TargetCounted, ConnType, PoolType
<1>c. ok => /\ callers'[c].step = "using" /\ callers'[c].conn = i /\ callers'[c].again
            /\ callers'[c].fence = callers[c].fence /\ callers'[c].creds = callers[c].creds
  <2>1. callers'[c].again = callers[c].again \/ ~ok
    BY Zenon, <1>k, <1>t DEF CallerType
  <2> QED
    BY <2>1, <1>k, <1>t, <1>i, <1>a, <1>j DEF CallerType, Opening
<1>r. ~ok => callers'[c].step = "idle" /\ ~callers'[c].again /\ callers'[c].conn = 0
  BY <1>k DEF Resting
<1> HIDE DEF ok
<1>2. CallersStanding'
  <2> SUFFICES ASSUME NEW d \in Callers PROVE CallerStanding(d)'
    BY Zenon DEF CallersStanding
  <2>1. CASE d = c /\ ok
    <3>1. FreshFor(c, callers[c].proof) /\ callers[c].fence.gen \in Gens /\ target.cred \in callers[c].creds
      BY Zenon, <1>s, <2>1, <1>a, <1>j DEF CallerStanding
    <3>2. FreshFor(c, conns[i].proof)'
      BY <2>1, <3>1, <1>v, <1>b, <1>a, <1>c DEF FreshFor
    <3>3. conns'[callers'[c].conn].proof = conns'[i].proof
      BY Zenon, <2>1, <1>c
    <3> QED
      BY <2>1, <3>1, <3>2, <3>3, <1>c, <1>j, <1>a, <1>s, <1>p DEF CallerStanding, Opening, CallerAt, FreshFor
  <2>2. CASE d = c /\ ~ok
    BY Zenon, <2>2, <1>r DEF CallerStanding, Opening, CallerAt
  <2>3. CASE d # c
    <3>1. CallerStanding(d)
      BY Zenon DEF CallersStanding
    <3>2. CallerAt(d, "using") => conns'[callers[d].conn].proof = conns[callers[d].conn].proof
      BY <1>n, <1>v
    <3>3. CASE callers'[d] = callers[d]
      <4>1. pool'.dialled = pool.dialled /\ target' = target
        BY Zenon, <1>p, <1>s
      <4> QED
        BY Zenon, <3>1, <3>2, <3>3, <4>1 DEF CallerStanding, Opening, CallerAt, FreshFor
    <3>4. CASE callers[d].step = "waiting" /\ callers'[d].step = "read"
      <4>1. ~callers'[d].again /\ callers'[d].conn = 0 /\ callers'[d].fence.gen \in Gens /\ target.cred \in callers'[d].creds
        BY Zenon, <2>3, <3>1, <3>4, <1>l, <1>w DEF CallerStanding
      <4> QED
        BY Zenon, <3>4, <4>1, <1>s DEF CallerStanding, Opening, CallerAt
    <3>5. callers'[d].step = callers[d].step => callers'[d] = callers[d]
      BY <2>3, <1>k, <1>t DEF CallerType, CallerAt
    <3> QED
      BY Zenon, <2>3, <3>3, <3>4, <3>5, <1>l
  <2> QED
    BY Zenon, <2>1, <2>2, <2>3
<1>x. ~Opening(c)'
  BY Zenon, <1>c, <1>r DEF Opening, CallerAt
<1>3. OpenersStanding'
  <2> SUFFICES ASSUME NEW d \in Callers, Opening(d)'
               PROVE  /\ conns'[callers'[d].conn].open /\ ~conns'[callers'[d].conn].evicted
                      /\ conns'[callers'[d].conn].proof = callers'[d].proof
                      /\ Users(callers[d].conn)' = {}
                      /\ \A h \in Gens : pool'.entry[h] # callers'[d].conn
                      /\ \A b \in Callers : Opening(b)' /\ callers'[b].conn = callers'[d].conn => b = d
    BY Zenon DEF OpenersStanding
  <2>o. d # c /\ Opening(d) /\ callers'[d].conn = callers[d].conn /\ callers'[d].proof = callers[d].proof
        /\ callers[d].conn \in 1 .. MaxConn
    BY Zenon, <1>x, <1>o, <1>l, <1>n
  <2>1. /\ conns[callers[d].conn].open /\ ~conns[callers[d].conn].evicted
        /\ conns[callers[d].conn].proof = callers[d].proof
        /\ Users(callers[d].conn) = {}
        /\ \A h \in Gens : pool.entry[h] # callers[d].conn
        /\ \A b \in Callers : Opening(b) /\ callers[b].conn = callers[d].conn => b = d
    BY Zenon, <2>o DEF OpenersStanding
  <2>2. callers[d].conn # i
    BY <2>o, <1>b, <1>j
  <2>3. Users(callers[d].conn)' = {}
    <3>1. PICK j : j = callers[d].conn
      OBVIOUS
    <3>2. Users(j)' = {}
      BY Zenon, <3>1, <2>1, <2>2, <1>u
    <3> QED
      BY Zenon, <3>1, <3>2, <2>o DEF Users
  <2>4. ASSUME NEW b \in Callers, Opening(b)', callers'[b].conn = callers'[d].conn PROVE b = d
    <3>1. b # c /\ Opening(b) /\ callers'[b].conn = callers[b].conn
      BY Zenon, <2>4, <1>x, <1>o, <1>l
    <3> QED
      BY Zenon, <3>1, <2>4, <2>1, <2>o, <1>l
  <2>5. \A h \in Gens : pool'.entry[h] # callers[d].conn
    BY Zenon, <2>1, <2>2, <1>p, <1>t
  <2> QED
    BY Zenon, <2>1, <2>2, <2>3, <2>4, <2>5, <2>o, <1>v
<1>5. EntriesStanding'
  <2> SUFFICES ASSUME NEW h \in Gens, pool'.entry[h] # 0
               PROVE  /\ pool'.entry[h] \in 1 .. pool'.dialled
                      /\ conns'[pool'.entry[h]].open /\ ~conns'[pool'.entry[h]].evicted
                      /\ conns'[pool'.entry[h]].proof.gen = h
    BY Zenon DEF EntriesStanding
  <2>1. CASE ok /\ h = g
    <3>1. pool'.entry[h] = i
      BY Zenon, <2>1, <1>p, <1>t
    <3> QED
      BY Zenon, <2>1, <3>1, <1>a, <1>b, <1>j, <1>v, <1>p
  <2>2. CASE ~(ok /\ h = g)
    <3>1. pool'.entry[h] = pool.entry[h] /\ pool.entry[h] \in 1 .. MaxConn
      BY <2>2, <1>p, <1>t
    <3>2. /\ pool.entry[h] \in 1 .. pool.dialled /\ conns[pool.entry[h]].open /\ ~conns[pool.entry[h]].evicted
          /\ conns[pool.entry[h]].proof.gen = h
      BY Zenon, <3>1 DEF EntriesStanding
    <3>3. pool.entry[h] # i
      BY Zenon, <3>1, <1>b
    <3> QED
      BY Zenon, <3>1, <3>2, <3>3, <1>v, <1>p
  <2> QED
    BY Zenon, <2>1, <2>2
<1>6. ConnsStanding'
  <2> SUFFICES ASSUME NEW j \in 1 .. MaxConn
               PROVE  /\ conns'[j].borrowers = Cardinality(Users(j)')
                      /\ j > pool'.dialled => ~conns'[j].open
                      /\ conns'[j].open =>
                          \/ \E d \in Callers : Opening(d)' /\ callers'[d].conn = j
                          \/ \E h \in Gens : pool'.entry[h] = j
                          \/ conns'[j].evicted /\ conns'[j].borrowers > 0
    BY Zenon DEF ConnsStanding
  <2>0. /\ conns[j].borrowers = Cardinality(Users(j)) /\ (j > pool.dialled => ~conns[j].open)
        /\ conns[j].open =>
              \/ \E d \in Callers : Opening(d) /\ callers[d].conn = j
              \/ \E h \in Gens : pool.entry[h] = j
              \/ conns[j].evicted /\ conns[j].borrowers > 0
    BY DEF ConnsStanding
  <2>1. CASE j = i /\ ok
    <3>1. Cardinality(Users(j)') = 1
      BY Zenon, <2>1, <1>u, FS_Singleton
    <3>2. pool'.entry[g] = j
      BY Zenon, <2>1, <1>p, <1>t, <1>g
    <3>3. conns'[j].borrowers = 1 /\ conns'[j].open
      BY Zenon, <2>1, <1>v, <1>a
    <3>4. ~(j > pool'.dialled)
      <4>1. conns[j].open /\ pool'.dialled = pool.dialled
        BY Zenon, <2>1, <1>b, <1>a, <1>p
      <4> QED
        BY Zenon, <4>1, <2>0
    <3> QED
      BY Zenon, <3>1, <3>2, <3>3, <3>4, <1>g
  <2>2. CASE j = i /\ ~ok
    BY <2>2, <2>0, <1>u, <1>v, <1>j
  <2>3. CASE j # i
    <3>1. ASSUME NEW d \in Callers, Opening(d), callers[d].conn = j PROVE Opening(d)' /\ callers'[d].conn = j
      BY Zenon, <3>1, <2>3, <1>o, <1>l, <1>i
    <3>2. ASSUME NEW h \in Gens, pool.entry[h] = j PROVE pool'.entry[h] = j
      BY <3>2, <1>p, <1>t, <1>g
    <3> QED
      BY Zenon, <2>3, <2>0, <3>1, <3>2, <1>v, <1>u, <1>p
  <2> QED
    BY Zenon, <2>1, <2>2, <2>3
<1>7. UsersConnected'
  <2> SUFFICES ASSUME NEW d \in Callers, CallerAt(d, "using")'
               PROVE  conns'[callers'[d].conn].open \/ pool'.closed
    BY Zenon DEF UsersConnected
  <2>1. CASE d = c
    BY Zenon, <2>1, <1>c, <1>r, <1>v, <1>a DEF CallerAt
  <2>2. CASE d # c
    <3>1. CallerAt(d, "using") /\ callers'[d].conn = callers[d].conn /\ callers[d].conn \in 1 .. MaxConn
      BY Zenon, <2>2, <1>o, <1>l, <1>n
    <3>2. callers[d].conn # i
      BY <3>1, <1>b DEF Users
    <3> QED
      BY Zenon, <3>1, <3>2, <1>v, <1>p DEF UsersConnected
  <2> QED
    BY Zenon, <2>1, <2>2
<1> QED
  BY Zenon, <1>1, <1>2, <1>3, <1>4, <1>5, <1>6, <1>7

\* A connection is returned; the last to use an evicted one closes it.
LEMMA ReleaseKeeps == ASSUME PoolInductive, NEW c \in Callers, Release(c) PROVE PoolInductive'
<1> USE DEF PoolInductive
<1>t. /\ callers \in [Callers -> CallerType] /\ conns \in [1 .. MaxConn -> ConnType]
      /\ pool.entry \in [Gens -> 0 .. MaxConn] /\ MaxConn \in Nat /\ pool.dialled \in 0 .. MaxConn
  BY Zenon, PoolTyped, PoolAssumption
<1>s. CallerStanding(c) /\ callers[c].step = "using" /\ UNCHANGED <<target, pool>>
  BY Zenon DEF CallersStanding, CallerAt, Release
<1>i. PICK i : i = callers[c].conn
  OBVIOUS
<1>j. i \in 1 .. MaxConn /\ conns[i] \in ConnType
  BY <1>i, <1>s, <1>t DEF CallerStanding
<1>n. \A d \in Callers : CallerAt(d, "using") \/ Opening(d) => callers[d].conn \in 1 .. MaxConn
  BY ConnsInRange
<1>k. /\ callers' \in [Callers -> CallerType] /\ callers'[c] = Resting
      /\ \A d \in Callers : d # c => callers'[d] = callers[d]
  BY Zenon, <1>t, RestingTyped DEF Release, CallFails, SetCaller
<1>r. Resting.step = "idle" /\ ~Resting.again
  BY Zenon DEF Resting
<1>o. \A d \in Callers : /\ Opening(d)' <=> Opening(d) /\ d # c
                         /\ CallerAt(d, "using")' <=> CallerAt(d, "using") /\ d # c
                         /\ Dialling(d)' <=> Dialling(d) /\ d # c
  BY Zenon, <1>k, <1>r DEF Opening, CallerAt, Dialling
<1>x. ~Opening(c) /\ ~Dialling(c)
  BY Zenon, <1>s DEF Opening, CallerAt, Dialling
<1>u. /\ c \in Users(i) /\ Users(i)' = Users(i) \ {c} /\ Users(i) \in SUBSET Callers
      /\ \A j : j # i => Users(j)' = Users(j)
  BY Zenon, <1>o, <1>k, <1>i, <1>s DEF Users, CallerAt
<1>b. /\ conns[i].borrowers = Cardinality(Users(i)) /\ Cardinality(Users(i)) \in Nat
      /\ Cardinality(Users(i)') = Cardinality(Users(i)) - 1 /\ Cardinality(Users(i)) >= 1
      /\ \A d \in Users(i) : d # c => Cardinality(Users(i)) # 1
  <2>1. conns[i].borrowers = Cardinality(Users(i)) /\ IsFiniteSet(Users(i))
    BY Zenon, <1>j, <1>u, CallersCounted DEF ConnsStanding
  <2>2. Cardinality(Users(i)) \in Nat /\ Cardinality(Users(i)') = Cardinality(Users(i)) - 1
    BY Zenon, <2>1, <1>u, FS_RemoveElement, FS_CardinalityType
  <2>3. Cardinality(Users(i)) # 0
    BY Zenon, <2>1, <1>u, FS_EmptySet
  <2>4. ASSUME NEW d \in Users(i), d # c, Cardinality(Users(i)) = 1 PROVE FALSE
    <3>1. Users(i)' # {} /\ IsFiniteSet(Users(i)')
      BY Zenon, <2>4, <2>1, <1>u, FS_RemoveElement
    <3>2. Cardinality(Users(i)') = 0
      BY <2>2, <2>4
    <3> QED
      BY Zenon, <3>1, <3>2, FS_EmptySet
  <2> QED
    BY <2>1, <2>2, <2>3, <2>4
<1> DEFINE gone == conns[i].borrowers = 1 /\ (conns[i].evicted \/ pool.closed)
<1>v. /\ conns' \in [1 .. MaxConn -> ConnType]
      /\ \A j \in 1 .. MaxConn : j # i => conns'[j] = conns[j]
      /\ conns'[i].proof = conns[i].proof /\ conns'[i].evicted = conns[i].evicted
      /\ conns'[i].borrowers = conns[i].borrowers - 1 /\ (conns'[i].open <=> conns[i].open /\ ~gone)
  <2> DEFINE b == conns[i].borrowers - 1
             o == conns[i].open /\ ~gone
             x == [conns[i] EXCEPT !.borrowers = b, !.open = o]
  <2>1. conns' = [conns EXCEPT ![i] = x]
    BY Zenon, <1>i DEF Release
  <2>2. b \in 0 .. Cardinality(Callers)
    BY Zenon, <1>b, <1>u, CallersCounted
  <2>3. o \in BOOLEAN
    OBVIOUS
  <2> HIDE DEF b, o
  <2>4. x \in ConnType /\ x.open = o
    BY Zenon, <1>j, <2>2, <2>3 DEF ConnType
  <2>5. x.borrowers = b /\ x.proof = conns[i].proof /\ x.evicted = conns[i].evicted
    BY Zenon, <1>j DEF ConnType
  <2> HIDE DEF x
  <2>6. conns'[i] = x /\ conns' \in [1 .. MaxConn -> ConnType] /\ \A j \in 1 .. MaxConn : j # i => conns'[j] = conns[j]
    BY Zenon, <2>1, <2>4, <1>j, <1>t
  <2>7. conns'[i].open <=> o
    BY Zenon, <2>4, <2>6
  <2> QED
    BY Zenon, <2>5, <2>6, <2>7 DEF b, o
<1>1. PoolTypeOK' /\ TargetCounted'
  BY Zenon, <1>k, <1>v, <1>s DEF PoolTypeOK, TargetCounted, ConnType
<1>2. CallersStanding'
  <2> SUFFICES ASSUME NEW d \in Callers PROVE CallerStanding(d)'
    BY DEF CallersStanding
  <2>1. CASE d = c
    <3>1. Resting.conn = 0
      BY Zenon DEF Resting
    <3> QED
      BY Zenon, <2>1, <3>1, <1>k, <1>r DEF CallerStanding, Opening, CallerAt
  <2>2. CASE d # c
    <3>1. CallerStanding(d) /\ callers'[d] = callers[d]
      BY Zenon, <2>2, <1>k DEF CallersStanding
    <3>2. CallerAt(d, "using") => conns'[callers[d].conn].proof = conns[callers[d].conn].proof
      BY Zenon, <1>n, <1>v
    <3> QED
      BY <3>1, <3>2, <1>s DEF CallerStanding, Opening, CallerAt, FreshFor
  <2> QED
    BY Zenon, <2>1, <2>2
<1>3. OpenersStanding'
  <2> SUFFICES ASSUME NEW d \in Callers, Opening(d)'
               PROVE  /\ conns'[callers'[d].conn].open /\ ~conns'[callers'[d].conn].evicted
                      /\ conns'[callers'[d].conn].proof = callers'[d].proof
                      /\ Users(callers[d].conn)' = {}
                      /\ \A h \in Gens : pool'.entry[h] # callers'[d].conn
                      /\ \A b \in Callers : Opening(b)' /\ callers'[b].conn = callers'[d].conn => b = d
    BY DEF OpenersStanding
  <2>o. d # c /\ Opening(d) /\ callers'[d] = callers[d] /\ callers[d].conn \in 1 .. MaxConn
    BY Zenon, <1>o, <1>k, <1>n
  <2>1. /\ conns[callers[d].conn].open /\ ~conns[callers[d].conn].evicted
        /\ conns[callers[d].conn].proof = callers[d].proof
        /\ Users(callers[d].conn) = {}
        /\ \A h \in Gens : pool.entry[h] # callers[d].conn
        /\ \A b \in Callers : Opening(b) /\ callers[b].conn = callers[d].conn => b = d
    BY Zenon, <2>o DEF OpenersStanding
  <2>2. callers[d].conn # i
    BY Zenon, <2>1, <1>u
  <2>3. Users(callers[d].conn)' = {}
    BY Zenon, <2>1, <2>o, <1>o, <1>k DEF Users
  <2>4. \A b \in Callers : Opening(b)' /\ callers'[b].conn = callers'[d].conn => b = d
    BY Zenon, <2>1, <2>o, <1>o, <1>k
  <2> QED
    BY Zenon, <2>1, <2>2, <2>3, <2>4, <2>o, <1>v, <1>s
<1>4. DialsStanding'
  BY Zenon, <1>o, <1>x, <1>k, <1>s DEF DialsStanding, Key
<1>5. EntriesStanding'
  <2> SUFFICES ASSUME NEW h \in Gens, pool.entry[h] # 0
               PROVE  /\ pool.entry[h] \in 1 .. pool.dialled
                      /\ conns'[pool.entry[h]].open /\ ~conns'[pool.entry[h]].evicted
                      /\ conns'[pool.entry[h]].proof.gen = h
    BY Zenon, <1>s DEF EntriesStanding
  <2>1. /\ pool.entry[h] \in 1 .. pool.dialled /\ conns[pool.entry[h]].open /\ ~conns[pool.entry[h]].evicted
        /\ conns[pool.entry[h]].proof.gen = h /\ pool.entry[h] \in 1 .. MaxConn
    BY Zenon, ConnsInRange
  <2>2. ~pool.closed
    BY Zenon DEF DialsStanding
  <2> QED
    BY Zenon, <2>1, <2>2, <1>v
<1>6. ConnsStanding'
  <2> SUFFICES ASSUME NEW j \in 1 .. MaxConn
               PROVE  /\ conns'[j].borrowers = Cardinality(Users(j)')
                      /\ j > pool.dialled => ~conns'[j].open
                      /\ conns'[j].open =>
                          \/ \E d \in Callers : Opening(d)' /\ callers'[d].conn = j
                          \/ \E h \in Gens : pool.entry[h] = j
                          \/ conns'[j].evicted /\ conns'[j].borrowers > 0
    BY Zenon, <1>s DEF ConnsStanding
  <2>0. /\ conns[j].borrowers = Cardinality(Users(j)) /\ (j > pool.dialled => ~conns[j].open)
        /\ conns[j].open =>
              \/ \E d \in Callers : Opening(d) /\ callers[d].conn = j
              \/ \E h \in Gens : pool.entry[h] = j
              \/ conns[j].evicted /\ conns[j].borrowers > 0
    BY DEF ConnsStanding
  <2>1. ASSUME NEW d \in Callers, Opening(d), callers[d].conn = j PROVE Opening(d)' /\ callers'[d].conn = j
    BY Zenon, <2>1, <1>o, <1>x, <1>k
  <2>2. CASE j = i
    <3>1. conns'[j].borrowers = Cardinality(Users(j)') /\ (conns'[j].open => conns[j].open /\ ~gone)
      BY Zenon, <2>2, <2>0, <1>v, <1>b
    <3>2. conns'[j].open /\ conns[j].evicted => conns'[j].evicted /\ conns'[j].borrowers > 0
      BY <2>2, <3>1, <1>v, <1>b
    <3>3. conns'[j].evicted = conns[j].evicted
      BY Zenon, <2>2, <1>v
    <3> QED
      BY Zenon, <2>0, <2>1, <3>1, <3>2, <3>3
  <2>3. CASE j # i
    BY Zenon, <2>3, <2>0, <2>1, <1>v, <1>u
  <2> QED
    BY Zenon, <2>2, <2>3
<1>7. UsersConnected'
  <2> SUFFICES ASSUME NEW d \in Callers, CallerAt(d, "using")'
               PROVE  conns'[callers'[d].conn].open \/ pool.closed
    BY Zenon, <1>s DEF UsersConnected
  <2>1. d # c /\ CallerAt(d, "using") /\ callers'[d] = callers[d] /\ callers[d].conn \in 1 .. MaxConn
    BY Zenon, <1>o, <1>k, <1>n
  <2>2. callers[d].conn = i => conns[i].borrowers # 1
    BY Zenon, <2>1, <1>b DEF Users
  <2> QED
    BY Zenon, <2>1, <2>2, <1>v DEF UsersConnected
<1> QED
  BY <1>1, <1>2, <1>3, <1>4, <1>5, <1>6, <1>7

\* Close closes every pooled connection, in use or not, and leaves the ones being opened to
\* their callers.
LEMMA ClosePoolKeeps == ASSUME PoolInductive, ClosePool PROVE PoolInductive'
<1> USE DEF PoolInductive
<1>t. /\ conns \in [1 .. MaxConn -> ConnType] /\ pool \in PoolType /\ MaxConn \in Nat
      /\ pool.entry \in [Gens -> 0 .. MaxConn] /\ pool.dialled \in 0 .. MaxConn
  BY Zenon, PoolTyped, PoolAssumption DEF PoolTypeOK, PoolType
<1>s. UNCHANGED <<target, callers>>
  BY Zenon DEF ClosePool
<1>p. /\ pool' \in PoolType /\ pool'.closed /\ pool'.pending = pool.pending /\ pool'.dialled = pool.dialled
      /\ pool'.changes = pool.changes /\ \A g \in Gens : pool'.entry[g] = 0
  <2> DEFINE e == [g \in Gens |-> 0]
  <2>1. pool' = [pool EXCEPT !.closed = TRUE, !.entry = e] /\ e \in [Gens -> 0 .. MaxConn] /\ \A g \in Gens : e[g] = 0
    <3>1. e \in [Gens -> 0 .. MaxConn]
      BY <1>t
    <3> QED
      BY Zenon, <3>1 DEF ClosePool
  <2> HIDE DEF e
  <2>2. pool' \in PoolType /\ pool'.closed
    BY Zenon, <2>1, <1>t DEF PoolType
  <2>3. pool'.entry = e
    BY Zenon, <2>1, <1>t DEF PoolType
  <2> QED
    BY Zenon, <2>1, <2>2, <2>3, <1>t DEF PoolType
<1> DEFINE pooled(i) == \E g \in Gens : pool.entry[g] = i
<1>v. /\ conns' \in [1 .. MaxConn -> ConnType]
      /\ \A i \in 1 .. MaxConn : ~pooled(i) => conns'[i] = conns[i]
      /\ \A i \in 1 .. MaxConn : pooled(i) => ~conns'[i].open
      /\ \A i \in 1 .. MaxConn : conns'[i].proof = conns[i].proof /\ conns'[i].borrowers = conns[i].borrowers
  <2>1. \A i \in 1 .. MaxConn :
          conns'[i] = IF pooled(i) THEN [conns[i] EXCEPT !.evicted = TRUE, !.open = FALSE] ELSE conns[i]
    BY Zenon DEF ClosePool
  <2>2. ASSUME NEW i \in 1 .. MaxConn
        PROVE  LET x == [conns[i] EXCEPT !.evicted = TRUE, !.open = FALSE] IN
               x \in ConnType /\ ~x.open /\ x.proof = conns[i].proof /\ x.borrowers = conns[i].borrowers
    <3> DEFINE x == [conns[i] EXCEPT !.evicted = TRUE, !.open = FALSE]
    <3>1. x \in ConnType
      BY Zenon, <1>t DEF ConnType
    <3>2. ~x.open /\ x.proof = conns[i].proof /\ x.borrowers = conns[i].borrowers
      BY Zenon, <1>t DEF ConnType
    <3> QED
      BY Zenon, <3>1, <3>2
  <2>3. conns' = [i \in 1 .. MaxConn |-> conns'[i]]
    BY Zenon DEF ClosePool
  <2> HIDE DEF pooled
  <2>4. \A i \in 1 .. MaxConn : conns'[i] \in ConnType
    BY Zenon, <2>1, <2>2, <1>t
  <2> QED
    BY Zenon, <2>1, <2>2, <2>3, <2>4
<1>o. \A d \in Callers : /\ Opening(d)' <=> Opening(d)
                         /\ CallerAt(d, "using")' <=> CallerAt(d, "using")
                         /\ Dialling(d)' <=> Dialling(d) /\ Key(d)' = Key(d)
  BY Zenon, <1>s DEF Opening, CallerAt, Dialling, Key
<1>u. \A i : Users(i)' = Users(i)
  BY Zenon, <1>s DEF Users, CallerAt
<1>1. PoolTypeOK' /\ TargetCounted'
  BY Zenon, <1>v, <1>p, <1>s DEF PoolTypeOK, TargetCounted, ConnType, PoolType
<1>2. CallersStanding'
  <2> SUFFICES ASSUME NEW d \in Callers PROVE CallerStanding(d)'
    BY Zenon DEF CallersStanding
  <2>1. CallerStanding(d) /\ callers'[d] = callers[d] /\ pool'.dialled = pool.dialled /\ target' = target
    BY Zenon, <1>s, <1>p DEF CallersStanding
  <2>2. callers[d].conn \in 1 .. pool.dialled => conns'[callers[d].conn].proof = conns[callers[d].conn].proof
    BY <1>v, <1>t
  <2> QED
    BY Zenon, <2>1, <2>2 DEF CallerStanding, Opening, CallerAt, FreshFor
<1>3. OpenersStanding'
  <2> SUFFICES ASSUME NEW d \in Callers, Opening(d)
               PROVE  /\ conns'[callers[d].conn].open /\ ~conns'[callers[d].conn].evicted
                      /\ conns'[callers[d].conn].proof = callers[d].proof
                      /\ Users(callers[d].conn) = {}
                      /\ \A h \in Gens : pool'.entry[h] # callers[d].conn
                      /\ \A b \in Callers : Opening(b) /\ callers[b].conn = callers[d].conn => b = d
    BY Zenon, <1>s, <1>u, <1>o DEF OpenersStanding
  <2>1. /\ conns[callers[d].conn].open /\ ~conns[callers[d].conn].evicted
        /\ conns[callers[d].conn].proof = callers[d].proof
        /\ Users(callers[d].conn) = {}
        /\ \A h \in Gens : pool.entry[h] # callers[d].conn
        /\ \A b \in Callers : Opening(b) /\ callers[b].conn = callers[d].conn => b = d
    BY Zenon DEF OpenersStanding
  <2>2. callers[d].conn \in 1 .. pool.dialled
    BY Zenon DEF CallersStanding, CallerStanding, Opening
  <2>3. callers[d].conn \in 1 .. MaxConn /\ ~pooled(callers[d].conn)
    BY <2>1, <2>2, <1>t
  <2>4. conns'[callers[d].conn] = conns[callers[d].conn] /\ \A h \in Gens : pool'.entry[h] # callers[d].conn
    BY <2>3, <1>v, <1>p
  <2> QED
    BY Zenon, <2>1, <2>4
<1>4. DialsStanding'
  BY Zenon, <1>o, <1>p DEF DialsStanding
<1>5. EntriesStanding'
  BY Zenon, <1>p DEF EntriesStanding
<1>6. ConnsStanding'
  <2> SUFFICES ASSUME NEW i \in 1 .. MaxConn
               PROVE  /\ conns'[i].borrowers = Cardinality(Users(i))
                      /\ i > pool.dialled => ~conns'[i].open
                      /\ conns'[i].open =>
                          \/ \E d \in Callers : Opening(d) /\ callers[d].conn = i
                          \/ conns'[i].evicted /\ conns'[i].borrowers > 0
    BY Zenon, <1>s, <1>u, <1>o, <1>p DEF ConnsStanding
  <2> QED
    BY Zenon, <1>v DEF ConnsStanding
<1>7. UsersConnected'
  BY Zenon, <1>p DEF UsersConnected
<1> QED
  BY Zenon, <1>1, <1>2, <1>3, <1>4, <1>5, <1>6, <1>7

\* The Environment changes under the callers; the credential joins what each may find.
LEMMA TargetChangesKeeps == ASSUME PoolInductive, TargetChanges PROVE PoolInductive'
<1> USE DEF PoolInductive
<1>t. /\ callers \in [Callers -> CallerType] /\ pool \in PoolType /\ MaxConn \in Nat /\ MaxWorld \in Nat
      /\ pool.changes \in 0 .. MaxWorld /\ pool.dialled \in 0 .. MaxConn
      /\ target \in [gen : Gens, hold : 0 .. MaxWorld, cred : 0 .. MaxWorld, up : BOOLEAN]
  BY Zenon, PoolTyped, PoolAssumption DEF PoolTypeOK, PoolType
<1>p. /\ pool' \in PoolType /\ pool'.entry = pool.entry /\ pool'.pending = pool.pending
      /\ pool'.closed = pool.closed /\ pool'.dialled = pool.dialled
      /\ pool'.changes = pool.changes + 1 /\ pool.changes < MaxWorld
  <2> DEFINE n == pool.changes + 1
  <2>1. pool' = [pool EXCEPT !.changes = n] /\ n \in 0 .. MaxWorld /\ pool.changes < MaxWorld
    BY <1>t DEF TargetChanges
  <2> HIDE DEF n
  <2>2. pool' \in PoolType
    BY Zenon, <2>1, <1>t DEF PoolType
  <2> QED
    BY Zenon, <2>1, <2>2, <1>t DEF PoolType, n
<1>1. /\ target' \in [gen : Gens, hold : 0 .. MaxWorld, cred : 0 .. MaxWorld, up : BOOLEAN]
      /\ TargetCounted'
  <2> DEFINE T == [gen : Gens, hold : 0 .. MaxWorld, cred : 0 .. MaxWorld, up : BOOLEAN]
             g == target.gen + 1
             h == target.hold + 1
             k == target.cred + 1
  <2>1. /\ g \in Gens /\ h \in 0 .. MaxWorld /\ k \in 0 .. MaxWorld
        /\ g <= pool'.changes + 1 /\ h <= pool'.changes /\ k <= pool'.changes
        /\ target.gen <= pool'.changes + 1 /\ target.hold <= pool'.changes /\ target.cred <= pool'.changes
    BY <1>t, <1>p DEF TargetCounted, Gens
  <2>2. \/ target' = [target EXCEPT !.gen = g, !.cred = k, !.up = TRUE] \/ target' = [target EXCEPT !.hold = h]
        \/ target' = [target EXCEPT !.cred = k] \/ target' = [target EXCEPT !.up = FALSE]
    BY Zenon DEF TargetChanges
  <2> HIDE DEF g, h, k
  <2>3. target' \in T
    BY Zenon, <2>1, <2>2, <1>t
  <2>4. target'.gen \in {g, target.gen} /\ target'.hold \in {h, target.hold} /\ target'.cred \in {k, target.cred}
    BY Zenon, <2>2, <1>t
  <2> QED
    BY Zenon, <2>1, <2>3, <2>4 DEF TargetCounted
<1>k. /\ callers' \in [Callers -> CallerType]
      /\ \A d \in Callers :
            /\ callers'[d].step = callers[d].step /\ callers'[d].again = callers[d].again
            /\ callers'[d].fence = callers[d].fence /\ callers'[d].env = callers[d].env
            /\ callers'[d].proof = callers[d].proof /\ callers'[d].conn = callers[d].conn
            /\ callers'[d].failed = callers[d].failed /\ callers[d].creds \subseteq callers'[d].creds
            /\ callers[d].step # "idle" => target'.cred \in callers'[d].creds
  <2> DEFINE f(d) == [callers[d] EXCEPT !.creds = callers[d].creds \cup {target'.cred}]
  <2>1. \A d \in Callers : callers'[d] = IF CallerAt(d, "idle") THEN callers[d] ELSE f(d)
    BY Zenon DEF TargetChanges
  <2>2. ASSUME NEW d \in Callers
        PROVE  /\ f(d) \in CallerType /\ f(d).step = callers[d].step /\ f(d).again = callers[d].again
               /\ f(d).fence = callers[d].fence /\ f(d).env = callers[d].env /\ f(d).proof = callers[d].proof
               /\ f(d).conn = callers[d].conn /\ f(d).failed = callers[d].failed
               /\ f(d).creds = callers[d].creds \cup {target'.cred}
    <3>1. callers[d].creds \cup {target'.cred} \in SUBSET (0 .. MaxWorld) /\ callers[d] \in CallerType
      BY Zenon, <1>1, <1>t DEF CallerType
    <3>2. f(d) \in CallerType
      BY Zenon, <3>1 DEF CallerType
    <3> QED
      BY Zenon, <3>1, <3>2 DEF CallerType
  <2>3. callers' = [d \in Callers |-> callers'[d]]
    BY Zenon DEF TargetChanges
  <2> HIDE DEF f
  <2>4. \A d \in Callers : callers'[d] \in CallerType
    BY Zenon, <2>1, <2>2, <1>t
  <2> QED
    BY <2>1, <2>2, <2>3, <2>4 DEF CallerAt
<1>v. conns' = conns
  BY Zenon DEF TargetChanges
<1>2. PoolTypeOK'
  BY Zenon, <1>1, <1>k, <1>v, <1>p DEF PoolTypeOK, PoolType
<1>o. \A d \in Callers : /\ Opening(d)' <=> Opening(d)
                         /\ CallerAt(d, "using")' <=> CallerAt(d, "using")
                         /\ Dialling(d)' <=> Dialling(d) /\ Key(d)' = Key(d)
  BY Zenon, <1>k DEF Opening, CallerAt, Dialling, Key
<1>u. \A i : Users(i)' = Users(i)
  BY Zenon, <1>k, <1>o DEF Users
<1>3. CallersStanding'
  <2> SUFFICES ASSUME NEW d \in Callers PROVE CallerStanding(d)'
    BY DEF CallersStanding
  <2>1. CallerStanding(d) /\ pool'.dialled = pool.dialled
    BY Zenon, <1>p DEF CallersStanding
  <2>2. \A p : FreshFor(d, p) => FreshFor(d, p)'
    BY Zenon, <1>k DEF FreshFor
  <2>3. callers[d].step = "using" => FreshFor(d, conns[callers[d].conn].proof)'
    BY Zenon, <2>1, <1>k, <1>v DEF CallerStanding, FreshFor
  <2>4. callers[d].step \in {"lease", "dial"} \/ Opening(d) => FreshFor(d, callers[d].proof)'
    BY Zenon, <2>1, <1>k DEF CallerStanding, FreshFor
  <2> QED
    <3>1. /\ callers'[d].step = callers[d].step /\ callers'[d].again = callers[d].again
          /\ callers'[d].fence = callers[d].fence /\ callers'[d].env = callers[d].env
          /\ callers'[d].proof = callers[d].proof /\ callers'[d].conn = callers[d].conn
          /\ callers'[d].failed = callers[d].failed /\ (Opening(d)' <=> Opening(d))
          /\ callers[d].step # "idle" => target'.cred \in callers'[d].creds
      BY Zenon, <1>k, <1>o
    <3> HIDE DEF Opening, FreshFor
    <3> QED
      BY <2>1, <2>3, <2>4, <3>1, <1>v DEF CallerStanding
<1>4. OpenersStanding'
  <2> SUFFICES ASSUME NEW d \in Callers, Opening(d)'
               PROVE  /\ conns'[callers'[d].conn].open /\ ~conns'[callers'[d].conn].evicted
                      /\ conns'[callers'[d].conn].proof = callers'[d].proof
                      /\ Users(callers[d].conn)' = {}
                      /\ \A h \in Gens : pool'.entry[h] # callers'[d].conn
                      /\ \A b \in Callers : Opening(b)' /\ callers'[b].conn = callers'[d].conn => b = d
    BY Zenon DEF OpenersStanding
  <2>1. Users(callers[d].conn)' = Users(callers[d].conn)
    BY Zenon, <1>k, <1>o DEF Users
  <2>2. /\ conns[callers[d].conn].open /\ ~conns[callers[d].conn].evicted
        /\ conns[callers[d].conn].proof = callers[d].proof
        /\ Users(callers[d].conn) = {}
        /\ \A h \in Gens : pool.entry[h] # callers[d].conn
        /\ \A b \in Callers : Opening(b) /\ callers[b].conn = callers[d].conn => b = d
    BY Zenon, <1>o DEF OpenersStanding
  <2>3. /\ conns' = conns /\ callers'[d].conn = callers[d].conn /\ callers'[d].proof = callers[d].proof
        /\ pool'.entry = pool.entry
    BY Zenon, <1>k, <1>v, <1>p
  <2>4. \A b \in Callers : Opening(b)' /\ callers'[b].conn = callers'[d].conn => b = d
    BY Zenon, <2>2, <2>3, <1>o, <1>k
  <2> QED
    BY Zenon, <2>1, <2>2, <2>3, <2>4
<1>5. DialsStanding' /\ EntriesStanding'
  <2>1. DialsStanding'
    BY Zenon, <1>o, <1>p DEF DialsStanding
  <2>2. EntriesStanding'
    BY Zenon, <1>p, <1>v DEF EntriesStanding
  <2> QED
    BY Zenon, <2>1, <2>2
<1>6. ConnsStanding' /\ UsersConnected'
  <2>1. pool'.entry = pool.entry /\ pool'.dialled = pool.dialled /\ pool'.closed = pool.closed
        /\ \A d \in Callers : callers'[d].conn = callers[d].conn
    BY Zenon, <1>k, <1>p
  <2>2. ConnsStanding'
    BY Zenon, <2>1, <1>o, <1>u, <1>v DEF ConnsStanding
  <2>3. UsersConnected'
    BY Zenon, <2>1, <1>o, <1>v DEF UsersConnected
  <2> QED
    BY Zenon, <2>2, <2>3
<1> QED
  BY Zenon, <1>1, <1>2, <1>3, <1>4, <1>5, <1>6

\* An empty pool and callers at rest.
LEMMA PoolStarts == PoolInit => PoolInductive
<1> SUFFICES ASSUME PoolInit PROVE PoolInductive
  OBVIOUS
<1>0. /\ \A c \in Callers : callers[c] = Resting /\ callers[c].step = "idle" /\ ~callers[c].again /\ callers[c].conn = 0
      /\ \A i \in 1 .. MaxConn : conns[i] = NoConn /\ ~conns[i].open /\ conns[i].borrowers = 0
      /\ target.gen = 1 /\ target.hold = 0 /\ target.cred = 0 /\ pool.changes = 0
      /\ \A g \in Gens : pool.entry[g] = 0
  BY Zenon DEF PoolInit, Resting, NoConn
<1>1. PoolTypeOK
  <2>0. MaxConn \in Nat /\ MaxWorld \in Nat /\ Cardinality(Callers) \in Nat
    BY Zenon, PoolAssumption, FS_CardinalityType
  <2>1. target \in [gen : Gens, hold : 0 .. MaxWorld, cred : 0 .. MaxWorld, up : BOOLEAN]
    BY <2>0 DEF PoolInit, Gens
  <2>2. callers \in [Callers -> CallerType]
    BY Zenon, RestingTyped DEF PoolInit
  <2>3. conns \in [1 .. MaxConn -> ConnType]
    BY <2>0 DEF PoolInit, NoConn, ConnType
  <2>4. pool \in PoolType
    BY <2>0 DEF PoolInit, PoolType
  <2> QED
    BY Zenon, <2>1, <2>2, <2>3, <2>4 DEF PoolTypeOK, ConnType, PoolType
<1>n. \A c \in Callers : ~Opening(c) /\ ~Dialling(c) /\ ~CallerAt(c, "using")
  BY Zenon, <1>0 DEF Opening, Dialling, CallerAt
<1>2. TargetCounted
  BY <1>0 DEF TargetCounted
<1>3. CallersStanding
  BY Zenon, <1>0, <1>n DEF CallersStanding, CallerStanding
<1>4. OpenersStanding /\ DialsStanding /\ EntriesStanding /\ UsersConnected
  BY Zenon, <1>0, <1>n DEF OpenersStanding, DialsStanding, EntriesStanding, UsersConnected
<1>5. ConnsStanding
  <2>1. \A i : Users(i) = {}
    BY Zenon, <1>n DEF Users
  <2> QED
    BY Zenon, <2>1, <1>0, FS_EmptySet DEF ConnsStanding
<1> QED
  BY Zenon, <1>1, <1>2, <1>3, <1>4, <1>5 DEF PoolInductive

\* Every step of acquire, Release, eviction, Close and the Environment keeps the invariant
\* of the pool.
THEOREM PoolIsInductive == PoolSpec => []PoolInductive
<1>1. ASSUME PoolInductive, [PoolNext]_poolVars PROVE PoolInductive'
  <2>1. ASSUME NEW c \in Callers, StopWaiting(c) PROVE PoolInductive'
    <3>1. CallersStanding /\ callers[c].step = "waiting"
      BY Zenon, <1>1, <2>1 DEF PoolInductive, StopWaiting, CallerAt
    <3>2. ~Dialling(c)
      BY Zenon, <3>1 DEF CallersStanding, CallerStanding, Dialling, Opening
    <3> QED
      BY Zenon, <1>1, <2>1, <3>1, <3>2, FailureKeeps DEF StopWaiting
  <2>2. ASSUME NEW g \in Gens, EvictIdle(g) PROVE PoolInductive'
    BY Zenon, <1>1, <2>2, EvictionKeeps DEF EvictIdle
  <2>3. CASE UNCHANGED poolVars
    <3> USE <1>1, <2>3 DEF PoolInductive, poolVars
    <3>1. PoolTypeOK' /\ TargetCounted' /\ EntriesStanding' /\ UsersConnected'
      BY Zenon DEF PoolTypeOK, TargetCounted, EntriesStanding, UsersConnected, CallerAt
    <3>2. CallersStanding'
      BY DEF CallersStanding, CallerStanding, Opening, FreshFor, CallerAt
    <3>3. OpenersStanding'
      BY Zenon DEF OpenersStanding, Opening, Users, CallerAt
    <3>4. DialsStanding'
      BY Zenon DEF DialsStanding, Dialling, Opening, Key, CallerAt
    <3>5. ConnsStanding'
      BY Zenon DEF ConnsStanding, Opening, Users, CallerAt
    <3> QED
      BY Zenon, <3>1, <3>2, <3>3, <3>4, <3>5
  <2> QED
    BY Zenon, <1>1, <2>1, <2>2, <2>3, BeginCallKeeps, RevalidateKeeps, ProveKeeps, LeaseKeeps, DialKeeps, InstallKeeps,
       ReleaseKeeps, ClosePoolKeeps, TargetChangesKeeps DEF PoolNext
<1> QED
  BY <1>1, PoolStarts, PTL DEF PoolSpec

\* No connection leaks and no lease is stale, whatever the number of callers and connections:
\* an open connection is pooled, borrowed or being opened, and a lease is of the execution its
\* caller fenced (process_pool.go).
THEOREM PoolIsSafe == PoolSpec => []PoolSafe
<1>1. PoolInductive => PoolSafe
  <2> SUFFICES ASSUME PoolInductive PROVE PoolSafe
    OBVIOUS
  <2>t. \A i \in 1 .. MaxConn : conns[i].borrowers \in Nat
    BY PoolTyped, CallersCounted DEF PoolInductive, ConnType
  <2>1. \A c \in Callers : (callers[c].again /\ ~CallerAt(c, "using")) <=> Opening(c)
    BY Zenon DEF Opening
  <2>2. ASSUME NEW i \in 1 .. MaxConn, conns[i].open
        PROVE  \/ \E c \in Callers : callers[c].conn = i /\ callers[c].again /\ ~CallerAt(c, "using")
               \/ ~pool.closed /\ (conns[i].borrowers > 0 \/ i \in {pool.entry[g] : g \in Gens})
               \/ pool.closed /\ conns[i].evicted /\ conns[i].borrowers > 0
    <3>1. CASE \E c \in Callers : Opening(c) /\ callers[c].conn = i
      BY Zenon, <3>1, <2>1
    <3>2. CASE \E g \in Gens : pool.entry[g] = i
      <4>1. PICK g \in Gens : pool.entry[g] = i
        BY Zenon, <3>2
      <4>2. pool.entry[g] # 0
        BY <4>1
      <4>3. ~pool.closed
        BY Zenon, <4>2 DEF PoolInductive, DialsStanding
      <4> QED
        BY Zenon, <4>1, <4>3
    <3>3. CASE conns[i].evicted /\ conns[i].borrowers > 0
      BY Zenon, <3>3
    <3> QED
      BY Zenon, <2>2, <3>1, <3>2, <3>3 DEF PoolInductive, ConnsStanding
  <2>4. NothingLeaks
    BY Zenon, <2>2 DEF PoolInductive, NothingLeaks, UsersConnected
  <2>3. LeaseIsFresh
    BY Zenon DEF PoolInductive, LeaseIsFresh, CallersStanding, CallerStanding, CallerAt, FreshFor
  <2> QED
    BY Zenon, <2>3, <2>4 DEF PoolInductive, PoolSafe
<1> QED
  BY <1>1, PoolIsInductive, PTL
=============================================================================
