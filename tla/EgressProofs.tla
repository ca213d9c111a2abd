---------------------------- MODULE EgressProofs ----------------------------
(***************************************************************************)
(* The egress proxy is safe for any number of tunnels, lease states and    *)
(* changes of the cluster, and for any quota.  The proof that everything   *)
(* was current at one instant, and the leases, each have an invariant.     *)
(***************************************************************************)
EXTENDS EgressTunnels, FiniteSetTheorems, TLAPS

(* ---- the proof -------------------------------------------------------- *)

ProofTyped ==
    /\ sources \in [Sources -> [rv : Nat, good : BOOLEAN]]
    /\ proof \in [pass : 0 .. 3, at : 1 .. 5, seen : [Sources -> Nat], held : BOOLEAN]

\* A source the first pass has read.
ReadOnce(x) == proof.pass \in {2, 3} \/ (proof.pass = 1 /\ \E i \in 1 .. proof.at - 1 : FirstPass[i] = x)

\* While everything is right the evaluation is held; a source is not older than what was
\* read of it, and right if it is the same; and in the second pass an evaluation not yet
\* held has a moved source ahead of it.
ProofStanding ==
    /\ proof.pass # 0 /\ AllGood(sources) => proof.held
    /\ \A x \in Sources : ReadOnce(x) =>
          proof.seen[x] <= sources[x].rv /\ (sources[x].rv = proof.seen[x] => sources[x].good)
    /\ proof.pass = 2 /\ ~proof.held =>
          \E i \in proof.at .. 5 : sources[SecondPass[i]].rv > proof.seen[SecondPass[i]]
    /\ proof.pass = 3 => proof.held

ProofInductive == ProofTyped /\ ProofStanding

(* ---- leases and quota ------------------------------------------------- *)

Holding == {"leased", "dial", "hello", "relay", "release"}
Users == {t \in Tunnels : tun[t].step \in {"prove", "granted", "refused"}}
Leases(s) == {t \in Tunnels : tun[t].state = s /\ tun[t].step \in Holding}

LeaseType == [there : BOOLEAN, state : 0 .. MaxStates, revoked : SUBSET States, users : Nat, leases : Nat,
              made : 0 .. MaxStates]
TunType == [step : {"idle", "connect", "prove", "granted", "refused", "leased", "dial", "hello", "relay",
                    "release", "join"},
            state : 0 .. MaxStates, quota : {"none", "pending", "active"}]
TunnelTyped ==
    /\ current \in BOOLEAN /\ worlds \in 0 .. MaxWorlds /\ bucket \in 0 .. MaxTokens
    /\ lease \in LeaseType
    /\ loops \in [States -> {"none", "prove", "failed", "cancelled"}]
    /\ tun \in [Tunnels -> TunType]

\* A tunnel of an earlier state of the record is revoked, and a current state with leases
\* is revoked or has its loop.
LeasesStanding ==
    /\ lease.there => lease.state \in States
    /\ lease.state <= lease.made
    /\ \A t \in Tunnels : tun[t].step \in Holding =>
          tun[t].state \in 1 .. lease.made /\ (tun[t].state # lease.state => Revoked(t))
    /\ lease.leases > 0 /\ lease.state \notin lease.revoked => loops[lease.state] \in {"prove", "failed"}

LeaseCounts ==
    /\ lease.users = Cardinality(Users) /\ lease.leases = Cardinality(Leases(lease.state))
    /\ lease.users + lease.leases > 0 => lease.there

TunnelInductive == TunnelTyped /\ LeasesStanding /\ LeaseCounts /\ QuotaHolds
EgressInductive == ProofInductive /\ TunnelInductive

\* Both passes read every source.
LEMMA PassesCover ==
    /\ \A i \in 1 .. 5 : FirstPass[i] \in Sources /\ SecondPass[i] \in Sources
    /\ \A x \in Sources : \E i \in 1 .. 5 : FirstPass[i] = x
    /\ \A x \in Sources : \E i \in 1 .. 5 : SecondPass[i] = x
    /\ Len(FirstPass) = 5 /\ Len(SecondPass) = 5
<1>0. /\ Len(FirstPass) = 5 /\ Len(SecondPass) = 5 /\ DOMAIN FirstPass = 1 .. 5
      /\ FirstPass[1] = "identity" /\ FirstPass[2] = "claim" /\ FirstPass[3] = "project" /\ FirstPass[4] = "policy"
      /\ FirstPass[5] = "execution"
      /\ SecondPass[1] = "policy" /\ SecondPass[2] = "identity" /\ SecondPass[3] = "claim"
      /\ SecondPass[4] = "project" /\ SecondPass[5] = "execution"
  BY DEF FirstPass, SecondPass
<1>1. Sources = {"identity", "claim", "project", "policy", "execution"}
  BY <1>0 DEF Sources
<1>2. \A i \in 1 .. 5 : i = 1 \/ i = 2 \/ i = 3 \/ i = 4 \/ i = 5
  OBVIOUS
<1> QED
  BY <1>0, <1>1, <1>2

\* A new resourceVersion of a source, and an evaluation that notices when all is right.
LEMMA SourceChangesKeeps == ASSUME ProofInductive, NEW x \in Sources, SourceChanges(x) PROVE ProofInductive'
<1> USE DEF ProofInductive, ProofTyped
<1>1. PICK g \in BOOLEAN :
        /\ sources' = [sources EXCEPT ![x] = [rv |-> sources[x].rv + 1, good |-> g]]
        /\ proof' = [proof EXCEPT !.held = proof.held \/ (proof.pass # 0 /\ AllGood(sources'))]
  BY Zenon DEF SourceChanges
<1>2. /\ sources' \in [Sources -> [rv : Nat, good : BOOLEAN]]
      /\ \A y \in Sources : sources'[y].rv >= sources[y].rv /\ (sources'[y].rv = sources[y].rv => sources'[y] = sources[y])
  BY <1>1
<1>3. /\ proof' \in [pass : 0 .. 3, at : 1 .. 5, seen : [Sources -> Nat], held : BOOLEAN]
      /\ proof'.pass = proof.pass /\ proof'.at = proof.at /\ proof'.seen = proof.seen
      /\ proof'.held <=> proof.held \/ (proof.pass # 0 /\ AllGood(sources'))
  <2> DEFINE h == proof.held \/ (proof.pass # 0 /\ AllGood(sources'))
  <2>1. h \in BOOLEAN /\ proof' = [proof EXCEPT !.held = h]
    BY Zenon, <1>1
  <2> HIDE DEF h
  <2>2. proof' \in [pass : 0 .. 3, at : 1 .. 5, seen : [Sources -> Nat], held : BOOLEAN] /\ proof'.held = h
    BY Zenon, <2>1
  <2>3. proof'.pass = proof.pass /\ proof'.at = proof.at /\ proof'.seen = proof.seen
    BY Zenon, <2>1
  <2> QED
    BY Zenon, <2>2, <2>3 DEF h
<1>4. \A y \in Sources : ReadOnce(y)' <=> ReadOnce(y)
  BY Zenon, <1>3 DEF ReadOnce
<1>5. \A y \in Sources : ReadOnce(y)' =>
          proof'.seen[y] <= sources'[y].rv /\ (sources'[y].rv = proof'.seen[y] => sources'[y].good)
  BY <1>2, <1>3, <1>4 DEF ProofStanding
<1>6. proof'.pass = 2 /\ ~proof'.held =>
          \E i \in proof'.at .. 5 : sources'[SecondPass[i]].rv > proof'.seen[SecondPass[i]]
  <2> SUFFICES ASSUME proof.pass = 2, ~proof.held
               PROVE  \E i \in proof.at .. 5 : sources'[SecondPass[i]].rv > proof.seen[SecondPass[i]]
    BY Zenon, <1>3
  <2>1. PICK i \in proof.at .. 5 : sources[SecondPass[i]].rv > proof.seen[SecondPass[i]]
    BY Zenon DEF ProofStanding
  <2>2. SecondPass[i] \in Sources
    BY PassesCover
  <2> QED
    BY <2>1, <2>2, <1>2
<1> QED
  BY Zenon, <1>2, <1>3, <1>5, <1>6 DEF ProofStanding

\* The first pass: at its end every source has been read.
LEMMA ReadFirstKeeps == ASSUME ProofInductive, ReadFirst PROVE ProofInductive'
<1> USE DEF ProofInductive, ProofTyped
<1> DEFINE x == FirstPass[proof.at]
           last == proof.at = 5
           s == [proof.seen EXCEPT ![x] = sources[x].rv]
           p == IF last THEN 2 ELSE 1
           a == IF last THEN 1 ELSE proof.at + 1
<1>0. x \in Sources /\ sources' = sources /\ proof.pass = 1 /\ proof.at \in 1 .. 5
  BY Zenon, PassesCover DEF ReadFirst
<1>1. CASE proof' = NoEgressProof
  BY <1>0, <1>1 DEF ProofStanding, NoEgressProof, ReadOnce
<1>2. CASE proof' # NoEgressProof
  <2>1. sources[x].good /\ proof' = [proof EXCEPT !.seen = s, !.pass = p, !.at = a]
    BY Zenon, <1>2, PassesCover DEF ReadFirst
  <2>2. s \in [Sources -> Nat] /\ p \in 0 .. 3 /\ a \in 1 .. 5
    BY <1>0
  <2>3. s[x] = sources[x].rv /\ \A y \in Sources : y # x => s[y] = proof.seen[y]
    BY Zenon, <1>0
  <2> HIDE DEF s, p, a
  <2>4. proof' \in [pass : 0 .. 3, at : 1 .. 5, seen : [Sources -> Nat], held : BOOLEAN]
    BY Zenon, <2>1, <2>2
  <2>5. proof'.seen = s /\ proof'.pass = p /\ proof'.at = a /\ proof'.held = proof.held
    BY Zenon, <2>1
  <2>6. ASSUME NEW y \in Sources, ReadOnce(y)' PROVE y = x \/ ReadOnce(y)
    <3>1. PICK i \in 1 .. 5 : FirstPass[i] = y /\ (~last => i <= proof.at)
      <4>1. CASE last
        BY Zenon, <4>1, PassesCover
      <4>2. CASE ~last
        <5>1. PICK i \in 1 .. proof'.at - 1 : FirstPass[i] = y
          BY <4>2, <2>6, <2>5 DEF ReadOnce, p
        <5>2. proof'.at = proof.at + 1 /\ proof.at \in Nat
          BY <4>2, <2>5, <1>0 DEF a
        <5>3. i \in 1 .. 5 /\ i <= proof.at
          BY <5>1, <5>2, <1>0
        <5> QED
          BY Zenon, <5>1, <5>3
      <4> QED
        BY Zenon, <4>1, <4>2
    <3> QED
      BY <3>1, <1>0 DEF ReadOnce
  <2>7. ASSUME NEW y \in Sources, ReadOnce(y)'
        PROVE  proof'.seen[y] <= sources'[y].rv /\ (sources'[y].rv = proof'.seen[y] => sources'[y].good)
    <3>1. CASE y = x
      BY <3>1, <2>1, <2>3, <2>5, <1>0
    <3>2. CASE y # x
      BY Zenon, <3>2, <2>3, <2>5, <2>6, <2>7, <1>0 DEF ProofStanding
    <3> QED
      BY Zenon, <3>1, <3>2
  <2>8. ASSUME proof'.pass = 2, ~proof'.held
        PROVE  \E i \in proof'.at .. 5 : sources'[SecondPass[i]].rv > proof'.seen[SecondPass[i]]
    <3>1. last /\ proof'.at = 1
      BY <2>8, <2>5 DEF p, a
    <3>2. PICK y \in Sources : ~sources[y].good
      BY Zenon, <2>8, <2>5, <1>0 DEF ProofStanding, AllGood
    <3>3. proof'.seen[y] \in Nat /\ sources'[y].rv \in Nat /\ proof'.seen[y] < sources'[y].rv
      <4>1. ReadOnce(y)'
        BY Zenon, <2>8 DEF ReadOnce
      <4>2. proof'.seen[y] <= sources'[y].rv /\ sources'[y].rv # proof'.seen[y]
        BY Zenon, <4>1, <3>2, <2>7, <1>0
      <4>3. proof'.seen[y] \in Nat /\ sources'[y].rv \in Nat
        BY Zenon, <2>5, <2>2, <1>0
      <4>4. \A m, n \in Nat : m <= n /\ n # m => m < n
        OBVIOUS
      <4> QED
        BY Zenon, <4>2, <4>3, <4>4
    <3>4. PICK i \in 1 .. 5 : SecondPass[i] = y
      BY Zenon, PassesCover
    <3> QED
      BY Zenon, <3>1, <3>3, <3>4
  <2>9. proof'.pass # 3
    BY <2>5 DEF p
  <2> QED
    BY Zenon, <2>4, <2>5, <2>7, <2>8, <2>9, <1>0 DEF ProofStanding
<1> QED
  BY Zenon, <1>1, <1>2

\* The second pass: at its end no source has moved since, so some instant held them all.
LEMMA ReadAgainKeeps == ASSUME ProofInductive, ReadAgain PROVE ProofInductive'
<1> USE DEF ProofInductive, ProofTyped
<1> DEFINE x == SecondPass[proof.at]
           last == proof.at = 5
           p == IF last THEN 3 ELSE 2
           a == IF last THEN 1 ELSE proof.at + 1
<1>0. x \in Sources /\ sources' = sources /\ proof.pass = 2 /\ proof.at \in 1 .. 5
  BY Zenon, PassesCover DEF ReadAgain
<1>1. CASE proof' = NoEgressProof
  BY <1>0, <1>1 DEF ProofStanding, NoEgressProof, ReadOnce
<1>2. CASE proof' # NoEgressProof
  <2>1. sources[x].rv = proof.seen[x] /\ proof' = [proof EXCEPT !.pass = p, !.at = a]
    BY Zenon, <1>2, PassesCover DEF ReadAgain, Unmoved
  <2>2. p \in 0 .. 3 /\ a \in 1 .. 5
    BY <1>0
  <2> HIDE DEF p, a
  <2>3. proof' \in [pass : 0 .. 3, at : 1 .. 5, seen : [Sources -> Nat], held : BOOLEAN]
    BY Zenon, <2>1, <2>2
  <2>4. proof'.seen = proof.seen /\ proof'.pass = p /\ proof'.at = a /\ proof'.held = proof.held
    BY Zenon, <2>1
  <2>5. \A y \in Sources : ReadOnce(y)
    BY Zenon, <1>0 DEF ReadOnce
  <2>6. ~proof.held => \E i \in proof.at + 1 .. 5 : sources[SecondPass[i]].rv > proof.seen[SecondPass[i]]
    <3> SUFFICES ASSUME ~proof.held PROVE \E i \in proof.at + 1 .. 5 : sources[SecondPass[i]].rv > proof.seen[SecondPass[i]]
      OBVIOUS
    <3>1. PICK i \in proof.at .. 5 : sources[SecondPass[i]].rv > proof.seen[SecondPass[i]]
      BY Zenon, <1>0 DEF ProofStanding
    <3>2. i # proof.at
      BY <3>1, <2>1, <1>0
    <3> QED
      BY <3>1, <3>2, <1>0
  <2>7. last => proof.held
    BY <2>6
  <2> QED
    BY Zenon, <2>3, <2>4, <2>5, <2>6, <2>7, <1>0 DEF ProofStanding, p, a
<1> QED
  BY <1>1, <1>2

(* ---- leases and quota ------------------------------------------------- *)

\* Any set of tunnels is finite.
LEMMA TunnelsCounted ==
    ASSUME NEW S \in SUBSET Tunnels
    PROVE  IsFiniteSet(S) /\ Cardinality(S) \in Nat /\ (S # {} <=> Cardinality(S) > 0)
  BY EgressAssumption, FS_Subset, FS_CardinalityType, FS_EmptySet

\* A tunnel joins a set, leaves it, or both sets are the same.
LEMMA CountMoves ==
    ASSUME NEW S \in SUBSET Tunnels, NEW T \in SUBSET Tunnels, NEW t \in Tunnels,
           S \ {t} = T \ {t}
    PROVE  /\ t \notin S /\ t \in T => Cardinality(T) = Cardinality(S) + 1
           /\ t \in S /\ t \notin T => Cardinality(T) = Cardinality(S) - 1
           /\ (t \in S <=> t \in T) => T = S
<1>0. IsFiniteSet(S) /\ IsFiniteSet(T) /\ Cardinality(S) \in Nat /\ Cardinality(T) \in Nat
  BY Zenon, TunnelsCounted
<1>1. t \notin S /\ t \in T => Cardinality(T) = Cardinality(S) + 1
  <2>1. t \notin S /\ t \in T => T = S \cup {t}
    OBVIOUS
  <2> QED
    BY Zenon, <2>1, <1>0, FS_AddElement
<1>2. t \in S /\ t \notin T => Cardinality(T) = Cardinality(S) - 1
  <2>1. t \in S /\ t \notin T => T = S \ {t}
    OBVIOUS
  <2> QED
    BY Zenon, <2>1, <1>0, FS_RemoveElement
<1> QED
  BY <1>1, <1>2

\* What a step of tunnel t to x does to the counts, the record's state unchanged.
LEMMA TunnelMoves ==
    ASSUME TunnelTyped, NEW t \in Tunnels, NEW x \in TunType, tun' = [tun EXCEPT ![t] = x]
    PROVE  /\ tun' \in [Tunnels -> TunType] /\ tun'[t] = x
           /\ \A u \in Tunnels : u # t => tun'[u] = tun[u]
           /\ \A u \in Tunnels : tun[u] \in TunType
           /\ Users' \ {t} = Users \ {t} /\ \A s : Leases(s)' \ {t} = Leases(s) \ {t}
           /\ Pending' \ {t} = Pending \ {t} /\ Active' \ {t} = Active \ {t}
<1>1. /\ tun' \in [Tunnels -> TunType] /\ tun'[t] = x /\ \A u \in Tunnels : u # t => tun'[u] = tun[u]
      /\ \A u \in Tunnels : tun[u] \in TunType
  BY Zenon DEF TunnelTyped
<1>2. Users' \ {t} = Users \ {t} /\ \A s : Leases(s)' \ {t} = Leases(s) \ {t}
  BY Zenon, <1>1 DEF Users, Leases
<1>3. Pending' \ {t} = Pending \ {t} /\ Active' \ {t} = Active \ {t}
  BY Zenon, <1>1 DEF Pending, Active
<1> QED
  BY Zenon, <1>1, <1>2, <1>3

\* A step that leaves the record and the loops alone keeps the leases standing if its tunnel
\* holds a lease after it as before.
HandlerStep(t, x) ==
    /\ tun' = [tun EXCEPT ![t] = x] /\ x \in TunType /\ UNCHANGED <<current, worlds, lease, loops>>
    /\ bucket' \in 0 .. MaxTokens
    /\ x.step \in {"prove", "granted", "refused"} <=> tun[t].step \in {"prove", "granted", "refused"}
    /\ x.step \in Holding <=> tun[t].step \in Holding
    /\ x.state = tun[t].state
    /\ x.quota = tun[t].quota \/ (x.quota = "pending" /\ Cardinality(Pending) < MaxPending)
       \/ (x.quota = "active" /\ Cardinality(Active) < MaxActive)
    /\ x.quota # "none" => x.step \in {"dial", "hello", "relay", "release"}

\* The quota holds if the tunnel's place does not change, or there was room for it.
LEMMA QuotaKeeps ==
    ASSUME TunnelTyped, QuotaHolds, NEW t \in Tunnels, NEW x \in TunType, tun' = [tun EXCEPT ![t] = x],
           \/ x.quota = tun[t].quota \/ x.quota = "none"
           \/ (x.quota = "pending" /\ Cardinality(Pending) < MaxPending)
           \/ (x.quota = "active" /\ Cardinality(Active) < MaxActive),
           x.quota # "none" => x.step \in {"dial", "hello", "relay", "release"}
    PROVE  QuotaHolds'
<1>m. /\ tun'[t] = x /\ \A u \in Tunnels : u # t => tun'[u] = tun[u]
      /\ Pending' \ {t} = Pending \ {t} /\ Active' \ {t} = Active \ {t}
  BY Zenon, TunnelMoves
<1>n. /\ Pending \in SUBSET Tunnels /\ Active \in SUBSET Tunnels /\ Pending' \in SUBSET Tunnels /\ Active' \in SUBSET Tunnels
      /\ MaxPending \in Nat /\ MaxActive \in Nat
  BY Zenon, EgressAssumption DEF Pending, Active
<1>c. /\ Cardinality(Pending) \in Nat /\ Cardinality(Active) \in Nat
      /\ Cardinality(Pending') \in Nat /\ Cardinality(Active') \in Nat
  BY Zenon, <1>n, TunnelsCounted
<1>p. /\ t \in Pending <=> tun[t].quota = "pending"
      /\ t \in Active <=> tun[t].quota = "active"
      /\ t \in Pending' <=> x.quota = "pending"
      /\ t \in Active' <=> x.quota = "active"
  BY Zenon, <1>m DEF Pending, Active
<1>1. Cardinality(Pending') <= MaxPending
  <2>1. CASE t \in Pending <=> t \in Pending'
    BY Zenon, <2>1, <1>m, <1>n, CountMoves DEF QuotaHolds
  <2>2. CASE t \in Pending /\ t \notin Pending'
    BY <2>2, <1>m, <1>n, <1>c, CountMoves DEF QuotaHolds
  <2>3. CASE t \notin Pending /\ t \in Pending'
    <3>1. Cardinality(Pending') = Cardinality(Pending) + 1
      BY Zenon, <2>3, <1>m, <1>n, CountMoves
    <3> QED
      BY <2>3, <3>1, <1>p, <1>n, <1>c
  <2> QED
    BY Zenon, <2>1, <2>2, <2>3
<1>2. Cardinality(Active') <= MaxActive
  <2>1. CASE t \in Active <=> t \in Active'
    BY Zenon, <2>1, <1>m, <1>n, CountMoves DEF QuotaHolds
  <2>2. CASE t \in Active /\ t \notin Active'
    BY <2>2, <1>m, <1>n, <1>c, CountMoves DEF QuotaHolds
  <2>3. CASE t \notin Active /\ t \in Active'
    <3>1. Cardinality(Active') = Cardinality(Active) + 1
      BY Zenon, <2>3, <1>m, <1>n, CountMoves
    <3> QED
      BY <2>3, <3>1, <1>p, <1>n, <1>c
  <2> QED
    BY Zenon, <2>1, <2>2, <2>3
<1> QED
  BY Zenon, <1>1, <1>2, <1>m DEF QuotaHolds

\* A step of a handler that touches neither the record nor a loop.
LEMMA HandlerKeeps ==
    ASSUME TunnelInductive, NEW t \in Tunnels, NEW x, HandlerStep(t, x)
    PROVE  TunnelInductive'
<1> USE DEF TunnelInductive
<1>m. /\ tun' \in [Tunnels -> TunType] /\ tun'[t] = x /\ \A u \in Tunnels : u # t => tun'[u] = tun[u]
      /\ Users' \ {t} = Users \ {t} /\ \A s : Leases(s)' \ {t} = Leases(s) \ {t}
  BY Zenon, TunnelMoves DEF HandlerStep
<1>u. UNCHANGED <<current, worlds, lease, loops>> /\ bucket' \in 0 .. MaxTokens
  BY Zenon DEF HandlerStep
<1>1. TunnelTyped'
  BY Zenon, <1>m, <1>u DEF TunnelTyped
<1>2. LeasesStanding'
  <2>1. ASSUME NEW u \in Tunnels, tun'[u].step \in Holding
        PROVE  tun[u].step \in Holding /\ tun'[u].state = tun[u].state
    BY Zenon, <2>1, <1>m DEF HandlerStep
  <2> QED
    BY Zenon, <2>1, <1>u DEF LeasesStanding, Revoked
<1>3. LeaseCounts'
  <2>1. Users' = Users
    <3>1. t \in Users' <=> t \in Users
      BY Zenon, <1>m DEF HandlerStep, Users
    <3> QED
      BY <3>1, <1>m
  <2>2. \A s : Leases(s)' = Leases(s)
    <3>1. \A s : t \in Leases(s)' <=> t \in Leases(s)
      BY Zenon, <1>m DEF HandlerStep, Leases
    <3> QED
      BY <3>1, <1>m
  <2>3. Leases(lease.state)' = Leases(lease.state)
    BY <2>2, <1>u, <1>m DEF Leases
  <2> QED
    BY Zenon, <2>1, <2>3, <1>u DEF LeaseCounts
<1>4. QuotaHolds'
  BY Zenon, QuotaKeeps DEF HandlerStep
<1> QED
  BY Zenon, <1>1, <1>2, <1>3, <1>4

\* The tunnel at another step, with another place in the quota.
Moved(t, s, q) == [tun[t] EXCEPT !.step = s, !.quota = q]

\* What of a tunnel its handler changes.
LEMMA MovedTyped ==
    ASSUME TunnelTyped, NEW t \in Tunnels,
           NEW s \in {"idle", "connect", "prove", "granted", "refused", "leased", "dial", "hello", "relay", "release", "join"},
           NEW q \in {"none", "pending", "active"}
    PROVE  /\ Moved(t, s, q) \in TunType
           /\ Moved(t, s, q).step = s /\ Moved(t, s, q).state = tun[t].state /\ Moved(t, s, q).quota = q
<1>0. tun[t] \in TunType
  BY Zenon DEF TunnelTyped
<1>1. Moved(t, s, q) \in TunType
  BY Zenon, <1>0 DEF TunType, Moved
<1>2. Moved(t, s, q).step = s /\ Moved(t, s, q).state = tun[t].state /\ Moved(t, s, q).quota = q
  BY Zenon, <1>0 DEF TunType, Moved
<1> QED
  BY Zenon, <1>1, <1>2

\* A step that keeps the tunnel's place in the quota.
LEMMA StepMoves ==
    ASSUME TunnelTyped, NEW t \in Tunnels, NEW s, tun' = Step(t, s)
    PROVE  tun' = [tun EXCEPT ![t] = Moved(t, s, tun[t].quota)]
<1>0. tun[t] \in TunType /\ tun \in [Tunnels -> TunType]
  BY Zenon DEF TunnelTyped
<1>1. tun' = [tun EXCEPT ![t] = [tun[t] EXCEPT !.step = s]]
  BY Zenon DEF Step
<1>2. [tun[t] EXCEPT !.step = s] = Moved(t, s, tun[t].quota)
  BY Zenon, <1>0 DEF TunType, Moved
<1> QED
  BY Zenon, <1>1, <1>2

\* The steps of a connection handler that leave the record and the loops alone.
LEMMA HandlersKeep ==
    ASSUME TunnelInductive, NEW t \in Tunnels,
           Accept(t) \/ TunnelProve(t) \/ Reserve(t) \/ TunnelDial(t) \/ Activate(t) \/ RelayEnds(t) \/ CutOff(t)
    PROVE  TunnelInductive'
<1>q. /\ TunnelTyped /\ bucket \in 0 .. MaxTokens /\ tun[t] \in TunType
      /\ tun[t].quota # "none" => tun[t].step \in {"dial", "hello", "relay", "release"}
      /\ tun[t].quota \in {"none", "pending", "active"}
      /\ tun \in [Tunnels -> TunType]
  BY Zenon DEF TunnelInductive, TunnelTyped, QuotaHolds, TunType
<1>s. ASSUME NEW s \in {"connect", "granted", "refused", "hello", "release"}, tun' = Step(t, s),
             UNCHANGED <<current, worlds, lease, loops, bucket>>,
             s = "connect" => tun[t].step = "idle",
             s \in {"granted", "refused"} => tun[t].step = "prove",
             s = "hello" => tun[t].step = "dial",
             s = "release" => tun[t].step \in {"leased", "dial", "hello", "relay"}
      PROVE  TunnelInductive'
  <2> DEFINE x == Moved(t, s, tun[t].quota)
  <2>1. x \in TunType /\ x.step = s /\ x.state = tun[t].state /\ x.quota = tun[t].quota
    BY <1>q, MovedTyped
  <2>2. tun' = [tun EXCEPT ![t] = x]
    BY Zenon, <1>s, <1>q, StepMoves
  <2> HIDE DEF x
  <2>3. HandlerStep(t, x)
    BY Zenon, <2>1, <2>2, <1>s, <1>q DEF HandlerStep, Holding
  <2> QED
    BY Zenon, <2>3, HandlerKeeps
<1>1. CASE Accept(t)
  BY Zenon, <1>1, <1>s DEF Accept
<1>2. CASE TunnelProve(t)
  BY Zenon, <1>2, <1>s DEF TunnelProve
<1>3. CASE TunnelDial(t) \/ RelayEnds(t) \/ CutOff(t)
  BY Zenon, <1>3, <1>s DEF TunnelDial, RelayEnds, CutOff
<1>4. CASE Reserve(t)
  <2>1. CASE tun' = Step(t, "release") /\ UNCHANGED bucket
    BY Zenon, <1>4, <2>1, <1>s DEF Reserve
  <2>2. CASE ~(tun' = Step(t, "release") /\ UNCHANGED bucket)
    <3> DEFINE x == Moved(t, "dial", "pending")
    <3>1. x \in TunType /\ x.step = "dial" /\ x.state = tun[t].state /\ x.quota = "pending"
      BY <1>q, MovedTyped
    <3>2. /\ tun' = [tun EXCEPT ![t] = x] /\ bucket' = bucket - 1 /\ Reserves /\ tun[t].step = "leased"
          /\ UNCHANGED <<current, worlds, lease, loops>>
      BY Zenon, <1>4, <2>2, <1>q DEF Reserve, Moved
    <3>3. bucket' \in 0 .. MaxTokens
      BY <3>2, <1>q, EgressAssumption DEF Reserves
    <3> HIDE DEF x
    <3>4. HandlerStep(t, x)
      BY Zenon, <3>1, <3>2, <3>3 DEF HandlerStep, Reserves, Holding
    <3> QED
      BY Zenon, <3>4, HandlerKeeps
  <2> QED
    BY Zenon, <2>1, <2>2
<1>5. CASE Activate(t)
  <2>1. CASE tun' = Step(t, "release")
    BY Zenon, <1>5, <2>1, <1>s DEF Activate
  <2>2. CASE tun' # Step(t, "release")
    <3> DEFINE x == Moved(t, "relay", "active")
    <3>1. x \in TunType /\ x.step = "relay" /\ x.state = tun[t].state /\ x.quota = "active"
      BY <1>q, MovedTyped
    <3>2. /\ tun' = [tun EXCEPT ![t] = x] /\ Cardinality(Active) < MaxActive /\ tun[t].step = "hello"
          /\ UNCHANGED <<current, worlds, lease, loops, bucket>>
      BY Zenon, <1>5, <2>2, <1>q DEF Activate, Moved
    <3> HIDE DEF x
    <3>4. HandlerStep(t, x)
      BY Zenon, <3>1, <3>2, <1>q DEF HandlerStep, Holding
    <3> QED
      BY <3>4, HandlerKeeps
  <2> QED
    BY Zenon, <2>1, <2>2
<1> QED
  BY Zenon, <1>1, <1>2, <1>3, <1>4, <1>5

\* record: the first connection of a certificate makes its record, with a state nobody holds.
LEMMA TakeRecordKeeps == ASSUME TunnelInductive, NEW t \in Tunnels, TakeRecord(t) PROVE TunnelInductive'
<1> USE DEF TunnelInductive
<1> DEFINE x == Moved(t, "prove", tun[t].quota)
<1>q. /\ lease \in LeaseType /\ MaxStates \in Nat /\ tun[t].quota \in {"none", "pending", "active"}
      /\ tun[t].quota # "none" => tun[t].step \in {"dial", "hello", "relay", "release"}
  BY Zenon, EgressAssumption DEF TunnelTyped, QuotaHolds, TunType
<1>x. x \in TunType /\ x.step = "prove" /\ x.quota = tun[t].quota /\ tun' = [tun EXCEPT ![t] = x]
  <2>1. tun' = [tun EXCEPT ![t] = x]
    BY Zenon, StepMoves DEF TakeRecord
  <2> QED
    BY <2>1, <1>q, MovedTyped
<1> HIDE DEF x
<1>s. tun[t].step = "connect" /\ UNCHANGED <<current, worlds, loops, bucket>>
  BY Zenon DEF TakeRecord
<1>m. /\ tun' \in [Tunnels -> TunType] /\ tun'[t] = x /\ \A u \in Tunnels : u # t => tun'[u] = tun[u]
      /\ Users' \ {t} = Users \ {t} /\ \A s : Leases(s)' \ {t} = Leases(s) \ {t}
  BY Zenon, <1>x, TunnelMoves
<1>4. QuotaHolds'
  BY Zenon, <1>x, <1>q, <1>s, QuotaKeeps
<1>h. \A u \in Tunnels : tun'[u].step \in Holding => tun[u].step \in Holding /\ tun'[u] = tun[u]
  BY Zenon, <1>m, <1>x DEF Holding
<1>l. \A s : Leases(s)' = Leases(s)
  BY Zenon, <1>m, <1>x, <1>s DEF Leases, Holding
<1>u. Cardinality(Users') = Cardinality(Users) + 1 /\ Cardinality(Users) \in Nat
  <2>1. t \notin Users /\ t \in Users' /\ Users \in SUBSET Tunnels /\ Users' \in SUBSET Tunnels
    BY Zenon, <1>m, <1>x, <1>s DEF Users
  <2> QED
    BY Zenon, <2>1, <1>m, CountMoves, TunnelsCounted
<1>1. CASE lease.there
  <2> DEFINE n == lease.users + 1
  <2>1. lease' = [lease EXCEPT !.users = n] /\ n \in Nat
    BY <1>1, <1>q DEF TakeRecord, LeaseType
  <2> HIDE DEF n
  <2>2. lease' \in LeaseType
    BY Zenon, <2>1, <1>q DEF LeaseType
  <2>3. /\ lease'.users = n /\ lease'.leases = lease.leases /\ lease'.state = lease.state
        /\ lease'.made = lease.made /\ lease'.revoked = lease.revoked /\ lease'.there = lease.there
    BY Zenon, <2>1, <1>q DEF LeaseType
  <2>4. TunnelTyped'
    BY Zenon, <2>2, <1>m, <1>s DEF TunnelTyped
  <2>5. LeasesStanding'
    BY Zenon, <2>3, <1>h, <1>s DEF LeasesStanding, Revoked
  <2>6. Leases(lease.state)' = Leases(lease.state)
    BY <2>3, <1>l, <1>m DEF Leases
  <2>7. LeaseCounts'
    BY Zenon, <2>3, <2>6, <1>u, <1>1 DEF LeaseCounts, n
  <2> QED
    BY Zenon, <2>4, <2>5, <2>7, <1>4
<1>2. CASE ~lease.there
  <2> DEFINE n == lease.made + 1
  <2>1. /\ lease' = [lease EXCEPT !.there = TRUE, !.made = n, !.state = n, !.users = 1, !.leases = 0]
        /\ n \in 1 .. MaxStates /\ n \in 0 .. MaxStates
    BY <1>2, <1>q DEF TakeRecord, LeaseType
  <2>2. /\ lease.leases = 0 /\ lease.users = 0 /\ lease.made \in Nat
        /\ Leases(lease.state) = {}
    <3>1. lease.leases = 0 /\ lease.users = 0 /\ lease.made \in Nat
      BY <1>2, <1>q DEF LeaseCounts, LeaseType
    <3>2. Leases(lease.state) \in SUBSET Tunnels
      BY Zenon DEF Leases
    <3>3. Cardinality(Leases(lease.state)) = 0
      BY Zenon, <3>1 DEF LeaseCounts
    <3> QED
      BY <3>1, <3>2, <3>3, TunnelsCounted
  <2>3. \A u \in Tunnels : tun[u].step \in Holding => tun[u].state \in 1 .. lease.made /\ Revoked(u)
    BY Zenon, <2>2 DEF LeasesStanding, Leases
  <2>4. \A u \in Tunnels : tun[u].step \in Holding => tun[u].state # n /\ tun[u].state \in 1 .. n
    BY <2>2, <2>3
  <2> HIDE DEF n
  <2>5. lease' \in LeaseType /\ lease'.there
    BY Zenon, <2>1, <1>q DEF LeaseType
  <2>6. lease'.users = 1 /\ lease'.leases = 0 /\ lease'.state = n /\ lease'.made = n /\ lease'.revoked = lease.revoked
    BY Zenon, <2>1, <1>q DEF LeaseType
  <2>7. TunnelTyped'
    BY Zenon, <2>5, <1>m, <1>s DEF TunnelTyped
  <2>8. LeasesStanding'
    BY <2>1, <2>3, <2>4, <2>6, <1>h DEF LeasesStanding, Revoked, States
  <2>9. Leases(lease.state)' = {}
    BY Zenon, <2>4, <2>6, <1>h DEF Leases
  <2>10. LeaseCounts'
    <3>0. Cardinality({}) = 0 /\ Cardinality(Users) = 0
      BY Zenon, <2>2, FS_EmptySet DEF LeaseCounts
    <3>1. Cardinality(Leases(lease.state)') = 0 /\ Cardinality(Users') = 1
      BY <3>0, <2>9, <1>u
    <3> QED
      BY Zenon, <2>5, <2>6, <3>1 DEF LeaseCounts
  <2> QED
    BY <2>7, <2>8, <2>10, <1>4
<1> QED
  BY Zenon, <1>1, <1>2

\* A connection that waits for its proof ends without a lease.
LEMMA UserLeaves ==
    ASSUME TunnelInductive, NEW t \in Tunnels, tun[t].step \in {"granted", "refused"},
           tun' = [tun EXCEPT ![t] = NoTunnel], UNCHANGED <<current, worlds, bucket>>,
           loops' \in [States -> {"none", "prove", "failed", "cancelled"}],
           NEW R \in SUBSET {lease.state},
           lease' = Released([lease EXCEPT !.revoked = lease.revoked \cup R, !.users = lease.users - 1]),
           R = {} => UNCHANGED loops
    PROVE  TunnelInductive'
<1> USE DEF TunnelInductive
<1>q. lease \in LeaseType
  BY Zenon DEF TunnelTyped
<1>x. NoTunnel \in TunType /\ NoTunnel.step = "idle" /\ NoTunnel.quota = "none"
  BY EgressAssumption DEF NoTunnel, TunType
<1>m. /\ tun' \in [Tunnels -> TunType] /\ tun'[t] = NoTunnel /\ \A u \in Tunnels : u # t => tun'[u] = tun[u]
      /\ Users' \ {t} = Users \ {t} /\ \A s : Leases(s)' \ {t} = Leases(s) \ {t}
  BY Zenon, <1>x, TunnelMoves
<1>4. QuotaHolds'
  BY Zenon, <1>x, QuotaKeeps
<1>h. \A u \in Tunnels : tun'[u].step \in Holding => tun[u].step \in Holding /\ tun'[u] = tun[u]
  BY Zenon, <1>m, <1>x DEF Holding
<1>l. \A s : Leases(s)' = Leases(s)
  BY Zenon, <1>m, <1>x DEF Leases, Holding
<1>u. Cardinality(Users') = Cardinality(Users) - 1 /\ Cardinality(Users) \in Nat /\ Cardinality(Users) > 0
  <2>1. t \in Users /\ t \notin Users' /\ Users \in SUBSET Tunnels /\ Users' \in SUBSET Tunnels
    BY Zenon, <1>m, <1>x DEF Users
  <2> QED
    BY Zenon, <2>1, <1>m, CountMoves, TunnelsCounted
<1>t. lease.there /\ lease.state \in States /\ lease.users > 0 /\ lease.leases \in Nat /\ lease.users \in Nat
  BY <1>u, <1>q DEF LeaseCounts, LeasesStanding, LeaseType
<1> DEFINE r == lease.revoked \cup R
           n == lease.users - 1
           l == [lease EXCEPT !.revoked = r, !.users = n]
<1>1. l \in LeaseType /\ l.revoked = r /\ l.users = n /\ l.leases = lease.leases /\ l.state = lease.state
      /\ l.made = lease.made /\ l.there = lease.there
  <2>1. r \in SUBSET States /\ n \in Nat
    BY <1>t, <1>q DEF LeaseType
  <2> HIDE DEF r, n
  <2>2. l \in LeaseType
    BY Zenon, <2>1, <1>q DEF LeaseType
  <2> QED
    BY Zenon, <2>2, <1>q DEF LeaseType
<1> HIDE DEF l
<1>2. /\ lease' \in LeaseType /\ lease'.revoked = r /\ lease'.users = n /\ lease'.leases = lease.leases
      /\ lease'.state = lease.state /\ lease'.made = lease.made
      /\ lease'.users + lease'.leases > 0 => lease'.there
  <2>1. lease' = Released(l)
    BY Zenon DEF l
  <2>2. CASE l.users = 0 /\ l.leases = 0
    <3>1. lease' = [l EXCEPT !.there = FALSE]
      BY Zenon, <2>1, <2>2 DEF Released
    <3>2. lease' \in LeaseType
      BY Zenon, <3>1, <1>1 DEF LeaseType
    <3>3. /\ lease'.revoked = l.revoked /\ lease'.users = l.users /\ lease'.leases = l.leases /\ lease'.state = l.state
          /\ lease'.made = l.made
      BY Zenon, <3>1, <1>1 DEF LeaseType
    <3> QED
      BY <2>2, <3>2, <3>3, <1>1
  <2>3. CASE ~(l.users = 0 /\ l.leases = 0)
    BY Zenon, <2>1, <2>3, <1>1, <1>t DEF Released
  <2> QED
    BY Zenon, <2>2, <2>3
<1>3. TunnelTyped'
  BY Zenon, <1>2, <1>m DEF TunnelTyped
<1>5. LeasesStanding'
  BY <1>2, <1>h, <1>t DEF LeasesStanding, Revoked
<1>6. Leases(lease.state)' = Leases(lease.state)
  BY <1>2, <1>l, <1>m DEF Leases
<1>7. LeaseCounts'
  BY Zenon, <1>2, <1>6, <1>u DEF LeaseCounts
<1> QED
  BY Zenon, <1>3, <1>4, <1>5, <1>7

\* Authorize fails: the certificate's leases are revoked and their loop is stopped.
LEMMA AuthorizeFailsKeeps == ASSUME TunnelInductive, NEW t \in Tunnels, AuthorizeFails(t) PROVE TunnelInductive'
<1>1. loops \in [States -> {"none", "prove", "failed", "cancelled"}]
  BY Zenon DEF TunnelInductive, TunnelTyped
<1>2. loops' \in [States -> {"none", "prove", "failed", "cancelled"}]
  BY Zenon, <1>1 DEF AuthorizeFails, Cancelled
<1>3. lease' = Released([lease EXCEPT !.revoked = lease.revoked \cup {lease.state}, !.users = lease.users - 1])
  BY Zenon DEF AuthorizeFails
<1> QED
  BY Zenon, <1>2, <1>3, UserLeaves DEF AuthorizeFails

\* Authorize succeeds: a lease of the current state, or of a new one once a revoked state
\* has no leases left.
LEMMA AuthorizeSucceedsKeeps == ASSUME TunnelInductive, NEW t \in Tunnels, AuthorizeSucceeds(t) PROVE TunnelInductive'
<1>q. lease \in LeaseType /\ loops \in [States -> {"none", "prove", "failed", "cancelled"}] /\ MaxStates \in Nat
  BY Zenon, EgressAssumption DEF TunnelInductive, TunnelTyped
<1>1. CASE Draining
  <2>1. lease' = Released([lease EXCEPT !.users = lease.users - 1]) /\ UNCHANGED <<loops, current, worlds, bucket>>
        /\ tun' = [tun EXCEPT ![t] = NoTunnel] /\ tun[t].step = "granted"
    BY Zenon, <1>1 DEF AuthorizeSucceeds
  <2>2. [lease EXCEPT !.users = lease.users - 1] = [lease EXCEPT !.revoked = lease.revoked \cup {}, !.users = lease.users - 1]
    BY Zenon, <1>q DEF LeaseType
  <2>3. {} \in SUBSET {lease.state}
    OBVIOUS
  <2> QED
    BY Zenon, <2>1, <2>2, <2>3, <1>q, UserLeaves
<1>2. CASE ~Draining
  <2> USE DEF TunnelInductive
  <2> DEFINE fresh == lease.state \in lease.revoked
             s == IF fresh THEN lease.made + 1 ELSE lease.state
             x == [step |-> "leased", state |-> s, quota |-> "none"]
             m == IF fresh THEN s ELSE lease.made
             n == lease.users - 1
             k == lease.leases + 1
  <2>0. /\ tun[t].step = "granted" /\ s <= MaxStates /\ UNCHANGED <<current, worlds, bucket>>
        /\ lease' = [lease EXCEPT !.state = s, !.made = m, !.users = n, !.leases = k]
        /\ loops' = IF lease.leases = 0 THEN [loops EXCEPT ![s] = "prove"] ELSE loops
        /\ tun' = [tun EXCEPT ![t] = x]
    BY Zenon, <1>2 DEF AuthorizeSucceeds
  <2>u. Users \in SUBSET Tunnels /\ t \in Users /\ Cardinality(Users) \in Nat /\ Cardinality(Users) > 0
    <3>1. Users \in SUBSET Tunnels /\ t \in Users
      BY Zenon, <2>0 DEF Users
    <3> QED
      BY Zenon, <3>1, TunnelsCounted
  <2>t. /\ lease.there /\ lease.state \in States /\ lease.users > 0 /\ lease.leases \in Nat /\ lease.users \in Nat
        /\ lease.made \in Nat /\ lease.state <= lease.made /\ lease.made <= MaxStates
    BY <2>u, <1>q DEF LeaseCounts, LeasesStanding, LeaseType
  <2>s. s \in States /\ s \in 0 .. MaxStates /\ m \in 0 .. MaxStates /\ n \in Nat /\ k \in Nat /\ s <= m
    BY <2>0, <2>t, <1>q DEF States, LeaseType
  <2>x. x \in TunType /\ x.step = "leased" /\ x.quota = "none" /\ x.state = s
    BY Zenon, <2>s DEF TunType
  <2>f. (fresh => lease.leases = 0 /\ s = lease.made + 1 /\ m = s) /\ (~fresh => s = lease.state /\ m = lease.made)
    BY Zenon, <1>2 DEF Draining
  <2> HIDE DEF s, x, m, n, k
  <2>m. /\ tun' \in [Tunnels -> TunType] /\ tun'[t] = x /\ \A u \in Tunnels : u # t => tun'[u] = tun[u]
        /\ Users' \ {t} = Users \ {t} /\ \A z : Leases(z)' \ {t} = Leases(z) \ {t}
    BY Zenon, <2>0, <2>x, TunnelMoves
  <2>4. QuotaHolds'
    BY Zenon, <2>0, <2>x, QuotaKeeps
  <2>5. /\ lease' \in LeaseType /\ lease'.state = s /\ lease'.made = m /\ lease'.users = n /\ lease'.leases = k
        /\ lease'.revoked = lease.revoked /\ lease'.there = lease.there
    <3>1. lease' \in LeaseType
      BY Zenon, <2>0, <2>s, <1>q DEF LeaseType
    <3> QED
      BY Zenon, <3>1, <2>0, <1>q DEF LeaseType
  <2>6. TunnelTyped'
    BY Zenon, <2>0, <2>5, <2>m, <2>s DEF TunnelTyped
  <2>7. ASSUME NEW u \in Tunnels, u # t, tun'[u].step \in Holding
        PROVE  /\ tun[u] = tun'[u] /\ tun[u].state \in 1 .. m
               /\ tun[u].state # s => Revoked(u)
               /\ fresh => tun[u].state # s
    <3>1. tun[u] = tun'[u] /\ tun[u].state \in 1 .. lease.made /\ (tun[u].state # lease.state => Revoked(u))
      BY Zenon, <2>7, <2>m DEF LeasesStanding
    <3>2. fresh /\ tun[u].state = lease.state => Revoked(u)
      BY Zenon DEF Revoked
    <3> QED
      BY <3>1, <3>2, <2>f, <2>t
  <2>8. LeasesStanding'
    <3>1. ASSUME NEW u \in Tunnels, tun'[u].step \in Holding
          PROVE  tun'[u].state \in 1 .. lease'.made /\ (tun'[u].state # lease'.state => Revoked(u)')
      <4>1. CASE u = t
        BY <4>1, <2>m, <2>x, <2>5, <2>s DEF States
      <4>2. CASE u # t
        BY Zenon, <4>2, <3>1, <2>7, <2>5 DEF Revoked
      <4> QED
        BY Zenon, <4>1, <4>2
    <3>2. s \notin lease.revoked => loops'[s] \in {"prove", "failed"}
      <4>1. CASE lease.leases = 0
        BY Zenon, <4>1, <2>0, <2>s, <1>q
      <4>2. CASE lease.leases # 0
        BY <4>2, <2>0, <2>f, <2>t DEF LeasesStanding
      <4> QED
        BY Zenon, <4>1, <4>2
    <3> QED
      BY Zenon, <3>1, <3>2, <2>5, <2>s DEF LeasesStanding
  <2>9. Cardinality(Users') = Cardinality(Users) - 1
    <3>1. t \notin Users' /\ Users' \in SUBSET Tunnels
      BY Zenon, <2>m, <2>x DEF Users
    <3> QED
      BY Zenon, <3>1, <2>u, <2>m, CountMoves
  <2>z. PICK z : z = s
    OBVIOUS
  <2>10. Cardinality(Leases(z)') = lease.leases + 1
    <3>0. Leases(z) \in SUBSET Tunnels /\ Leases(z)' \in SUBSET Tunnels /\ t \notin Leases(z) /\ t \in Leases(z)'
      BY Zenon, <2>z, <2>0, <2>m, <2>x DEF Leases, Holding
    <3>1. Cardinality(Leases(z)') = Cardinality(Leases(z)) + 1
      BY <3>0, <2>m, CountMoves
    <3>2. Cardinality(Leases(z)) = lease.leases
      <4>1. CASE fresh
        <5>1. Leases(z) = {}
          BY Zenon, <2>z, <4>1, <2>7, <2>m, <3>0 DEF Leases
        <5> QED
          BY Zenon, <5>1, <4>1, <2>f, FS_EmptySet
      <4>2. CASE ~fresh
        BY Zenon, <2>z, <4>2, <2>f DEF LeaseCounts
      <4> QED
        BY Zenon, <4>1, <4>2
    <3> QED
      BY Zenon, <3>1, <3>2
  <2>11. LeaseCounts'
    <3>1. Leases(lease.state)' = Leases(z)'
      BY Zenon, <2>z, <2>5 DEF Leases
    <3>2. Cardinality(Leases(lease.state)') = lease.leases + 1
      BY Zenon, <3>1, <2>10
    <3> QED
      BY Zenon, <3>2, <2>9, <2>5, <2>t DEF LeaseCounts, n, k
  <2> QED
    BY Zenon, <2>4, <2>6, <2>8, <2>11
<1> QED
  BY Zenon, <1>1, <1>2

\* The deferred releases: the reservation, then the lease; the last lease revokes its state.
LEMMA ReleaseTunnelKeeps == ASSUME TunnelInductive, NEW t \in Tunnels, ReleaseTunnel(t) PROVE TunnelInductive'
<1> USE DEF TunnelInductive
<1>q. /\ lease \in LeaseType /\ loops \in [States -> {"none", "prove", "failed", "cancelled"}]
      /\ tun[t].step = "release" /\ UNCHANGED <<current, worlds, bucket>>
  BY Zenon DEF TunnelTyped, ReleaseTunnel
<1>s. PICK s : s = tun[t].state
  OBVIOUS
<1>e. /\ s \in 1 .. lease.made /\ s \in States /\ (lease.state # s => s \in lease.revoked)
  BY <1>q, <1>s, EgressAssumption DEF LeasesStanding, Holding, Revoked, LeaseType, States
<1> DEFINE last == lease.state = s /\ lease.leases = 1
           x == IF last THEN Moved(t, "join", "none") ELSE NoTunnel
           n == lease.leases - 1
           r == IF last THEN lease.revoked \cup {s} ELSE lease.revoked
<1>l. lease.state = s => t \in Leases(lease.state) /\ lease.leases > 0 /\ lease.leases \in Nat
  <2>1. lease.state = s => t \in Leases(lease.state)
    BY Zenon, <1>q, <1>s DEF Leases, Holding
  <2>2. Leases(lease.state) \in SUBSET Tunnels
    BY DEF Leases
  <2>3. t \in Leases(lease.state) => Cardinality(Leases(lease.state)) > 0 /\ Cardinality(Leases(lease.state)) \in Nat
    BY Zenon, <2>2, TunnelsCounted
  <2> QED
    BY Zenon, <2>1, <2>3 DEF LeaseCounts
<1>0. /\ lease' = IF lease.state = s THEN [lease EXCEPT !.leases = n, !.revoked = r] ELSE lease
      /\ loops' = IF last THEN Cancelled(loops, s) ELSE loops
      /\ tun' = [tun EXCEPT ![t] = x]
  <2>1. lease' = IF lease.state = s THEN [lease EXCEPT !.leases = n, !.revoked = r] ELSE lease
    BY <1>s, <1>l DEF ReleaseTunnel
  <2>2. loops' = IF last THEN Cancelled(loops, s) ELSE loops
    BY <1>s, <1>l DEF ReleaseTunnel
  <2>3. tun' = IF last THEN [tun EXCEPT ![t].step = "join", ![t].quota = "none"] ELSE [tun EXCEPT ![t] = NoTunnel]
    BY <1>s, <1>l DEF ReleaseTunnel
  <2>4. [tun EXCEPT ![t].step = "join", ![t].quota = "none"] = [tun EXCEPT ![t] = Moved(t, "join", "none")]
    BY Zenon DEF Moved, TunnelTyped
  <2> QED
    BY Zenon, <2>1, <2>2, <2>3, <2>4
<1>x. x \in TunType /\ x.step \in {"idle", "join"} /\ x.quota = "none"
  <2>1. Moved(t, "join", "none") \in TunType /\ Moved(t, "join", "none").step = "join" /\ Moved(t, "join", "none").quota = "none"
    BY MovedTyped
  <2>2. NoTunnel \in TunType /\ NoTunnel.step = "idle" /\ NoTunnel.quota = "none"
    BY EgressAssumption DEF NoTunnel, TunType
  <2> QED
    BY Zenon, <2>1, <2>2
<1> HIDE DEF x
<1>m. /\ tun' \in [Tunnels -> TunType] /\ tun'[t] = x /\ \A u \in Tunnels : u # t => tun'[u] = tun[u]
      /\ Users' \ {t} = Users \ {t} /\ \A z : Leases(z)' \ {t} = Leases(z) \ {t}
  BY Zenon, <1>0, <1>x, TunnelMoves
<1>4. QuotaHolds'
  BY Zenon, <1>0, <1>x, QuotaKeeps
<1>h. \A u \in Tunnels : tun'[u].step \in Holding => tun[u].step \in Holding /\ tun'[u] = tun[u]
  BY Zenon, <1>m, <1>x DEF Holding
<1>u. Users' = Users
  BY Zenon, <1>m, <1>x, <1>q DEF Users
<1>5. /\ lease' \in LeaseType /\ lease'.state = lease.state /\ lease'.made = lease.made /\ lease'.users = lease.users
      /\ lease'.there = lease.there
      /\ lease.state = s => lease'.leases = n /\ lease'.revoked = r
      /\ lease.state # s => lease' = lease
  <2>1. CASE lease.state = s
    <3>1. n \in Nat /\ r \in SUBSET States
      BY <2>1, <1>l, <1>e, <1>q DEF LeaseType
    <3> HIDE DEF n, r
    <3>2. lease' \in LeaseType
      BY Zenon, <3>1, <2>1, <1>0, <1>q DEF LeaseType
    <3> QED
      BY Zenon, <3>2, <2>1, <1>0, <1>q DEF LeaseType
  <2>2. CASE lease.state # s
    BY Zenon, <2>2, <1>0, <1>q
  <2> QED
    BY Zenon, <2>1, <2>2
<1>6. loops' \in [States -> {"none", "prove", "failed", "cancelled"}]
  BY Zenon, <1>0, <1>q DEF Cancelled
<1>7. TunnelTyped'
  BY Zenon, <1>5, <1>6, <1>m, <1>q DEF TunnelTyped
<1>8. LeasesStanding'
  <2>1. ASSUME NEW u \in Tunnels, tun'[u].step \in Holding
        PROVE  tun'[u].state \in 1 .. lease'.made /\ (tun'[u].state # lease'.state => Revoked(u)')
    BY Zenon, <2>1, <1>h, <1>5 DEF LeasesStanding, Revoked
  <2>2. lease'.leases > 0 /\ lease'.state \notin lease'.revoked => loops'[lease'.state] \in {"prove", "failed"}
    <3>1. CASE last
      BY Zenon, <3>1, <1>5
    <3>2. CASE ~last /\ lease.state = s
      BY Zenon, <3>2, <1>5, <1>0, <1>l DEF LeasesStanding
    <3>3. CASE lease.state # s
      BY Zenon, <3>3, <1>5, <1>0 DEF LeasesStanding
    <3> QED
      BY Zenon, <3>1, <3>2, <3>3
  <2> QED
    BY Zenon, <2>1, <2>2, <1>5 DEF LeasesStanding
<1>9. LeaseCounts'
  <2>0. /\ Leases(lease.state) \in SUBSET Tunnels /\ Leases(lease.state)' \in SUBSET Tunnels
        /\ Leases(lease.state)' \ {t} = Leases(lease.state) \ {t} /\ t \notin Leases(lease.state)'
    BY Zenon, <1>5, <1>m, <1>x DEF Leases, Holding
  <2>1. CASE lease.state = s
    <3>1. Cardinality(Leases(lease.state)') = Cardinality(Leases(lease.state)) - 1
      BY <2>0, <2>1, <1>l, CountMoves
    <3> QED
      BY <2>1, <3>1, <1>5, <1>l, <1>u, <1>q DEF LeaseCounts, LeaseType
  <2>2. CASE lease.state # s
    <3>1. t \notin Leases(lease.state)
      BY Zenon, <2>2, <1>s DEF Leases
    <3>2. Leases(lease.state)' = Leases(lease.state)
      BY <3>1, <2>0
    <3> QED
      BY Zenon, <2>2, <3>2, <1>5, <1>u DEF LeaseCounts
  <2> QED
    BY Zenon, <2>1, <2>2
<1> QED
  BY <1>4, <1>7, <1>8, <1>9

\* The last lease has waited for its loop; a record nobody uses goes.
LEMMA JoinLoopKeeps == ASSUME TunnelInductive, NEW t \in Tunnels, JoinLoop(t) PROVE TunnelInductive'
<1> USE DEF TunnelInductive
<1>q. lease \in LeaseType /\ tun[t].step = "join" /\ UNCHANGED <<current, worlds, loops, bucket>>
      /\ tun' = [tun EXCEPT ![t] = NoTunnel]
  BY Zenon DEF TunnelTyped, JoinLoop
<1>x. NoTunnel \in TunType /\ NoTunnel.step = "idle" /\ NoTunnel.quota = "none"
  BY EgressAssumption DEF NoTunnel, TunType
<1>m. /\ tun' \in [Tunnels -> TunType] /\ tun'[t] = NoTunnel /\ \A u \in Tunnels : u # t => tun'[u] = tun[u]
      /\ Users' \ {t} = Users \ {t} /\ \A s : Leases(s)' \ {t} = Leases(s) \ {t}
  BY Zenon, <1>q, <1>x, TunnelMoves
<1>4. QuotaHolds'
  BY Zenon, <1>q, <1>x, QuotaKeeps
<1>h. \A u \in Tunnels : tun'[u].step \in Holding => tun[u].step \in Holding /\ tun'[u] = tun[u]
  BY Zenon, <1>m, <1>x DEF Holding
<1>u. Users' = Users
  BY Zenon, <1>m, <1>x, <1>q DEF Users
<1>1. /\ lease' \in LeaseType /\ lease'.state = lease.state /\ lease'.made = lease.made /\ lease'.users = lease.users
      /\ lease'.leases = lease.leases /\ lease'.revoked = lease.revoked
      /\ lease'.there = lease.there \/ (~lease'.there /\ lease.users = 0 /\ lease.leases = 0)
  <2>1. CASE lease' = lease
    BY Zenon, <2>1, <1>q
  <2>2. CASE lease' # lease
    <3>1. lease' = [lease EXCEPT !.there = FALSE] /\ lease.users = 0 /\ lease.leases = 0
      BY Zenon, <2>2 DEF JoinLoop, Released
    <3>2. lease' \in LeaseType
      BY Zenon, <3>1, <1>q DEF LeaseType
    <3> QED
      BY Zenon, <3>1, <3>2, <1>q DEF LeaseType
  <2> QED
    BY Zenon, <2>1, <2>2
<1>2. TunnelTyped'
  BY Zenon, <1>1, <1>m, <1>q DEF TunnelTyped
<1>3. LeasesStanding'
  BY Zenon, <1>1, <1>h, <1>q DEF LeasesStanding, Revoked
<1>5. LeaseCounts'
  <2>1. Leases(lease.state)' = Leases(lease.state)
    BY Zenon, <1>1, <1>m, <1>x, <1>q DEF Leases, Holding
  <2> QED
    BY <2>1, <1>1, <1>u DEF LeaseCounts
<1> QED
  BY Zenon, <1>2, <1>3, <1>4, <1>5

\* A loop proves, stops, or revokes the state that is still its own.
LEMMA LoopsKeep ==
    ASSUME TunnelInductive, NEW s \in States, LoopProves(s) \/ LoopRevokes(s) \/ LoopStops(s)
    PROVE  TunnelInductive'
<1> USE DEF TunnelInductive
<1>q. lease \in LeaseType /\ loops \in [States -> {"none", "prove", "failed", "cancelled"}]
  BY Zenon DEF TunnelTyped
<1>0. UNCHANGED <<current, worlds, tun, bucket>>
  BY Zenon DEF LoopProves, LoopRevokes, LoopStops
<1>1. /\ loops' \in [States -> {"none", "prove", "failed", "cancelled"}]
      /\ \A z \in States : z # s => loops'[z] = loops[z]
      /\ loops'[s] \in {"prove", "failed"} \/ loops[s] \notin {"prove", "failed"}
         \/ (lease.state = s => s \in lease'.revoked)
  BY <1>q DEF LoopProves, LoopRevokes, LoopStops, LeaseType
<1>2. /\ lease' \in LeaseType /\ lease'.state = lease.state /\ lease'.made = lease.made /\ lease'.users = lease.users
      /\ lease'.leases = lease.leases /\ lease.revoked \subseteq lease'.revoked /\ lease'.there = lease.there
  <2>1. CASE lease' = lease
    BY Zenon, <2>1, <1>q
  <2>2. CASE lease' # lease
    <3> DEFINE r == lease.revoked \cup {s}
    <3>1. lease' = [lease EXCEPT !.revoked = r] /\ r \in SUBSET States
      BY Zenon, <2>2, <1>q DEF LoopProves, LoopRevokes, LoopStops, LeaseType
    <3>2. lease.revoked \subseteq r
      OBVIOUS
    <3> HIDE DEF r
    <3>3. lease' \in LeaseType
      BY Zenon, <3>1, <1>q DEF LeaseType
    <3> QED
      BY Zenon, <3>1, <3>2, <3>3, <1>q DEF LeaseType
  <2> QED
    BY Zenon, <2>1, <2>2
<1>3. TunnelTyped'
  BY Zenon, <1>0, <1>1, <1>2 DEF TunnelTyped
<1>4. LeasesStanding'
  <2>1. ASSUME NEW u \in Tunnels, tun'[u].step \in Holding
        PROVE  tun'[u].state \in 1 .. lease'.made /\ (tun'[u].state # lease'.state => Revoked(u)')
    BY Zenon, <2>1, <1>0, <1>2 DEF LeasesStanding, Revoked
  <2>2. lease'.leases > 0 => lease.state \in States
    BY <1>2, <1>q DEF LeaseCounts, LeasesStanding, LeaseType
  <2>3. lease'.leases > 0 /\ lease'.state \notin lease'.revoked => loops'[lease'.state] \in {"prove", "failed"}
    BY Zenon, <2>2, <1>1, <1>2 DEF LeasesStanding
  <2> QED
    BY Zenon, <2>1, <2>3, <1>2 DEF LeasesStanding
<1>5. LeaseCounts'
  <2>1. Leases(lease.state)' = Leases(lease.state) /\ Users' = Users
    BY Zenon, <1>0, <1>2 DEF Leases, Users
  <2> QED
    BY Zenon, <2>1, <1>2 DEF LeaseCounts
<1>6. QuotaHolds'
  BY Zenon, <1>0 DEF QuotaHolds, Pending, Active
<1> QED
  BY Zenon, <1>3, <1>4, <1>5, <1>6

\* The cluster, the bucket, and what leaves them all alone.
LEMMA OutsideKeeps ==
    ASSUME TunnelInductive, WorldChanges \/ Refill \/ UNCHANGED tunnelVars
    PROVE  TunnelInductive'
<1> USE DEF TunnelInductive
<1>1. UNCHANGED <<lease, loops, tun>>
  BY Zenon DEF WorldChanges, Refill, tunnelVars
<1>2. current' \in BOOLEAN /\ worlds' \in 0 .. MaxWorlds /\ bucket' \in 0 .. MaxTokens
  <2>0. current \in BOOLEAN /\ worlds \in 0 .. MaxWorlds /\ bucket \in 0 .. MaxTokens /\ MaxWorlds \in Nat /\ MaxTokens \in Nat
    BY Zenon, EgressAssumption DEF TunnelTyped
  <2>1. current' \in BOOLEAN
    <3>1. current' = current \/ current' = ~current
      BY Zenon DEF WorldChanges, Refill, tunnelVars
    <3> QED
      BY Zenon, <3>1, <2>0
  <2>2. worlds' = worlds \/ (worlds < MaxWorlds /\ worlds' = worlds + 1)
    BY Zenon DEF WorldChanges, Refill, tunnelVars
  <2>3. bucket' = bucket \/ (bucket < MaxTokens /\ bucket' = bucket + 1)
    BY Zenon DEF WorldChanges, Refill, tunnelVars
  <2> QED
    BY <2>0, <2>1, <2>2, <2>3
<1>3. TunnelTyped' /\ LeasesStanding'
  BY Zenon, <1>1, <1>2 DEF TunnelTyped, LeasesStanding, Revoked
<1>4. LeaseCounts' /\ QuotaHolds'
  BY Zenon, <1>1 DEF LeaseCounts, QuotaHolds, Users, Leases, Pending, Active
<1> QED
  BY Zenon, <1>3, <1>4

\* Nothing is leased and no evaluation runs.
LEMMA EgressStarts == EgressInit => EgressInductive
<1> SUFFICES ASSUME EgressInit PROVE EgressInductive
  OBVIOUS
<1>1. ProofInductive
  BY DEF EgressInit, ProofInit, ProofInductive, ProofTyped, ProofStanding, NoEgressProof, ReadOnce
<1>2. TunnelTyped
  BY EgressAssumption DEF EgressInit, TunnelInit, TunnelTyped, LeaseType, TunType, NoLease, NoTunnel, States
<1>3. /\ \A t \in Tunnels : tun[t].step = "idle" /\ tun[t].quota = "none"
      /\ lease.users = 0 /\ lease.leases = 0 /\ lease.state = 0 /\ lease.made = 0 /\ ~lease.there
  BY Zenon DEF EgressInit, TunnelInit, NoTunnel, NoLease
<1>4. LeasesStanding
  BY <1>3 DEF LeasesStanding, Holding
<1>5. Users = {} /\ Leases(lease.state) = {} /\ Pending = {} /\ Active = {} /\ Cardinality({}) = 0
  BY Zenon, <1>3, FS_EmptySet DEF Users, Leases, Pending, Active, Holding
<1>6. LeaseCounts
  BY <1>3, <1>5 DEF LeaseCounts
<1>7. QuotaHolds
  BY <1>3, <1>5, EgressAssumption DEF QuotaHolds
<1> QED
  BY Zenon, <1>1, <1>2, <1>4, <1>6, <1>7 DEF EgressInductive, TunnelInductive

\* Every step of an evaluation, a handler, a proof loop and the cluster keeps the invariant of
\* the egress proxy.
THEOREM EgressIsInductive == EgressSpec => []EgressInductive
<1>1. ASSUME EgressInductive, [EgressNext]_egressVars PROVE EgressInductive'
  <2> USE <1>1 DEF EgressInductive
  <2>1. CASE ProofNext /\ UNCHANGED tunnelVars
    <3>1. ASSUME BeginProof \/ EndProof PROVE ProofInductive'
      <4>1. /\ sources' = sources /\ proof'.pass \in {0, 1} /\ proof'.at = 1
            /\ proof'.pass # 0 => (proof'.held <=> AllGood(sources))
            /\ proof' \in [pass : 0 .. 3, at : 1 .. 5, seen : [Sources -> Nat], held : BOOLEAN]
        <5>1. NoEgressProof \in [pass : 0 .. 3, at : 1 .. 5, seen : [Sources -> Nat], held : BOOLEAN]
          BY DEF NoEgressProof
        <5>2. CASE EndProof
          BY Zenon, <5>1, <5>2 DEF EndProof, NoEgressProof
        <5>3. CASE BeginProof
          <6> DEFINE h == AllGood(sources)
          <6>1. h \in BOOLEAN /\ sources' = sources /\ proof' = [NoEgressProof EXCEPT !.pass = 1, !.held = h]
            BY Zenon, <5>3 DEF BeginProof, AllGood
          <6>2. 1 \in 0 .. 3
            OBVIOUS
          <6> HIDE DEF h
          <6>3. /\ proof' \in [pass : 0 .. 3, at : 1 .. 5, seen : [Sources -> Nat], held : BOOLEAN]
                /\ proof'.held = h
            BY Zenon, <6>1, <6>2, <5>1
          <6>4. proof'.pass = 1 /\ proof'.at = 1
            BY Zenon, <6>1 DEF NoEgressProof
          <6> QED
            BY Zenon, <6>1, <6>3, <6>4 DEF h
        <5> QED
          BY Zenon, <3>1, <5>2, <5>3
      <4>2. \A x \in Sources : ~ReadOnce(x)'
        BY <4>1 DEF ReadOnce
      <4>3. AllGood(sources)' <=> AllGood(sources)
        BY Zenon, <4>1 DEF AllGood
      <4> QED
        BY <4>1, <4>2, <4>3 DEF ProofInductive, ProofTyped, ProofStanding
    <3>2. ProofInductive'
      BY Zenon, <2>1, <3>1, SourceChangesKeeps, ReadFirstKeeps, ReadAgainKeeps DEF ProofNext
    <3> QED
      BY Zenon, <2>1, <3>2, OutsideKeeps
  <2>3. CASE TunnelNext /\ UNCHANGED proofVars
    <3>1. TunnelInductive'
      BY Zenon, <2>3, HandlersKeep, TakeRecordKeeps, AuthorizeFailsKeeps, AuthorizeSucceedsKeeps, ReleaseTunnelKeeps,
         JoinLoopKeeps, LoopsKeep, OutsideKeeps DEF TunnelNext
    <3>2. ProofInductive'
      BY Zenon, <2>3 DEF proofVars, ProofInductive, ProofTyped, ProofStanding, ReadOnce, AllGood
    <3> QED
      BY Zenon, <3>1, <3>2
  <2>4. CASE UNCHANGED egressVars
    <3>1. ProofInductive'
      BY Zenon, <2>4 DEF egressVars, proofVars, ProofInductive, ProofTyped, ProofStanding, ReadOnce, AllGood
    <3> QED
      BY Zenon, <2>4, <3>1, OutsideKeeps DEF egressVars
  <2> QED
    BY Zenon, <2>1, <2>3, <2>4 DEF EgressNext
<1> QED
  BY <1>1, EgressStarts, PTL DEF EgressSpec

\* The egress proxy, for any number of tunnels, lease states and changes, and any quota: an
\* evaluation that succeeds held at one instant, a tunnel that is not revoked is supervised,
\* the record counts its users and leases, and the quota holds (currentness.go, quota.go).
THEOREM EgressIsSafe == EgressSpec => []EgressSafe
<1>1. EgressInductive => EgressSafe
  <2> SUFFICES ASSUME EgressInductive PROVE EgressSafe
    OBVIOUS
  <2> USE DEF EgressInductive, TunnelInductive, ProofInductive
  <2>1. EgressTypeOK
    BY Zenon DEF ProofTyped, TunnelTyped, EgressTypeOK, LeaseType
  <2>2. ProofIsAnInstant
    BY Zenon DEF ProofStanding, ProofIsAnInstant
  <2>3. LeasesExact
    BY Zenon DEF LeaseCounts, LeasesExact, Users, Leases, Holding
  <2>4. TunnelIsSupervised
    <3> SUFFICES ASSUME NEW t \in Tunnels, tun[t].step \in {"leased", "dial", "hello", "relay"}, ~Revoked(t)
                 PROVE  loops[tun[t].state] \in {"prove", "failed"}
      BY Zenon DEF TunnelIsSupervised
    <3>1. tun[t].state = lease.state
      BY Zenon DEF LeasesStanding, Holding
    <3>2. t \in Leases(lease.state) /\ Leases(lease.state) \in SUBSET Tunnels
      BY Zenon, <3>1 DEF Leases, Holding
    <3>3. Cardinality(Leases(lease.state)) > 0
      BY Zenon, <3>2, TunnelsCounted
    <3> QED
      BY Zenon, <3>1, <3>3 DEF LeasesStanding, LeaseCounts, Revoked
  <2> QED
    BY Zenon, <2>1, <2>2, <2>3, <2>4 DEF EgressSafe
<1> QED
  BY <1>1, EgressIsInductive, PTL
=============================================================================
