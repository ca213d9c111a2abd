--------------------------- MODULE EgressTunnels ---------------------------
(***************************************************************************)
(* The egress proxy: the two-pass proof that a certificate's execution and *)
(* policy are current, the leases and the proof loop the tunnels of one    *)
(* certificate share, the connection and quota bounds, and the tunnels.    *)
(* One action is one API read, one section under a lock, or one step of a  *)
(* connection handler.                                                     *)
(***************************************************************************)
EXTENDS Integers, FiniteSets, Sequences

CONSTANTS Tunnels,       \* connections of one certificate
          MaxWorlds,     \* bound on changes of the cluster
          MaxStates,     \* bound on lease states created
          MaxPreAuth,    \* connections not yet authorized
          MaxPending, MaxActive, MaxTokens,  \* quota of an execution
          EgressFaults   \* proofs fail unasked: TRUE or FALSE

ASSUME EgressAssumption ==
    /\ IsFiniteSet(Tunnels) /\ {MaxWorlds, MaxStates, MaxPending, MaxActive, MaxTokens} \subseteq Nat

(* ---- the proof -------------------------------------------------------- *)

\* CurrentnessAuthorizer.authorize reads every source twice, in this order.
FirstPass == <<"identity", "claim", "project", "policy", "execution">>
SecondPass == <<"policy", "identity", "claim", "project", "execution">>
Sources == {FirstPass[i] : i \in DOMAIN FirstPass}

VARIABLES sources,  \* resourceVersion and correctness of every source
          proof,    \* an evaluation in progress
          current,  \* the certificate's execution and policy are current
          worlds,   \* changes so far
          lease,    \* the record of the certificate
          loops,    \* the proof loops by lease state
          tun,      \* the connections
          bucket    \* tokens left

proofVars == <<sources, proof>>
tunnelVars == <<current, worlds, lease, loops, tun, bucket>>
egressVars == <<proofVars, tunnelVars>>

AllGood(s) == \A x \in Sources : s[x].good
NoEgressProof == [pass |-> 0, at |-> 1, seen |-> [x \in Sources |-> 0], held |-> FALSE]

ProofInit == sources = [x \in Sources |-> [rv |-> 1, good |-> TRUE]] /\ proof = NoEgressProof

\* Anything the proof reads may change; a change is a new resourceVersion.
SourceChanges(x) ==
    /\ sources[x].rv <= MaxWorlds
    /\ \E g \in BOOLEAN :
         LET now == [sources EXCEPT ![x] = [rv |-> @.rv + 1, good |-> g]]
         IN  sources' = now /\ proof' = [proof EXCEPT !.held = @ \/ (proof.pass # 0 /\ AllGood(now))]

BeginProof ==
    /\ proof.pass = 0
    /\ proof' = [NoEgressProof EXCEPT !.pass = 1, !.held = AllGood(sources)]
    /\ UNCHANGED sources

\* A source that is not what the certificate claims refuses the target.
ReadFirst ==
    /\ proof.pass = 1
    /\ LET x == FirstPass[proof.at]
           last == proof.at = Len(FirstPass)
       IN  proof' = IF ~sources[x].good THEN NoEgressProof
                    ELSE [proof EXCEPT !.seen[x] = sources[x].rv,
                                       !.pass = IF last THEN 2 ELSE 1, !.at = IF last THEN 1 ELSE @ + 1]
    /\ UNCHANGED sources

\* Mutant: the second pass compares the policy alone.
Unmoved_PolicyOnly(x) == x = "policy" => sources[x].rv = proof.seen[x]

\* The second pass finds the version the first one read.
Unmoved(x) == sources[x].rv = proof.seen[x]

ReadAgain ==
    /\ proof.pass = 2
    /\ LET x == SecondPass[proof.at]
           last == proof.at = Len(SecondPass)
       IN  proof' = IF ~Unmoved(x) THEN NoEgressProof
                    ELSE [proof EXCEPT !.pass = IF last THEN 3 ELSE 2, !.at = IF last THEN 1 ELSE @ + 1]
    /\ UNCHANGED sources

EndProof == proof.pass = 3 /\ proof' = NoEgressProof /\ UNCHANGED sources

ProofNext == BeginProof \/ ReadFirst \/ ReadAgain \/ EndProof \/ \E x \in Sources : SourceChanges(x)

(* ---- leases ----------------------------------------------------------- *)

States == 1 .. MaxStates
NoLease == [there |-> FALSE, state |-> 0, revoked |-> {}, users |-> 0, leases |-> 0, made |-> 0]
NoTunnel == [step |-> "idle", state |-> 0, quota |-> "none"]

TunnelInit ==
    /\ current = TRUE /\ worlds = 0
    /\ lease = NoLease
    /\ loops = [s \in States |-> "none"]
    /\ tun = [t \in Tunnels |-> NoTunnel]
    /\ bucket = MaxTokens

Step(t, s) == [tun EXCEPT ![t].step = s]
PreAuth == {t \in Tunnels : tun[t].step \in {"connect", "prove", "granted", "refused"}}

\* Serve: a connection over the bound is closed at once.
Accept(t) ==
    /\ tun[t].step = "idle" /\ Cardinality(PreAuth) < MaxPreAuth
    /\ tun' = Step(t, "connect")
    /\ UNCHANGED <<current, worlds, lease, loops, bucket>>

\* record: the certificate's record, made when absent.
TakeRecord(t) ==
    /\ tun[t].step = "connect" /\ (lease.there \/ lease.made < MaxStates)
    /\ lease' = IF lease.there THEN [lease EXCEPT !.users = @ + 1]
                ELSE [lease EXCEPT !.there = TRUE, !.made = @ + 1, !.state = lease.made + 1, !.users = 1, !.leases = 0]
    /\ tun' = Step(t, "prove")
    /\ UNCHANGED <<current, worlds, loops, bucket>>

\* The proof: it succeeds only if everything was current at one instant.
TunnelProve(t) ==
    /\ tun[t].step = "prove"
    /\ \/ current /\ tun' = Step(t, "granted")
       \/ (~current \/ EgressFaults) /\ tun' = Step(t, "refused")
    /\ UNCHANGED <<current, worlds, lease, loops, bucket>>

Cancelled(ls, s) == IF ls[s] = "none" THEN ls ELSE [ls EXCEPT ![s] = "cancelled"]

\* release: the record goes with its last user and lease.
Released(l) == IF l.users = 0 /\ l.leases = 0 THEN [l EXCEPT !.there = FALSE] ELSE l

\* A failed evaluation revokes the certificate's leases and stops the loop.
AuthorizeFails(t) ==
    /\ tun[t].step = "refused"
    /\ LET l == [lease EXCEPT !.revoked = @ \cup {lease.state}, !.users = @ - 1] IN lease' = Released(l)
    /\ loops' = IF lease.leases > 0 THEN Cancelled(loops, lease.state) ELSE loops
    /\ tun' = [tun EXCEPT ![t] = NoTunnel]
    /\ UNCHANGED <<current, worlds, bucket>>

\* Revoked leases must be gone before a new state is made.
Draining == lease.state \in lease.revoked /\ lease.leases # 0

\* A successful one takes a lease; the first lease of a state starts its loop.
AuthorizeSucceeds(t) ==
    /\ tun[t].step = "granted"
    /\ LET fresh == lease.state \in lease.revoked
           s == IF fresh THEN lease.made + 1 ELSE lease.state
       IN  IF Draining
           THEN /\ lease' = Released([lease EXCEPT !.users = @ - 1])
                /\ tun' = [tun EXCEPT ![t] = NoTunnel]
                /\ UNCHANGED loops
           ELSE /\ s <= MaxStates
                /\ lease' = [lease EXCEPT !.state = s, !.made = IF fresh THEN s ELSE @,
                                          !.users = @ - 1, !.leases = @ + 1]
                /\ loops' = IF lease.leases = 0 THEN [loops EXCEPT ![s] = "prove"] ELSE loops
                /\ tun' = [tun EXCEPT ![t] = [step |-> "leased", state |-> s, quota |-> "none"]]
    /\ UNCHANGED <<current, worlds, bucket>>

\* runCurrentnessLoop: a failing proof is acted on unless the loop was
\* cancelled; a revocation reaches only the loop's own state.
LoopProves(s) ==
    /\ loops[s] = "prove"
    /\ \/ current /\ UNCHANGED loops
       \/ (~current \/ EgressFaults) /\ loops' = [loops EXCEPT ![s] = "failed"]
    /\ UNCHANGED <<current, worlds, lease, tun, bucket>>

\* Mutant: a failed proof only ends the loop.
LoopRevokes_Quietly(s) ==
    /\ loops[s] = "failed"
    /\ loops' = [loops EXCEPT ![s] = "none"]
    /\ UNCHANGED <<current, worlds, lease, tun, bucket>>

LoopRevokes(s) ==
    /\ loops[s] = "failed"
    /\ lease' = IF lease.state = s THEN [lease EXCEPT !.revoked = @ \cup {s}] ELSE lease
    /\ loops' = [loops EXCEPT ![s] = "none"]
    /\ UNCHANGED <<current, worlds, tun, bucket>>

LoopStops(s) ==
    /\ loops[s] = "cancelled"
    /\ loops' = [loops EXCEPT ![s] = "none"]
    /\ UNCHANGED <<current, worlds, lease, tun, bucket>>

(* ---- the connection handler ------------------------------------------- *)

Pending == {t \in Tunnels : tun[t].quota = "pending"}
Active == {t \in Tunnels : tun[t].quota = "active"}
Revoked(t) == tun[t].state \in lease.revoked

\* Reserve: a token and a pending place.
Reserves == bucket >= 1 /\ Cardinality(Pending) < MaxPending

\* The authorization is checked once more, then a reservation is taken.
Reserve(t) ==
    /\ tun[t].step = "leased"
    /\ IF Revoked(t) \/ ~Reserves
       THEN tun' = Step(t, "release") /\ UNCHANGED bucket
       ELSE /\ tun' = [tun EXCEPT ![t].step = "dial", ![t].quota = "pending"]
            /\ bucket' = bucket - 1
    /\ UNCHANGED <<current, worlds, lease, loops>>

\* Resolution, the dial, the client's hello: each may fail.
TunnelDial(t) ==
    /\ tun[t].step = "dial"
    /\ \E s \in {"hello", "release"} : tun' = Step(t, s)
    /\ UNCHANGED <<current, worlds, lease, loops, bucket>>

\* Activate, then the hello is forwarded and both directions are copied.
Activate(t) ==
    /\ tun[t].step = "hello"
    /\ tun' = IF Cardinality(Active) < MaxActive
              THEN [tun EXCEPT ![t].step = "relay", ![t].quota = "active"]
              ELSE Step(t, "release")
    /\ UNCHANGED <<current, worlds, lease, loops, bucket>>

\* A peer closes, the tunnel is idle or too old.
RelayEnds(t) ==
    /\ tun[t].step = "relay"
    /\ tun' = Step(t, "release")
    /\ UNCHANGED <<current, worlds, lease, loops, bucket>>

\* The watcher of the currentness signal closes the connection, which ends
\* whatever the handler is doing.
CutOff(t) ==
    /\ tun[t].step \in {"dial", "hello", "relay"} /\ Revoked(t)
    /\ tun' = Step(t, "release")
    /\ UNCHANGED <<current, worlds, lease, loops, bucket>>

\* The deferred releases: the reservation first, then the lease. The last
\* lease revokes its state and cancels the loop.
ReleaseTunnel(t) ==
    /\ tun[t].step = "release"
    /\ LET s == tun[t].state
           counted == lease.state = s /\ lease.leases # 0
           last == counted /\ lease.leases = 1
       IN  /\ lease' = IF counted THEN [lease EXCEPT !.leases = @ - 1,
                                                     !.revoked = IF last THEN @ \cup {s} ELSE @] ELSE lease
           /\ loops' = IF last THEN Cancelled(loops, s) ELSE loops
           /\ tun' = IF last THEN [tun EXCEPT ![t].step = "join", ![t].quota = "none"]
                     ELSE [tun EXCEPT ![t] = NoTunnel]
    /\ UNCHANGED <<current, worlds, bucket>>

\* The last lease waits for the loop and drops the record nobody uses.
JoinLoop(t) ==
    /\ tun[t].step = "join" /\ loops[tun[t].state] = "none"
    /\ lease' = IF lease.state = tun[t].state THEN Released(lease) ELSE lease
    /\ tun' = [tun EXCEPT ![t] = NoTunnel]
    /\ UNCHANGED <<current, worlds, loops, bucket>>

(* ---- the environment -------------------------------------------------- *)

WorldChanges ==
    /\ worlds < MaxWorlds /\ worlds' = worlds + 1 /\ current' = ~current
    /\ UNCHANGED <<lease, loops, tun, bucket>>

Refill ==
    /\ bucket < MaxTokens /\ bucket' = bucket + 1
    /\ UNCHANGED <<current, worlds, lease, loops, tun>>

TunnelNext ==
    \/ WorldChanges \/ Refill
    \/ \E s \in States : LoopProves(s) \/ LoopRevokes(s) \/ LoopStops(s)
    \/ \E t \in Tunnels :
         \/ Accept(t) \/ TakeRecord(t) \/ TunnelProve(t) \/ AuthorizeFails(t) \/ AuthorizeSucceeds(t)
         \/ Reserve(t) \/ TunnelDial(t) \/ Activate(t) \/ RelayEnds(t) \/ CutOff(t)
         \/ ReleaseTunnel(t) \/ JoinLoop(t)

EgressInit == ProofInit /\ TunnelInit
EgressNext == (ProofNext /\ UNCHANGED tunnelVars) \/ (TunnelNext /\ UNCHANGED proofVars)
EgressSpec == EgressInit /\ [][EgressNext]_egressVars

\* The loop's timer fires, the watcher runs, and a deferred release runs.
TunnelFairness ==
    /\ \A s \in States : WF_tunnelVars(LoopProves(s) \/ LoopRevokes(s) \/ LoopStops(s))
    /\ \A t \in Tunnels : WF_tunnelVars(CutOff(t) \/ Reserve(t) \/ ReleaseTunnel(t) \/ JoinLoop(t))

(* ---- properties ------------------------------------------------------- *)

\* Types of the sources, the record, the loops and the tunnels.
EgressTypeOK ==
    /\ proof.pass \in 0 .. 3 /\ worlds \in 0 .. MaxWorlds /\ bucket \in 0 .. MaxTokens
    /\ lease.users \in Nat /\ lease.leases \in Nat /\ lease.revoked \subseteq States
    /\ \A s \in States : loops[s] \in {"none", "prove", "failed", "cancelled"}

\* An evaluation that succeeds held at one instant: every source was right at
\* once, although they are read one after another (authorize's two passes).
ProofIsAnInstant == proof.pass = 3 => proof.held

\* A connection that is not revoked has its proof loop: nothing is relayed on
\* an authorization nobody is repeating (acquireLeaseLocked, releaseLease).
TunnelIsSupervised ==
    \A t \in Tunnels : tun[t].step \in {"leased", "dial", "hello", "relay"} /\ ~Revoked(t) =>
        loops[tun[t].state] \in {"prove", "failed"}

\* The record counts its users and its leases exactly, and is kept while it
\* has any: no lease is left on a forgotten record.
LeasesExact ==
    /\ lease.users = Cardinality({t \in Tunnels : tun[t].step \in {"prove", "granted", "refused"}})
    /\ lease.leases = Cardinality({t \in Tunnels : tun[t].state = lease.state
                                     /\ tun[t].step \in {"leased", "dial", "hello", "relay", "release"}})
    /\ lease.users + lease.leases > 0 => lease.there

\* The quota of an execution: bounded pending and active connections, and
\* nothing reserved by a connection that is gone.
QuotaHolds ==
    /\ Cardinality(Pending) <= MaxPending /\ Cardinality(Active) <= MaxActive
    /\ \A t \in Tunnels : tun[t].quota # "none" => tun[t].step \in {"dial", "hello", "relay", "release"}

\* The safety of the egress proxy: types, proof, leases, quota.
EgressSafe == EgressTypeOK /\ ProofIsAnInstant /\ TunnelIsSupervised /\ LeasesExact /\ QuotaHolds

\* Once the execution or its policy is not current, and stays so, every tunnel
\* is cut off (runCurrentnessLoop, the watcher of the currentness signal).
StaleTunnelsEnd == \A t \in Tunnels : <>[]~current => <>[](tun[t].step \notin {"leased", "dial", "hello", "relay"})
=============================================================================
