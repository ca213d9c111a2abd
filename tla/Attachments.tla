---------------------------- MODULE Attachments -----------------------------
(***************************************************************************)
(* Interactive access to an Environment through the control plane: a web   *)
(* terminal (controlplane/terminal.go), whose heartbeat goroutine may      *)
(* revoke the lease while the handler is still dialling, and a request to  *)
(* a portal (controlplane/portal.go), which may wake the Environment,      *)
(* waits for it, dials and is then polled; and the one-time codes that     *)
(* carry a browser session to a portal host.                               *)
(***************************************************************************)
EXTENDS Integers, FiniteSets

CONSTANTS
    Requests,     \* portal requests
    RequestSlots, \* requests served at a time
    Codes,        \* one-time codes
    HandoffSlots, \* codes held at a time
    MaxInc,       \* bound: suspensions and wakes of the Environment
    MaxPolicy     \* bound: hold-policy, declaration, association and access changes

ASSUME AttachAssumption ==
    /\ IsFiniteSet(Requests) /\ RequestSlots \in Nat
    /\ MaxInc \in Nat /\ MaxPolicy \in Nat

VARIABLES
    aenv,     \* the Environment, its association and the principal's access
    term,     \* the terminal handler and its lease
    beat,     \* the terminal's heartbeat
    portal,   \* the portal requests
    handoffs, \* the one-time codes
    policies  \* changes made so far

attachVars == <<aenv, term, beat, portal, handoffs, policies>>

Fences == [inc : 0 .. MaxInc, rev : 0 .. MaxPolicy]
NoFence == [inc |-> 0, rev |-> 0]
\* inc counts suspensions and new executions: the epoch and the generation of the fence.
\* wake is the hold-policy revision of the wake that was asked for, -1 when none was.
\* route is the declaration whose route is active, 0 when none is.
EnvType ==
    [inc : 0 .. MaxInc, ready : BOOLEAN, suspended : {"no", "idle", "hold"}, held : BOOLEAN,
     rev : 0 .. MaxPolicy, wake : -1 .. MaxPolicy, touched : BOOLEAN, decl : 0 .. MaxPolicy,
     route : -1 .. MaxPolicy, associated : BOOLEAN, allowed : BOOLEAN]
TermSteps == {"idle", "get", "mark", "refresh", "wake", "wait", "remark", "settle", "dial", "prove",
              "attach", "health", "bridged"}
PortalSteps == {"idle", "lookup", "admit", "wake", "wait", "check", "dial", "post", "open"}

AttachTypeOK ==
    /\ aenv \in EnvType
    /\ term \in [step : TermSteps, fence : Fences, conn : BOOLEAN, bound : BOOLEAN, revoked : BOOLEAN]
    /\ beat \in [on : BOOLEAN, fence : Fences]
    /\ portal \in [Requests -> [step : PortalSteps, fence : Fences, decl : 0 .. MaxPolicy,
                                woke : BOOLEAN, conn : BOOLEAN]]
    /\ handoffs \in [Codes -> [state : {"none", "live", "expired"}, tried : 0 .. 2, cookies : 0 .. 2]]
    /\ policies \in 0 .. MaxPolicy

IdleTerm == [step |-> "idle", fence |-> NoFence, conn |-> FALSE, bound |-> FALSE, revoked |-> FALSE]
NoBeat == [on |-> FALSE, fence |-> NoFence]
IdlePortal == [step |-> "idle", fence |-> NoFence, decl |-> 0, woke |-> FALSE, conn |-> FALSE]
AttachInit ==
    /\ aenv = [inc |-> 0, ready |-> TRUE, suspended |-> "no", held |-> FALSE, rev |-> 0, wake |-> -1,
               touched |-> FALSE, decl |-> 0, route |-> 0, associated |-> TRUE, allowed |-> TRUE]
    /\ term = IdleTerm /\ beat = NoBeat /\ portal = [p \in Requests |-> IdlePortal]
    /\ handoffs = [h \in Codes |-> [state |-> "none", tried |-> 0, cookies |-> 0]] /\ policies = 0

CaptureFence == [inc |-> aenv.inc, rev |-> aenv.rev]
\* terminalAccessPolicyError, portalPolicyError.
PolicyAllows == ~aenv.held /\ aenv.suspended # "hold"
\* RecordActivity: one conditional write, refused when the fence is not current.
Touch == aenv' = [aenv EXCEPT !.touched = TRUE]
Touched(fence) == fence = CaptureFence /\ Touch
NotTouched(fence) == fence # CaptureFence /\ UNCHANGED aenv

\* RequestWake: at the hold-policy revision of the requester.
MayWake(fence) == fence.rev = aenv.rev
RequestWake(fence) ==
    aenv' = IF MayWake(fence) THEN [aenv EXCEPT !.wake = fence.rev] ELSE aenv

-----------------------------------------------------------------------------
(* The terminal.                                                           *)

TermAt(step) == term.step = step
TermTo(step) == term' = [term EXCEPT !.step = step]
\* The handler returns: the connection and the heartbeat end with it.
TermEnds == term' = IdleTerm /\ beat' = NoBeat
KeepTerm == UNCHANGED <<portal, handoffs, policies>>

TermBegin ==
    /\ TermAt("idle") /\ aenv.allowed /\ TermTo("get")
    /\ UNCHANGED <<aenv, beat>> /\ KeepTerm
TermGet ==
    /\ TermAt("get")
    /\ IF PolicyAllows /\ aenv.associated
       THEN term' = [term EXCEPT !.step = "mark", !.fence = CaptureFence] /\ UNCHANGED beat
       ELSE TermEnds
    /\ UNCHANGED aenv /\ KeepTerm
\* markActive, then the heartbeat starts with that fence.
TermMark ==
    /\ TermAt("mark")
    /\ \/ Touched(term.fence) /\ TermTo("refresh") /\ beat' = [on |-> TRUE, fence |-> term.fence]
       \/ NotTouched(term.fence) /\ TermEnds
    /\ KeepTerm
TermRefresh ==
    /\ TermAt("refresh")
    /\ IF PolicyAllows /\ aenv.associated
       THEN TermTo(IF aenv.suspended = "idle" THEN "wake" ELSE "settle") /\ UNCHANGED beat
       ELSE TermEnds
    /\ UNCHANGED aenv /\ KeepTerm
TermWake ==
    /\ TermAt("wake") /\ RequestWake(term.fence)
    /\ IF MayWake(term.fence) THEN TermTo("wait") /\ UNCHANGED beat ELSE TermEnds
    /\ KeepTerm
\* waitUntilReady, for the wake and then once more, and the timeout.
TermWait ==
    /\ term.step \in {"wait", "settle"}
    /\ \/ /\ PolicyAllows /\ aenv.ready
          /\ term' = [term EXCEPT !.fence = CaptureFence, !.step = IF @ = "wait" THEN "remark" ELSE "dial"]
          /\ UNCHANGED beat
       \/ (~PolicyAllows \/ ~aenv.ready) /\ TermEnds
    /\ UNCHANGED aenv /\ KeepTerm
TermRemark ==
    /\ TermAt("remark")
    /\ \/ Touched(term.fence) /\ TermTo("settle") /\ UNCHANGED beat
       \/ NotTouched(term.fence) /\ TermEnds
    /\ KeepTerm
\* sandboxclient DialTerminal: resolve, dial, resolve again.
Reaches(fence) == aenv.ready /\ ~aenv.held /\ fence = CaptureFence
TermDial ==
    /\ TermAt("dial")
    /\ IF Reaches(term.fence) THEN term' = [term EXCEPT !.step = "prove", !.conn = TRUE] /\ UNCHANGED beat
       ELSE TermEnds
    /\ UNCHANGED aenv /\ KeepTerm
TermProve ==
    /\ TermAt("prove")
    /\ IF Reaches(term.fence) /\ aenv.associated THEN TermTo("attach") /\ UNCHANGED beat ELSE TermEnds
    /\ UNCHANGED aenv /\ KeepTerm
\* Mutant: attach does not look whether the lease was revoked while the handler dialled.
AttachRefused_Never == FALSE
AttachRefused == term.revoked
TermAttach ==
    /\ TermAt("attach")
    /\ IF AttachRefused THEN TermEnds
       ELSE term' = [term EXCEPT !.step = "health", !.bound = TRUE] /\ UNCHANGED beat
    /\ UNCHANGED aenv /\ KeepTerm
\* checkTerminalHealth and the second authorization, then the upgrade.
TermUpgrade ==
    /\ TermAt("health")
    /\ IF term.conn /\ aenv.allowed THEN TermTo("bridged") /\ UNCHANGED beat ELSE TermEnds
    /\ UNCHANGED aenv /\ KeepTerm
\* The bridge ends: the peer leaves, or the backend connection is closed, or the
\* authorization poll fails.
TermClose ==
    /\ TermAt("bridged") /\ TermEnds
    /\ UNCHANGED aenv /\ KeepTerm
TermBreaks ==
    /\ TermAt("bridged") /\ (~aenv.allowed \/ ~term.conn) /\ TermEnds
    /\ UNCHANGED aenv /\ KeepTerm

\* revoke: the connection is closed if there is one; a lease without one is marked.
Revoke ==
    /\ term' = [term EXCEPT !.revoked = TRUE, !.conn = @ /\ ~term.bound]
    /\ beat' = NoBeat
\* readTerminalPolicy: a bound lease must still be of the fenced execution.
BoundGone == term.bound /\ (term.fence.inc # aenv.inc \/ ~aenv.ready)
\* Mutant: the policy poll reads the hold policy only.
MustRevoke_PolicyOnly == aenv.held
MustRevoke == BoundGone \/ aenv.held
\* The policy poll; a failed read changes nothing.
BeatPolicy ==
    /\ beat.on
    /\ IF MustRevoke \/ ~aenv.associated THEN Revoke
       ELSE beat' = [beat EXCEPT !.fence = CaptureFence] /\ UNCHANGED term
    /\ UNCHANGED aenv /\ KeepTerm
\* The activity timer: the same reading, then markActive with the fence just read.
BeatActivity ==
    /\ beat.on
    /\ IF MustRevoke THEN Revoke /\ UNCHANGED aenv
       ELSE Touch /\ beat' = [beat EXCEPT !.fence = CaptureFence] /\ UNCHANGED term
    /\ KeepTerm

-----------------------------------------------------------------------------
(* A portal request.                                                       *)

At(p, step) == portal[p].step = step
SetPortal(p, r) == portal' = [portal EXCEPT ![p] = r]
PortalTo(p, step) == SetPortal(p, [portal[p] EXCEPT !.step = step])
PortalEnds(p) == SetPortal(p, IdlePortal)
KeepPortal == UNCHANGED <<term, beat, handoffs, policies>>

Serving == {p \in Requests : ~At(p, "idle")}
SlotFree == Cardinality(Serving) < RequestSlots
PortalBegin(p) ==
    /\ At(p, "idle") /\ SlotFree /\ PortalTo(p, "lookup")
    /\ UNCHANGED aenv /\ KeepPortal
\* Some Environment has an active route with the locator.
PortalLookup(p) ==
    /\ At(p, "lookup")
    /\ IF aenv.route >= 0 THEN SetPortal(p, [portal[p] EXCEPT !.step = "admit", !.decl = aenv.route])
       ELSE PortalEnds(p)
    /\ UNCHANGED aenv /\ KeepPortal
\* tombstoneStaleRoute: only the very route that was looked up.
RetireStale(p) ==
    aenv' = [aenv EXCEPT !.route = IF @ = portal[p].decl THEN -1 ELSE @]
\* authorize covers the principal and the association with the Run.
AttachAuthorized == aenv.allowed /\ aenv.associated
PortalAdmit(p) ==
    LET x == portal[p] IN
    /\ At(p, "admit")
    /\ \/ x.decl # aenv.decl /\ RetireStale(p) /\ PortalEnds(p)
       \/ x.decl = aenv.decl /\ ~(AttachAuthorized /\ PolicyAllows) /\ PortalEnds(p) /\ UNCHANGED aenv
       \/ /\ x.decl = aenv.decl /\ AttachAuthorized /\ PolicyAllows /\ Touch
          /\ SetPortal(p, [x EXCEPT !.fence = CaptureFence, !.woke = aenv.suspended # "no",
                                    !.step = IF aenv.suspended = "no" THEN "check" ELSE "wake"])
    /\ KeepPortal
PortalWake(p) ==
    /\ At(p, "wake") /\ RequestWake(portal[p].fence)
    /\ IF MayWake(portal[p].fence) THEN PortalTo(p, "wait") ELSE PortalEnds(p)
    /\ KeepPortal
\* The wait after a wake, with admission activity at every turn.
PortalWait(p) ==
    /\ At(p, "wait")
    /\ \/ PolicyAllows /\ aenv.ready /\ PortalTo(p, "check") /\ Touch
       \/ (~PolicyAllows \/ ~aenv.ready) /\ PortalEnds(p) /\ UNCHANGED aenv
    /\ KeepPortal
\* "Re-fetch and reauthorize immediately before every proof-bearing dial".
RouteIs(p) == aenv.decl = portal[p].decl /\ aenv.route = portal[p].decl
PortalCheck(p) ==
    /\ At(p, "check")
    /\ IF AttachAuthorized /\ aenv.ready /\ PolicyAllows /\ RouteIs(p)
       THEN Touch /\ SetPortal(p, [portal[p] EXCEPT !.step = "dial", !.fence = CaptureFence])
       ELSE PortalEnds(p) /\ UNCHANGED aenv
    /\ KeepPortal
\* DialPortal: the target is proved around the dial; a woken service may not listen yet.
PortalDial(p) ==
    /\ At(p, "dial")
    /\ \/ /\ Reaches(portal[p].fence) /\ aenv.decl = portal[p].decl
          /\ SetPortal(p, [portal[p] EXCEPT !.step = "post", !.conn = TRUE])
       \/ IF portal[p].woke THEN PortalTo(p, "check") ELSE PortalEnds(p)
    /\ UNCHANGED aenv /\ KeepPortal
SlotGranted(p) == Reaches(portal[p].fence) /\ PolicyAllows /\ RouteIs(p) /\ AttachAuthorized
PortalPost(p) ==
    /\ At(p, "post")
    /\ IF SlotGranted(p) THEN PortalTo(p, "open") ELSE PortalEnds(p)
    /\ UNCHANGED aenv /\ KeepPortal
\* revalidatePortalLease: anything that does not hold, or cannot be read, closes.
PortalLease(p) ==
    /\ At(p, "open")
    /\ IF ~SlotGranted(p) THEN PortalEnds(p) /\ UNCHANGED aenv
       ELSE Touch /\ UNCHANGED portal
    /\ KeepPortal
PortalClose(p) ==
    /\ At(p, "open") /\ PortalEnds(p)
    /\ UNCHANGED aenv /\ KeepPortal

-----------------------------------------------------------------------------
(* The one-time codes.                                                     *)

LeaseHeld == {h \in Codes : handoffs[h].state # "none"}
\* openRunPortal: expired codes are dropped first, then there must be room.
IssueHandoff(h) ==
    /\ AttachAuthorized /\ aenv.decl = aenv.route
    /\ handoffs[h].state = "none" /\ handoffs[h].tried = 0
    /\ Cardinality({x \in LeaseHeld : handoffs[x].state = "live"}) < HandoffSlots
    /\ handoffs' = [x \in Codes |->
            IF x = h THEN [handoffs[x] EXCEPT !.state = "live"]
            ELSE IF handoffs[x].state = "expired" THEN [handoffs[x] EXCEPT !.state = "none"] ELSE handoffs[x]]
    /\ UNCHANGED <<aenv, term, beat, portal, policies>>
HandoffExpires(h) ==
    /\ handoffs[h].state = "live"
    /\ handoffs' = [handoffs EXCEPT ![h].state = "expired"]
    /\ UNCHANGED <<aenv, term, beat, portal, policies>>
Spent(state, good) == "none"
\* consumeSessionHandoff: the code is gone whether or not host, origin and time agree.
ConsumeHandoff(h, good) ==
    LET x == handoffs[h] IN
    /\ x.tried < 2
    /\ handoffs' = [handoffs EXCEPT ![h] =
            [state |-> Spent(x.state, good), tried |-> IF x.state = "none" THEN x.tried ELSE x.tried + 1,
             cookies |-> IF good /\ x.state = "live" THEN x.cookies + 1 ELSE x.cookies]]
    /\ UNCHANGED <<aenv, term, beat, portal, policies>>

-----------------------------------------------------------------------------
(* The Environment and its owners.                                         *)

\* The lifecycle controller: a hold suspends, and so does idling without activity; a wake is
\* honoured at the current hold policy only; a released hold resumes.
Suspends ==
    /\ aenv.suspended = "no" /\ aenv.inc < MaxInc
    /\ aenv' = IF ~aenv.held /\ aenv.touched THEN [aenv EXCEPT !.touched = FALSE]
               ELSE [aenv EXCEPT !.inc = @ + 1, !.ready = FALSE,
                                 !.suspended = IF aenv.held THEN "hold" ELSE "idle"]
    /\ UNCHANGED <<term, beat, portal, handoffs, policies>>
Wakes ==
    /\ ~aenv.held /\ aenv.inc < MaxInc
    /\ aenv.suspended = "hold" \/ (aenv.suspended = "idle" /\ aenv.wake = aenv.rev)
    /\ aenv' = [aenv EXCEPT !.inc = @ + 1, !.ready = TRUE, !.suspended = "no", !.wake = -1]
    /\ UNCHANGED <<term, beat, portal, handoffs, policies>>
Administer ==
    /\ policies < MaxPolicy /\ policies' = policies + 1
    /\ aenv' \in {[aenv EXCEPT !.held = ~@, !.rev = @ + 1], [aenv EXCEPT !.decl = @ + 1],
                  [aenv EXCEPT !.route = aenv.decl], [aenv EXCEPT !.route = -1],
                  [aenv EXCEPT !.associated = FALSE], [aenv EXCEPT !.allowed = FALSE]}
    /\ UNCHANGED <<term, beat, portal, handoffs>>

TermNext ==
    \/ TermBegin \/ TermGet \/ TermMark \/ TermRefresh \/ TermWake \/ TermWait \/ TermRemark \/ TermDial
    \/ TermProve \/ TermAttach \/ TermUpgrade \/ TermClose \/ TermBreaks \/ BeatPolicy \/ BeatActivity
PortalNext ==
    \E p \in Requests :
        \/ PortalBegin(p) \/ PortalLookup(p) \/ PortalAdmit(p) \/ PortalWake(p) \/ PortalWait(p)
        \/ PortalCheck(p) \/ PortalDial(p) \/ PortalPost(p) \/ PortalLease(p) \/ PortalClose(p)
HandoffNext ==
    \E h \in Codes :
        IssueHandoff(h) \/ HandoffExpires(h) \/ \E good \in BOOLEAN : ConsumeHandoff(h, good)
OwnersNext == Suspends \/ Wakes \/ Administer
AttachNext == TermNext \/ PortalNext \/ HandoffNext \/ OwnersNext

AttachSpec == AttachInit /\ [][AttachNext]_attachVars
AttachFairness ==
    /\ WF_attachVars(BeatPolicy) /\ WF_attachVars(TermBreaks)
    /\ \A p \in Requests : WF_attachVars(PortalLease(p))

-----------------------------------------------------------------------------
\* A terminal lease with an open connection has a heartbeat that will revoke it: the
\* heartbeat ends only by revoking, and a lease revoked while it was being dialled is
\* never bound.
LeaseIsSupervised ==
    term.bound => beat.on \/ ~term.conn

\* No more portal requests are served than there are slots, and a connection is held only
\* by a request that is being served.
ServedWithinSlots ==
    /\ Cardinality(Serving) <= RequestSlots
    /\ \A p \in Requests : portal[p].conn => portal[p].step \in {"post", "open"}

\* A one-time code sets at most one cookie, and a code that was presented once, for
\* whatever host, sets none afterwards.
HandoffOnce ==
    \A h \in Codes : handoffs[h].tried <= 1 /\ handoffs[h].cookies <= 1

\* Interactive access, under every interleaving with the owners of the Environment: types,
\* the terminal's supervision, the portal's slots, one-time codes (terminal.go, portal.go).
AttachSafe == AttachTypeOK /\ LeaseIsSupervised /\ ServedWithinSlots /\ HandoffOnce

\* Access ends with what it rests on: once the execution is gone, the Run no longer has the
\* Environment, or the principal lost access, the terminal and the portal connection are
\* closed; a portal also when the declaration changes.
AccessEnds ==
    /\ (TermAt("bridged") /\ (term.fence.inc # aenv.inc \/ ~AttachAuthorized)) ~> ~TermAt("bridged")
    /\ \A p \in Requests :
        (At(p, "open") /\ (portal[p].fence.inc # aenv.inc \/ ~AttachAuthorized \/ portal[p].decl # aenv.decl))
            ~> ~At(p, "open")
=============================================================================
