---------------------------- MODULE AccessProofs ----------------------------
(***************************************************************************)
(* The ways to an Environment.  Interactive access - terminals, portals    *)
(* and one-time codes - is safe for every number of requests, codes and    *)
(* changes of the Environment; browser sessions for every number of        *)
(* cookies, keys, concurrent requests and restarts; and the files of the   *)
(* workspace for every number of writers, page size and directory.         *)
(***************************************************************************)
EXTENDS Attachments, BrowserSessions, WorkspaceFiles, FiniteSetTheorems, TLAPS

\* Why a bound terminal lease is supervised: once the lease was marked, its heartbeat runs
\* or has revoked it; a lease revoked before it was bound is not bound, and one revoked
\* after that has lost its connection.
TermStanding ==
    /\ term.step \notin {"idle", "get", "mark"} => beat.on \/ term.revoked
    /\ term.bound => term.step \in {"health", "bridged"} /\ (term.revoked => ~term.conn)

\* A code that is still held was never presented.
CodesStanding ==
    \A h \in Codes :
        /\ handoffs[h].state # "none" => handoffs[h].tried = 0
        /\ handoffs[h].cookies <= handoffs[h].tried /\ handoffs[h].tried <= 1

\* Revisions and declarations count the changes made.
PoliciesCounted == aenv.rev <= policies /\ aenv.decl <= policies

\* What stands in every reachable state of Attachments.
AttachInductive ==
    AttachTypeOK /\ PoliciesCounted /\ TermStanding /\ CodesStanding /\ ServedWithinSlots

\* The types of the state, one variable at a time.
EnvOK == aenv \in EnvType
TermOK == term \in [step : TermSteps, fence : Fences, conn : BOOLEAN, bound : BOOLEAN, revoked : BOOLEAN]
BeatOK == beat \in [on : BOOLEAN, fence : Fences]
PortalType ==
    [step : PortalSteps, fence : Fences, decl : 0 .. MaxPolicy, woke : BOOLEAN, conn : BOOLEAN]
CodeType == [state : {"none", "live", "expired"}, tried : 0 .. 2, cookies : 0 .. 2]

\* A fence that is read from the Environment has the type of a fence.
LEMMA FencesTyped == EnvOK => CaptureFence \in Fences
  BY Zenon DEF EnvOK, EnvType, CaptureFence, Fences

\* What a handler leaves behind when it returns is of its type.
LEMMA IdleTyped == (IdleTerm \in [step : TermSteps, fence : Fences, conn : BOOLEAN, bound : BOOLEAN, revoked : BOOLEAN]
                     /\ NoBeat \in [on : BOOLEAN, fence : Fences]) /\ IdlePortal \in PortalType
  BY AttachAssumption DEF IdleTerm, NoBeat, IdlePortal, PortalType, PortalSteps, TermSteps, Fences, NoFence

\* The handlers touch the Environment, ask for a wake or retire a route; only its owners
\* do more (RecordActivity, RequestWake, tombstoneStaleRoute).
HandlerWrites ==
    /\ policies' = policies
    /\ \/ aenv' = aenv \/ aenv' = [aenv EXCEPT !.touched = TRUE] \/ aenv' = [aenv EXCEPT !.wake = aenv.rev]
       \/ aenv' = [aenv EXCEPT !.route = -1]

\* All that a handler of a terminal, a portal request or a code writes to the Environment.
LEMMA HandlersWrite ==
    EnvOK /\ (TermNext \/ PortalNext \/ HandoffNext) => HandlerWrites
<1> SUFFICES ASSUME EnvOK, TermNext \/ PortalNext \/ HandoffNext PROVE HandlerWrites
  OBVIOUS
<1> USE DEF HandlerWrites, KeepTerm, KeepPortal, Touch, Touched, NotTouched
<1>w. ASSUME NEW f, RequestWake(f) PROVE aenv' = aenv \/ aenv' = [aenv EXCEPT !.wake = aenv.rev]
  BY Zenon, <1>w DEF RequestWake, MayWake
<1>1. CASE TermNext
  <2>1. CASE TermWake
    BY Zenon, <2>1, <1>w DEF TermWake
  <2> QED
    BY Zenon, <1>1, <2>1 DEF TermNext, TermBegin, TermGet, TermMark, TermRefresh, TermWait, TermRemark, TermDial,
       TermProve, TermAttach, TermUpgrade, TermClose, TermBreaks, BeatPolicy, BeatActivity
<1>2. CASE PortalNext
  <2>1. PICK p \in Requests :
        \/ PortalBegin(p) \/ PortalLookup(p) \/ PortalAdmit(p) \/ PortalWake(p) \/ PortalWait(p)
        \/ PortalCheck(p) \/ PortalDial(p) \/ PortalPost(p) \/ PortalLease(p) \/ PortalClose(p)
    BY Zenon, <1>2 DEF PortalNext
  <2>2. CASE PortalWake(p)
    BY Zenon, <2>2, <1>w DEF PortalWake
  <2>3. CASE PortalAdmit(p)
    <3>1. RetireStale(p) => aenv' = aenv \/ aenv' = [aenv EXCEPT !.route = -1]
      BY Zenon DEF RetireStale, EnvOK, EnvType
    <3> QED
      BY Zenon, <2>3, <3>1 DEF PortalAdmit
  <2> QED
    BY Zenon, <2>1, <2>2, <2>3 DEF PortalBegin, PortalLookup, PortalWait, PortalCheck, PortalDial, PortalPost,
       PortalLease, PortalClose
<1>3. CASE HandoffNext
  BY Zenon, <1>3 DEF HandoffNext, IssueHandoff, HandoffExpires, ConsumeHandoff
<1> QED
  BY Zenon, <1>1, <1>2, <1>3

\* Every step keeps the Environment's type and the count of its changes.
LEMMA AccessEnvStep ==
    AttachTypeOK /\ PoliciesCounted /\ [AttachNext]_attachVars
        => EnvOK' /\ PoliciesCounted' /\ policies' \in 0 .. MaxPolicy
<1> SUFFICES ASSUME AttachTypeOK, PoliciesCounted, [AttachNext]_attachVars
             PROVE  EnvOK' /\ PoliciesCounted' /\ policies' \in 0 .. MaxPolicy
  OBVIOUS
<1>t. /\ aenv \in EnvType /\ policies \in 0 .. MaxPolicy /\ aenv.rev <= policies /\ aenv.decl <= policies
      /\ MaxPolicy \in Nat /\ MaxInc \in Nat
  BY Zenon, AttachAssumption DEF AttachTypeOK, PoliciesCounted
<1>m. -1 \in -1 .. MaxPolicy /\ aenv.rev \in 0 .. MaxPolicy /\ aenv.rev \in -1 .. MaxPolicy
      /\ aenv.decl \in -1 .. MaxPolicy
  BY <1>t DEF EnvType
<1>k. policies' = policies /\ aenv'.rev = aenv.rev /\ aenv'.decl = aenv.decl
        => PoliciesCounted' /\ policies' \in 0 .. MaxPolicy
  BY Zenon, <1>t DEF PoliciesCounted
<1>1. CASE HandlerWrites
  <2>1. aenv' \in EnvType
    BY Zenon, <1>1, <1>t, <1>m DEF HandlerWrites, EnvType
  <2>2. aenv'.rev = aenv.rev /\ aenv'.decl = aenv.decl
    BY Zenon, <1>1, <1>t DEF HandlerWrites, EnvType
  <2> QED
    BY Zenon, <1>1, <2>1, <2>2, <1>k DEF HandlerWrites, EnvOK
<1>2. CASE Suspends
  <2>1. aenv.inc + 1 \in 0 .. MaxInc
    BY <1>2, <1>t DEF Suspends, EnvType
  <2>2. (IF aenv.held THEN "hold" ELSE "idle") \in {"no", "idle", "hold"}
    OBVIOUS
  <2>3. aenv' \in EnvType
    BY Zenon, <1>2, <1>t, <2>1, <2>2 DEF Suspends, EnvType
  <2>4. aenv'.rev = aenv.rev /\ aenv'.decl = aenv.decl
    BY Zenon, <1>2, <1>t DEF Suspends, EnvType
  <2> QED
    BY Zenon, <1>2, <2>3, <2>4, <1>k DEF Suspends, EnvOK
<1>3. CASE Wakes
  <2>1. aenv.inc + 1 \in 0 .. MaxInc
    BY <1>3, <1>t DEF Wakes, EnvType
  <2>2. aenv' \in EnvType
    BY Zenon, <1>3, <1>t, <1>m, <2>1 DEF Wakes, EnvType
  <2>3. aenv'.rev = aenv.rev /\ aenv'.decl = aenv.decl
    BY Zenon, <1>3, <1>t DEF Wakes, EnvType
  <2> QED
    BY Zenon, <1>3, <2>2, <2>3, <1>k DEF Wakes, EnvOK
<1>4. CASE Administer
  <2>1. aenv.rev + 1 \in 0 .. MaxPolicy /\ aenv.decl + 1 \in 0 .. MaxPolicy
    BY <1>4, <1>t DEF Administer, EnvType
  <2>2. (~aenv.held) \in BOOLEAN
    OBVIOUS
  <2>6. [aenv EXCEPT !.held = ~@, !.rev = @ + 1] \in EnvType
    BY Zenon, <1>t, <2>1, <2>2 DEF EnvType
  <2>7. [aenv EXCEPT !.decl = @ + 1] \in EnvType
    BY Zenon, <1>t, <2>1 DEF EnvType
  <2>8. /\ [aenv EXCEPT !.route = aenv.decl] \in EnvType /\ [aenv EXCEPT !.route = -1] \in EnvType
        /\ [aenv EXCEPT !.associated = FALSE] \in EnvType /\ [aenv EXCEPT !.allowed = FALSE] \in EnvType
    BY Zenon, <1>t, <1>m DEF EnvType
  <2>3. aenv' \in EnvType
    BY Zenon, <1>4, <2>6, <2>7, <2>8 DEF Administer
  <2>4. aenv'.rev \in {aenv.rev, aenv.rev + 1} /\ aenv'.decl \in {aenv.decl, aenv.decl + 1}
    BY Zenon, <1>4, <1>t DEF Administer, EnvType
  <2>5. aenv.rev \in Int /\ aenv.decl \in Int
    BY <1>t DEF EnvType
  <2> QED
    BY <1>4, <1>t, <2>3, <2>4, <2>5 DEF Administer, EnvOK, PoliciesCounted
<1>5. CASE UNCHANGED attachVars
  BY Zenon, <1>5, <1>t, <1>k DEF attachVars, EnvOK
<1> QED
  BY Zenon, <1>1, <1>2, <1>3, <1>4, <1>5, <1>t, HandlersWrite DEF AttachNext, OwnersNext, EnvOK

\* Every step keeps the types of the terminal and its heartbeat.
LEMMA TermTypes == AttachTypeOK /\ [AttachNext]_attachVars => TermOK' /\ BeatOK'
<1> SUFFICES ASSUME AttachTypeOK, [AttachNext]_attachVars PROVE TermOK' /\ BeatOK'
  OBVIOUS
<1>t. EnvOK /\ TermOK /\ BeatOK /\ CaptureFence \in Fences
  BY Zenon, FencesTyped DEF AttachTypeOK, EnvOK, TermOK, BeatOK
<1>f. term.fence \in Fences
  BY Zenon, <1>t DEF TermOK
<1>b. (UNCHANGED beat => BeatOK') /\ (UNCHANGED term => TermOK')
  BY Zenon, <1>t DEF TermOK, BeatOK
<1>c. beat' = [beat EXCEPT !.fence = CaptureFence] => BeatOK'
  BY Zenon, <1>t DEF BeatOK
<1>e. TermEnds => TermOK' /\ BeatOK'
  BY Zenon, IdleTyped DEF TermOK, BeatOK, TermEnds
<1>s. ASSUME NEW s \in TermSteps PROVE TermTo(s) => TermOK'
  BY Zenon, <1>t DEF TermTo, TermOK
<1>r. Revoke => TermOK' /\ BeatOK'
  <2>1. (term.conn /\ ~term.bound) \in BOOLEAN
    OBVIOUS
  <2>2. Revoke => TermOK'
    BY Zenon, <2>1, <1>t DEF Revoke, TermOK
  <2> QED
    BY Zenon, <2>2, IdleTyped DEF Revoke, BeatOK
<1>d. /\ "get" \in TermSteps /\ "mark" \in TermSteps /\ "refresh" \in TermSteps /\ "wake" \in TermSteps
      /\ "wait" \in TermSteps /\ "remark" \in TermSteps /\ "settle" \in TermSteps /\ "dial" \in TermSteps
      /\ "prove" \in TermSteps /\ "attach" \in TermSteps /\ "health" \in TermSteps /\ "bridged" \in TermSteps
  BY Zenon DEF TermSteps
<1>1. CASE TermBegin
  BY Zenon, <1>1, <1>b, <1>s, <1>d DEF TermBegin
<1>2. CASE TermGet
  BY Zenon, <1>2, <1>t, <1>e, <1>b, <1>d DEF TermGet, TermOK
<1>3. CASE TermMark
  <2>1. [on |-> TRUE, fence |-> term.fence] \in [on : BOOLEAN, fence : Fences]
    BY Zenon, <1>f
  <2> QED
    BY Zenon, <1>3, <2>1, <1>e, <1>s, <1>d DEF TermMark, BeatOK
<1>4. CASE TermRefresh
  BY Zenon, <1>4, <1>b, <1>e, <1>s, <1>d DEF TermRefresh
<1>5. CASE TermWake
  BY Zenon, <1>5, <1>b, <1>e, <1>s, <1>d DEF TermWake
<1>6. CASE TermWait
  <2>1. (IF term.step = "wait" THEN "remark" ELSE "dial") \in TermSteps
    BY Zenon, <1>d
  <2>2. term' = [term EXCEPT !.fence = CaptureFence, !.step = IF @ = "wait" THEN "remark" ELSE "dial"] => TermOK'
    BY Zenon, <2>1, <1>t DEF TermOK
  <2> QED
    BY Zenon, <1>6, <2>2, <1>b, <1>e DEF TermWait
<1>7. CASE TermRemark
  BY Zenon, <1>7, <1>b, <1>e, <1>s, <1>d DEF TermRemark
<1>8. CASE TermDial
  BY Zenon, <1>8, <1>t, <1>b, <1>e, <1>d DEF TermDial, TermOK
<1>9. CASE TermProve
  BY Zenon, <1>9, <1>b, <1>e, <1>s, <1>d DEF TermProve
<1>10. CASE TermAttach
  BY Zenon, <1>10, <1>t, <1>b, <1>e, <1>d DEF TermAttach, TermOK
<1>11. CASE TermUpgrade
  BY Zenon, <1>11, <1>b, <1>e, <1>s, <1>d DEF TermUpgrade
<1>12. CASE TermClose \/ TermBreaks
  BY Zenon, <1>12, <1>e DEF TermClose, TermBreaks
<1>13. CASE BeatPolicy \/ BeatActivity
  BY Zenon, <1>13, <1>b, <1>c, <1>r DEF BeatPolicy, BeatActivity
<1>14. CASE UNCHANGED <<term, beat>>
  BY Zenon, <1>14, <1>b
<1>15. PortalNext \/ HandoffNext \/ OwnersNext \/ UNCHANGED attachVars => UNCHANGED <<term, beat>>
  BY Zenon DEF PortalNext, PortalBegin, PortalLookup, PortalAdmit, PortalWake, PortalWait, PortalCheck, PortalDial,
     PortalPost, PortalLease, PortalClose, KeepPortal, HandoffNext, IssueHandoff, HandoffExpires,
     ConsumeHandoff, OwnersNext, Suspends, Wakes, Administer, attachVars
<1> QED
  BY Zenon, <1>1, <1>2, <1>3, <1>4, <1>5, <1>6, <1>7, <1>8, <1>9, <1>10, <1>11, <1>12, <1>13, <1>14, <1>15
     DEF AttachNext, TermNext

\* Every step keeps the terminal's supervision.
LEMMA TermStep == AttachTypeOK /\ TermStanding /\ [AttachNext]_attachVars => TermStanding'
<1> SUFFICES ASSUME AttachTypeOK, TermStanding, [AttachNext]_attachVars PROVE TermStanding'
  OBVIOUS
<1>t. TermOK /\ BeatOK
  BY Zenon DEF AttachTypeOK, TermOK, BeatOK
<1>e. TermEnds => TermStanding'
  BY DEF TermEnds, IdleTerm, NoBeat, TermStanding
<1>s. ASSUME NEW s, TermTo(s)
      PROVE term'.step = s /\ term'.bound = term.bound /\ term'.revoked = term.revoked /\ term'.conn = term.conn
  BY Zenon, <1>t, <1>s DEF TermTo, TermOK
<1>c. beat' = [beat EXCEPT !.fence = CaptureFence] => beat'.on = beat.on
  BY Zenon, <1>t DEF BeatOK
<1>1. CASE TermBegin
  BY Zenon, <1>1, <1>s DEF TermBegin, TermStanding, TermAt
<1>2. CASE TermGet
  BY Zenon, <1>2, <1>t, <1>e DEF TermGet, TermStanding, TermAt, TermOK
<1>3. CASE TermMark
  BY <1>3, <1>e, <1>s DEF TermMark, TermStanding, TermAt
<1>4. CASE TermRefresh
  BY Zenon, <1>4, <1>e, <1>s DEF TermRefresh, TermStanding, TermAt
<1>5. CASE TermWake
  BY Zenon, <1>5, <1>e, <1>s DEF TermWake, TermStanding, TermAt
<1>6. CASE TermWait
  BY Zenon, <1>6, <1>t, <1>e DEF TermWait, TermStanding, TermOK
<1>7. CASE TermRemark
  BY Zenon, <1>7, <1>e, <1>s DEF TermRemark, TermStanding, TermAt
<1>8. CASE TermDial
  BY Zenon, <1>8, <1>t, <1>e DEF TermDial, TermStanding, TermOK, TermAt
<1>9. CASE TermProve
  BY Zenon, <1>9, <1>e, <1>s DEF TermProve, TermStanding, TermAt
<1>10. CASE TermAttach
  BY Zenon, <1>10, <1>t, <1>e DEF TermAttach, TermStanding, TermOK, AttachRefused, TermAt
<1>11. CASE TermUpgrade
  BY Zenon, <1>11, <1>e, <1>s DEF TermUpgrade, TermStanding, TermAt
<1>12. CASE TermClose \/ TermBreaks
  BY Zenon, <1>12, <1>e DEF TermClose, TermBreaks
<1>13. CASE BeatPolicy \/ BeatActivity
  <2>1. Revoke => TermStanding'
    BY Zenon, <1>t DEF Revoke, TermStanding, TermOK
  <2> QED
    BY Zenon, <1>13, <1>c, <2>1 DEF BeatPolicy, BeatActivity, TermStanding
<1>14. CASE UNCHANGED <<term, beat>>
  BY Zenon, <1>14 DEF TermStanding
<1>15. PortalNext \/ HandoffNext \/ OwnersNext \/ UNCHANGED attachVars => UNCHANGED <<term, beat>>
  BY Zenon DEF PortalNext, PortalBegin, PortalLookup, PortalAdmit, PortalWake, PortalWait, PortalCheck, PortalDial,
     PortalPost, PortalLease, PortalClose, KeepPortal, HandoffNext, IssueHandoff, HandoffExpires,
     ConsumeHandoff, OwnersNext, Suspends, Wakes, Administer, attachVars
<1> QED
  BY Zenon, <1>1, <1>2, <1>3, <1>4, <1>5, <1>6, <1>7, <1>8, <1>9, <1>10, <1>11, <1>12, <1>13, <1>14, <1>15
     DEF AttachNext, TermNext

\* One request moves: its record has its type, it holds a connection only while served, and
\* it begins only in a free slot.
LEMMA RequestMoves ==
    ASSUME AttachTypeOK, ServedWithinSlots, NEW p \in Requests, NEW r \in PortalType, SetPortal(p, r),
           r.conn => r.step \in {"post", "open"}, At(p, "idle") => SlotFree
    PROVE  portal' \in [Requests -> PortalType] /\ ServedWithinSlots'
<1>t. portal \in [Requests -> PortalType]
  BY Zenon DEF AttachTypeOK, PortalType
<1>1. portal' \in [Requests -> PortalType]
  BY Zenon, <1>t DEF SetPortal
<1>2. ASSUME NEW q \in Requests PROVE portal'[q].conn => portal'[q].step \in {"post", "open"}
  BY Zenon, <1>t DEF SetPortal, ServedWithinSlots
<1>3. IsFiniteSet(Serving)
  BY Zenon, AttachAssumption, FS_Subset DEF Serving
<1>4. Serving' \subseteq Serving \cup {p}
  BY Zenon, <1>t DEF Serving, At, SetPortal
<1>5. Cardinality(Serving) \in Nat /\ RequestSlots \in Nat
  BY Zenon, <1>3, FS_CardinalityType, AttachAssumption
<1>6. CASE At(p, "idle")
  <2>1. p \notin Serving
    BY Zenon, <1>6 DEF Serving
  <2>2. IsFiniteSet(Serving \cup {p}) /\ Cardinality(Serving \cup {p}) = Cardinality(Serving) + 1
    BY Zenon, <1>3, <2>1, FS_AddElement
  <2>3. Cardinality(Serving') <= Cardinality(Serving \cup {p}) /\ Cardinality(Serving') \in Nat
    BY Zenon, <1>4, <2>2, FS_Subset, FS_CardinalityType
  <2>4. Cardinality(Serving) < RequestSlots
    BY Zenon, <1>6 DEF SlotFree
  <2>5. Cardinality(Serving') <= RequestSlots
    BY <2>2, <2>3, <2>4, <1>5
  <2> QED
    BY Zenon, <1>1, <1>2, <2>5 DEF ServedWithinSlots
<1>7. CASE ~At(p, "idle")
  <2>1. Serving' \subseteq Serving
    BY Zenon, <1>4, <1>7 DEF Serving
  <2>2. Cardinality(Serving') <= Cardinality(Serving) /\ Cardinality(Serving') \in Nat
    BY Zenon, <1>3, <2>1, FS_Subset, FS_CardinalityType
  <2>3. Cardinality(Serving') <= RequestSlots
    BY <2>2, <1>5 DEF ServedWithinSlots
  <2> QED
    BY <1>1, <1>2, <2>3 DEF ServedWithinSlots
<1> QED
  BY Zenon, <1>6, <1>7

\* Every step keeps the portal's types and slots.
LEMMA PortalStep ==
    AttachTypeOK /\ ServedWithinSlots /\ [AttachNext]_attachVars
        => portal' \in [Requests -> PortalType] /\ ServedWithinSlots'
<1> SUFFICES ASSUME AttachTypeOK, ServedWithinSlots, [AttachNext]_attachVars
             PROVE  portal' \in [Requests -> PortalType] /\ ServedWithinSlots'
  OBVIOUS
<1>t. EnvOK /\ portal \in [Requests -> PortalType] /\ CaptureFence \in Fences
  BY Zenon, FencesTyped DEF AttachTypeOK, EnvOK, PortalType
<1>1. CASE PortalNext
  <2>1. PICK p \in Requests :
        \/ PortalBegin(p) \/ PortalLookup(p) \/ PortalAdmit(p) \/ PortalWake(p) \/ PortalWait(p)
        \/ PortalCheck(p) \/ PortalDial(p) \/ PortalPost(p) \/ PortalLease(p) \/ PortalClose(p)
    BY Zenon, <1>1 DEF PortalNext
  <2>x. portal[p] \in PortalType /\ (portal[p].conn => portal[p].step \in {"post", "open"})
    BY Zenon, <1>t DEF ServedWithinSlots
  <2>e. PortalEnds(p) /\ ~At(p, "idle") => portal' \in [Requests -> PortalType] /\ ServedWithinSlots'
    <3>1. ~IdlePortal.conn
      BY Zenon DEF IdlePortal
    <3> QED
      BY Zenon, <3>1, IdleTyped, RequestMoves DEF PortalEnds
  <2>s. ASSUME NEW s \in PortalSteps, PortalTo(p, s), At(p, "idle") => SlotFree,
               portal[p].conn => s \in {"post", "open"}
        PROVE  portal' \in [Requests -> PortalType] /\ ServedWithinSlots'
    <3> DEFINE r == [portal[p] EXCEPT !.step = s]
    <3>1. r \in PortalType
      BY Zenon, <2>x DEF PortalType
    <3>2. r.conn = portal[p].conn /\ r.step = s
      BY Zenon, <2>x DEF PortalType
    <3>3. SetPortal(p, r)
      BY Zenon, <2>s DEF PortalTo
    <3> HIDE DEF r
    <3> QED
      BY Zenon, <2>s, <3>1, <3>2, <3>3, RequestMoves
  <2>d. /\ "lookup" \in PortalSteps /\ "admit" \in PortalSteps /\ "wake" \in PortalSteps
        /\ "wait" \in PortalSteps /\ "check" \in PortalSteps /\ "dial" \in PortalSteps
        /\ "post" \in PortalSteps /\ "open" \in PortalSteps
    BY Zenon DEF PortalSteps
  <2>2. CASE PortalBegin(p)
    BY Zenon, <2>2, <2>s, <2>d, <2>x DEF PortalBegin, At
  <2>3. CASE PortalLookup(p)
    <3> DEFINE r == [portal[p] EXCEPT !.step = "admit", !.decl = aenv.route]
    <3>1. CASE aenv.route >= 0
      <4>1. aenv.route \in 0 .. MaxPolicy
        BY <1>t, <3>1, AttachAssumption DEF EnvOK, EnvType
      <4>2. r \in PortalType
        BY Zenon, <2>x, <2>d, <4>1 DEF PortalType
      <4>3. r.conn = portal[p].conn
        BY Zenon, <2>x DEF PortalType
      <4>4. SetPortal(p, r) /\ At(p, "lookup")
        BY Zenon, <2>3, <3>1 DEF PortalLookup
      <4> HIDE DEF r
      <4> QED
        BY Zenon, <2>x, <4>2, <4>3, <4>4, RequestMoves DEF At
    <3> QED
      BY Zenon, <2>3, <3>1, <2>e DEF PortalLookup, At
  <2>4. CASE PortalAdmit(p)
    <3> DEFINE r == [portal[p] EXCEPT !.fence = CaptureFence, !.woke = aenv.suspended # "no",
                                      !.step = IF aenv.suspended = "no" THEN "check" ELSE "wake"]
    <3>1. CASE SetPortal(p, r)
      <4>1. (aenv.suspended # "no") \in BOOLEAN
            /\ (IF aenv.suspended = "no" THEN "check" ELSE "wake") \in PortalSteps
        BY Zenon, <2>d
      <4>2. r \in PortalType
        BY Zenon, <1>t, <2>x, <4>1 DEF PortalType
      <4>3. r.conn = portal[p].conn
        BY Zenon, <2>x DEF PortalType
      <4>4. At(p, "admit")
        BY Zenon, <2>4 DEF PortalAdmit
      <4> HIDE DEF r
      <4> QED
        BY Zenon, <2>x, <3>1, <4>2, <4>3, <4>4, RequestMoves DEF At
    <3> QED
      BY Zenon, <2>4, <3>1, <2>e DEF PortalAdmit, At
  <2>5. CASE PortalWake(p)
    BY Zenon, <2>5, <2>s, <2>e, <2>d, <2>x DEF PortalWake, At
  <2>6. CASE PortalWait(p)
    BY Zenon, <2>6, <2>s, <2>e, <2>d, <2>x DEF PortalWait, At
  <2>7. CASE PortalCheck(p)
    <3> DEFINE r == [portal[p] EXCEPT !.step = "dial", !.fence = CaptureFence]
    <3>1. CASE SetPortal(p, r)
      <4>1. r \in PortalType
        BY Zenon, <1>t, <2>x, <2>d DEF PortalType
      <4>2. r.conn = portal[p].conn
        BY Zenon, <2>x DEF PortalType
      <4>3. At(p, "check")
        BY Zenon, <2>7 DEF PortalCheck
      <4> HIDE DEF r
      <4> QED
        BY Zenon, <2>x, <3>1, <4>1, <4>2, <4>3, RequestMoves DEF At
    <3> QED
      BY Zenon, <2>7, <3>1, <2>e DEF PortalCheck, At
  <2>8. CASE PortalDial(p)
    <3> DEFINE r == [portal[p] EXCEPT !.step = "post", !.conn = TRUE]
    <3>1. CASE SetPortal(p, r)
      <4>1. r \in PortalType
        BY Zenon, <2>x, <2>d DEF PortalType
      <4>2. r.step = "post"
        BY Zenon, <2>x DEF PortalType
      <4>3. At(p, "dial")
        BY Zenon, <2>8 DEF PortalDial
      <4> HIDE DEF r
      <4> QED
        BY Zenon, <3>1, <4>1, <4>2, <4>3, RequestMoves DEF At
    <3> QED
      BY Zenon, <2>8, <3>1, <2>s, <2>e, <2>d, <2>x DEF PortalDial, At
  <2>9. CASE PortalPost(p)
    BY Zenon, <2>9, <2>s, <2>e, <2>d, <2>x DEF PortalPost, At
  <2>10. CASE PortalLease(p)
    BY Zenon, <2>10, <2>e, <1>t DEF PortalLease, At, ServedWithinSlots, Serving
  <2>11. CASE PortalClose(p)
    BY Zenon, <2>11, <2>e DEF PortalClose, At
  <2> QED
    BY Zenon, <2>1, <2>2, <2>3, <2>4, <2>5, <2>6, <2>7, <2>8, <2>9, <2>10, <2>11
<1>2. CASE UNCHANGED portal
  BY Zenon, <1>2, <1>t DEF ServedWithinSlots, Serving, At
<1>3. TermNext \/ HandoffNext \/ OwnersNext \/ UNCHANGED attachVars => UNCHANGED portal
  BY Zenon DEF TermNext, TermBegin, TermGet, TermMark, TermRefresh, TermWake, TermWait, TermRemark, TermDial,
     TermProve, TermAttach, TermUpgrade, TermClose, TermBreaks, BeatPolicy, BeatActivity, KeepTerm,
     HandoffNext, IssueHandoff, HandoffExpires, ConsumeHandoff, OwnersNext, Suspends, Wakes, Administer,
     attachVars
<1> QED
  BY Zenon, <1>1, <1>2, <1>3 DEF AttachNext

\* Every step keeps the one-time codes: a code is taken out before anything else is looked at.
LEMMA CodesStep ==
    AttachTypeOK /\ CodesStanding /\ [AttachNext]_attachVars
        => handoffs' \in [Codes -> CodeType] /\ CodesStanding'
<1> SUFFICES ASSUME AttachTypeOK, CodesStanding, [AttachNext]_attachVars
             PROVE  handoffs' \in [Codes -> CodeType] /\ CodesStanding'
  OBVIOUS
<1>t. handoffs \in [Codes -> CodeType]
  BY Zenon DEF AttachTypeOK, CodeType
<1>x. ASSUME NEW h \in Codes
      PROVE  /\ handoffs[h] \in CodeType /\ handoffs[h].tried \in 0 .. 1 /\ handoffs[h].cookies \in 0 .. 1
             /\ handoffs[h].state # "none" => handoffs[h].tried = 0
             /\ handoffs[h].cookies <= handoffs[h].tried
  BY <1>t DEF CodesStanding, CodeType
<1>1. ASSUME NEW h \in Codes, IssueHandoff(h)
      PROVE  handoffs' \in [Codes -> CodeType] /\ CodesStanding'
  <2>1. ASSUME NEW x \in Codes
        PROVE  /\ handoffs'[x] \in CodeType /\ handoffs'[x].tried = handoffs[x].tried
               /\ handoffs'[x].cookies = handoffs[x].cookies
               /\ handoffs'[x].state # "none" => handoffs[x].tried = 0
    <3>1. /\ [handoffs[x] EXCEPT !.state = "live"] \in CodeType
          /\ [handoffs[x] EXCEPT !.state = "none"] \in CodeType
      BY Zenon, <1>x DEF CodeType
    <3> QED
      BY Zenon, <1>1, <1>x, <3>1 DEF IssueHandoff, CodeType
  <2>2. handoffs' \in [Codes -> CodeType]
    BY Zenon, <1>1, <2>1 DEF IssueHandoff
  <2> QED
    BY Zenon, <2>1, <2>2, <1>x DEF CodesStanding
<1>2. ASSUME NEW h \in Codes, HandoffExpires(h)
      PROVE  handoffs' \in [Codes -> CodeType] /\ CodesStanding'
  BY Zenon, <1>2, <1>t DEF HandoffExpires, CodeType, CodesStanding
<1>3. ASSUME NEW h \in Codes, NEW good \in BOOLEAN, ConsumeHandoff(h, good)
      PROVE  handoffs' \in [Codes -> CodeType] /\ CodesStanding'
  <2> DEFINE tried == IF handoffs[h].state = "none" THEN handoffs[h].tried ELSE handoffs[h].tried + 1
             cookies == IF good /\ handoffs[h].state = "live" THEN handoffs[h].cookies + 1
                        ELSE handoffs[h].cookies
  <2>1. tried \in 0 .. 1 /\ cookies \in 0 .. 1 /\ cookies <= tried
    BY <1>x
  <2>2. handoffs' = [handoffs EXCEPT ![h] = [state |-> "none", tried |-> tried, cookies |-> cookies]]
    BY Zenon, <1>3 DEF ConsumeHandoff, Spent
  <2> HIDE DEF tried, cookies
  <2>3. [state |-> "none", tried |-> tried, cookies |-> cookies] \in CodeType
    BY <2>1 DEF CodeType
  <2> QED
    BY <2>1, <2>2, <2>3, <1>t DEF CodesStanding
<1>4. CASE UNCHANGED handoffs
  BY Zenon, <1>4, <1>t DEF CodesStanding
<1>5. TermNext \/ PortalNext \/ OwnersNext \/ UNCHANGED attachVars => UNCHANGED handoffs
  BY Zenon DEF TermNext, TermBegin, TermGet, TermMark, TermRefresh, TermWake, TermWait, TermRemark, TermDial,
     TermProve, TermAttach, TermUpgrade, TermClose, TermBreaks, BeatPolicy, BeatActivity, KeepTerm,
     PortalNext, PortalBegin, PortalLookup, PortalAdmit, PortalWake, PortalWait, PortalCheck, PortalDial,
     PortalPost, PortalLease, PortalClose, KeepPortal, OwnersNext, Suspends, Wakes, Administer, attachVars
<1> QED
  BY Zenon, <1>1, <1>2, <1>3, <1>4, <1>5 DEF AttachNext, HandoffNext

\* The inductive invariant of interactive access holds from the start and through every step.
THEOREM AccessInductive == AttachSpec => []AttachInductive
<1>1. AttachInit => AttachInductive
  <2> SUFFICES ASSUME AttachInit PROVE AttachInductive
    OBVIOUS
  <2>1. aenv \in EnvType /\ PoliciesCounted /\ policies \in 0 .. MaxPolicy
    BY AttachAssumption DEF AttachInit, EnvType, PoliciesCounted
  <2>2. TermStanding /\ TermOK /\ BeatOK
    BY Zenon, IdleTyped DEF AttachInit, TermStanding, IdleTerm, TermOK, BeatOK
  <2>3. handoffs \in [Codes -> CodeType] /\ CodesStanding
    BY DEF AttachInit, CodeType, CodesStanding
  <2>4. portal \in [Requests -> PortalType]
    BY Zenon, IdleTyped DEF AttachInit
  <2>5. Serving = {}
    BY Zenon DEF AttachInit, Serving, At, IdlePortal
  <2>6. ServedWithinSlots
    <3>1. Cardinality(Serving) = 0
      BY Zenon, <2>5, FS_EmptySet
    <3>2. \A p \in Requests : ~portal[p].conn
      BY Zenon DEF AttachInit, IdlePortal
    <3> QED
      BY <3>1, <3>2, AttachAssumption DEF ServedWithinSlots
  <2> QED
    BY Zenon, <2>1, <2>2, <2>3, <2>4, <2>6 DEF AttachInductive, AttachTypeOK, TermOK, BeatOK, PortalType, CodeType
<1>2. AttachInductive /\ [AttachNext]_attachVars => AttachInductive'
  <2> SUFFICES ASSUME AttachInductive, [AttachNext]_attachVars PROVE AttachInductive'
    OBVIOUS
  <2>1. EnvOK' /\ PoliciesCounted' /\ policies' \in 0 .. MaxPolicy
    BY Zenon, AccessEnvStep DEF AttachInductive
  <2>2. TermOK' /\ BeatOK' /\ TermStanding'
    BY Zenon, TermTypes, TermStep DEF AttachInductive
  <2>3. portal' \in [Requests -> PortalType] /\ ServedWithinSlots'
    BY Zenon, PortalStep DEF AttachInductive
  <2>4. handoffs' \in [Codes -> CodeType] /\ CodesStanding'
    BY Zenon, CodesStep DEF AttachInductive
  <2>5. AttachTypeOK'
    BY Zenon, <2>1, <2>2, <2>3, <2>4 DEF AttachTypeOK, EnvOK, TermOK, BeatOK, PortalType, CodeType
  <2> QED
    BY Zenon, <2>1, <2>2, <2>3, <2>4, <2>5 DEF AttachInductive
<1> QED
  BY <1>1, <1>2, PTL DEF AttachSpec

\* Every bound terminal is supervised, no portal request is served outside its slots and no
\* code sets a second cookie, for any number of requests, codes and changes of the
\* Environment (terminal.go, portal.go).
THEOREM AccessIsSafe == AttachSpec => []AttachSafe
<1>1. AttachInductive => AttachSafe
  <2> SUFFICES ASSUME AttachInductive PROVE AttachSafe
    OBVIOUS
  <2>1. LeaseIsSupervised
    BY Zenon DEF AttachInductive, TermStanding, LeaseIsSupervised
  <2>2. ASSUME NEW h \in Codes PROVE handoffs[h].tried <= 1 /\ handoffs[h].cookies <= 1
    <3>1. handoffs[h].tried \in 0 .. 2 /\ handoffs[h].cookies \in 0 .. 2
      BY Zenon DEF AttachInductive, AttachTypeOK
    <3> QED
      BY <3>1 DEF AttachInductive, CodesStanding
  <2> QED
    BY Zenon, <2>1, <2>2 DEF AttachInductive, AttachSafe, HandoffOnce
<1> QED
  BY <1>1, AccessInductive, PTL

-----------------------------------------------------------------------------
(* ---- browser sessions ------------------------------------------------- *)

\* A request in progress, and the types of the state.
SessionCallRecords == {NoCall} \cup [step : {"review", "drop"}, cookie : Cookies]

SessionsTyped ==
    /\ persistent \in BOOLEAN /\ serving \in BOOLEAN /\ clock \in 0 .. MaxClock
    /\ keyring \in Loadable /\ creating \in 0 .. 2 /\ DOMAIN spent \subseteq Cookies
    /\ scalls \in [SessionCalls -> SessionCallRecords]

\* The stored sessions are finitely many, and each is stored under the key its cookie names.
RowsStanding ==
    /\ IsFiniteSet(DOMAIN rows) /\ DOMAIN rows \subseteq DOMAIN spent
    /\ \A c \in DOMAIN rows : rows[c].key = spent[c] /\ rows[c].key \in KeyIDs /\ rows[c].expires \in 0 .. MaxClock + TTL

\* A cookie that was logged out has no live session: the store that could not read it could
\* not have started while it was live.
LogoutStanding == loggedOut \subseteq DOMAIN spent /\ \A c \in loggedOut : c \notin Live(rows)

\* What stands in every reachable state of BrowserSessions.
SessionsInductive == SessionsTyped /\ RowsStanding /\ SessionsBounded /\ SessionsReadable /\ LogoutStanding

\* Removing sessions, and the passing of time, leave fewer live sessions.
LEMMA RowsKept ==
    ASSUME SessionsInductive, DOMAIN rows' \subseteq DOMAIN rows, \A c \in DOMAIN rows' : rows'[c] = rows[c],
           clock' \in 0 .. MaxClock, clock <= clock', UNCHANGED spent
    PROVE  RowsStanding' /\ SessionsBounded' /\ Live(rows)' \subseteq Live(rows)
<1>t. RowsStanding /\ SessionsBounded /\ clock \in Int /\ clock' \in Int /\ MaxSessions \in Nat
  BY SessionsAssumption DEF SessionsInductive, SessionsTyped
<1>1. IsFiniteSet(DOMAIN rows')
  BY Zenon, <1>t, FS_Subset DEF RowsStanding
<1>2. RowsStanding'
  BY Zenon, <1>1, <1>t DEF RowsStanding
<1>3. \A c \in DOMAIN rows' : rows'[c].expires \in Int
  BY <1>2, SessionsAssumption DEF RowsStanding
<1>4. Live(rows)' \subseteq Live(rows)
  BY <1>t, <1>3 DEF Live
<1>5. IsFiniteSet(Live(rows))
  BY Zenon, <1>t, FS_Subset DEF RowsStanding, Live
<1>6. /\ Cardinality(Live(rows)') <= Cardinality(Live(rows))
      /\ Cardinality(Live(rows)') \in Nat /\ Cardinality(Live(rows)) \in Nat
  BY Zenon, <1>4, <1>5, FS_Subset, FS_CardinalityType
<1>7. Cardinality(Live(rows)') <= MaxSessions
  BY <1>6, <1>t DEF SessionsBounded
<1>8. SessionsBounded'
  BY Zenon, <1>7 DEF SessionsBounded
<1> QED
  BY Zenon, <1>2, <1>4, <1>8

\* What deleting a cookie's session leaves: a subset of the sessions, and not the cookie's
\* own if it was live under a serving store.
LEMMA DeletedRows ==
    ASSUME SessionsInductive, NEW c
    PROVE  /\ DOMAIN Deleted(c) \subseteq DOMAIN rows /\ \A d \in DOMAIN Deleted(c) : Deleted(c)[d] = rows[d]
           /\ serving /\ c \in DOMAIN Deleted(c) => c \notin Live(rows)
<1>1. CASE Parses(c)
  BY Zenon, <1>1 DEF Deleted, Erased, Keep
<1>2. CASE ~Parses(c)
  <2>1. Deleted(c) = rows /\ persistent /\ spent[c] \notin keyring.keys
    BY Zenon, <1>2 DEF Deleted, Parses, SessionsInductive, SessionsTyped
  <2>2. serving /\ c \in Live(rows) => rows[c].key \in keyring.keys /\ rows[c].key = spent[c]
    BY Zenon, <2>1 DEF SessionsInductive, SessionsReadable, RowsStanding, Live
  <2> QED
    BY Zenon, <2>1, <2>2
<1> QED
  BY Zenon, <1>1, <1>2

\* Every step keeps the invariant, and no cookie that was logged out, or has expired,
\* yields its credential.
LEMMA SessionsStep ==
    ASSUME SessionsInductive, [SessionsNext]_sessionVars
    PROVE  SessionsInductive' /\ LogoutIsFinalStep
<1>t. SessionsTyped /\ RowsStanding /\ SessionsBounded /\ SessionsReadable /\ LogoutStanding
  BY Zenon DEF SessionsInductive
<1>c. clock \in 0 .. MaxClock /\ clock <= clock
  BY <1>t, SessionsAssumption DEF SessionsTyped
<1>f. ASSUME \A r \in SessionCalls : scalls'[r] = scalls[r] \/ scalls'[r].step # "review" PROVE LogoutIsFinalStep
  BY Zenon, <1>f DEF LogoutIsFinalStep
<1>n. NoCall \in SessionCallRecords /\ NoCall.step = "idle"
  BY Zenon DEF SessionCallRecords, NoCall
<1>k. ASSUME SessionsTyped', UNCHANGED <<persistent, keyring, serving, spent>>, clock <= clock',
             DOMAIN rows' \subseteq DOMAIN rows, \A c \in DOMAIN rows' : rows'[c] = rows[c],
             loggedOut' \subseteq DOMAIN spent, \A c \in loggedOut' \ loggedOut : c \notin Live(rows)'
      PROVE  SessionsInductive'
  <2>1. RowsStanding' /\ SessionsBounded' /\ Live(rows)' \subseteq Live(rows)
    BY Zenon, <1>k, RowsKept DEF SessionsTyped
  <2>2. SessionsReadable'
    BY Zenon, <1>k, <1>t, <2>1 DEF SessionsReadable, Live
  <2>3. LogoutStanding'
    BY Zenon, <1>k, <1>t, <2>1 DEF LogoutStanding
  <2> QED
    BY Zenon, <1>k, <2>1, <2>2, <2>3 DEF SessionsInductive
<1>1. CASE ReviewBearer
  <2>1. UNCHANGED <<persistent, clock, keyring, serving, rows, spent, scalls, loggedOut>> /\ creating' \in 0 .. 2
    BY <1>1, <1>t DEF ReviewBearer, SessionsTyped
  <2>2. SessionsTyped'
    BY Zenon, <2>1, <1>t DEF SessionsTyped
  <2> QED
    BY Zenon, <2>1, <2>2, <1>f, <1>k, <1>c, <1>t DEF LogoutStanding
<1>2. CASE Tick
  <2>1. UNCHANGED <<persistent, keyring, serving, rows, spent, scalls, loggedOut, creating>> 
        /\ clock' \in 0 .. MaxClock /\ clock <= clock'
    BY <1>2, <1>t, SessionsAssumption DEF Tick, SessionsTyped
  <2>2. SessionsTyped'
    BY Zenon, <2>1, <1>t DEF SessionsTyped
  <2> QED
    BY Zenon, <2>1, <2>2, <1>f, <1>k, <1>t DEF LogoutStanding
<1>3. ASSUME NEW c \in Cookies, StoreSession(c) PROVE SessionsInductive' /\ LogoutIsFinalStep
  <2>1. /\ serving /\ c \notin DOMAIN spent /\ creating' \in 0 .. 2
        /\ UNCHANGED <<persistent, clock, keyring, serving, scalls, loggedOut>>
    BY <1>3, <1>t DEF StoreSession, SessionsTyped
  <2>2. CASE ~HasCapacity
    <3>1. spent' = spent /\ (rows' = rows \/ rows' = Keep(rows, Live(rows)))
      BY Zenon, <1>3, <2>2 DEF StoreSession
    <3>2. DOMAIN rows' \subseteq DOMAIN rows /\ \A d \in DOMAIN rows' : rows'[d] = rows[d]
      BY Zenon, <3>1 DEF Keep, Live
    <3>3. SessionsTyped'
      BY Zenon, <2>1, <3>1, <1>t DEF SessionsTyped
    <3> QED
      BY Zenon, <2>1, <3>1, <3>2, <3>3, <1>f, <1>k, <1>c, <1>t DEF LogoutStanding
  <2>3. CASE HasCapacity
    <3> DEFINE new == [key |-> keyring.active, expires |-> clock + TTL]
    <3>1. /\ rows' = [x \in Live(rows) \cup {c} |-> IF x = c THEN new ELSE rows[x]]
          /\ spent' = [x \in DOMAIN spent \cup {c} |-> IF x = c THEN keyring.active ELSE spent[x]]
      BY Zenon, <1>3, <2>3 DEF StoreSession
    <3>2. /\ keyring.active \in KeyIDs /\ keyring.active \in keyring.keys
          /\ new.key = keyring.active /\ new.expires = clock + TTL /\ clock + TTL \in 0 .. MaxClock + TTL
      BY <1>t, SessionsAssumption DEF SessionsTyped, Loadable, Keyrings
    <3> HIDE DEF new
    <3>3. Live(rows) \subseteq DOMAIN rows /\ DOMAIN rows \subseteq DOMAIN spent /\ c \notin DOMAIN rows
      BY Zenon, <2>1, <1>t DEF Live, RowsStanding
    <3>4. /\ DOMAIN rows' = Live(rows) \cup {c} /\ DOMAIN spent' = DOMAIN spent \cup {c}
          /\ rows'[c] = new /\ spent'[c] = keyring.active
          /\ \A d \in Live(rows) : rows'[d] = rows[d] /\ spent'[d] = spent[d]
      BY Zenon, <3>1, <3>3
    <3>5. IsFiniteSet(Live(rows)) /\ IsFiniteSet(Live(rows) \cup {c})
          /\ Cardinality(Live(rows) \cup {c}) = Cardinality(Live(rows)) + 1
      <4>1. IsFiniteSet(Live(rows))
        BY Zenon, <3>3, <1>t, FS_Subset DEF RowsStanding
      <4> QED
        BY Zenon, <4>1, <3>3, FS_AddElement
    <3>6. RowsStanding'
      BY Zenon, <3>2, <3>3, <3>4, <3>5, <1>t DEF RowsStanding
    <3>7. Live(rows)' \subseteq Live(rows) \cup {c}
      BY Zenon, <3>4 DEF Live
    <3>8. SessionsBounded'
      <4>1. Cardinality(Live(rows)') <= Cardinality(Live(rows)) + 1 /\ Cardinality(Live(rows)') \in Nat /\ Cardinality(Live(rows)) \in Nat
        BY Zenon, <3>5, <3>7, FS_Subset, FS_CardinalityType
      <4>2. Cardinality(Live(rows)) < MaxSessions
        BY Zenon, <2>3 DEF HasCapacity
      <4>3. Cardinality(Live(rows)') <= MaxSessions
        BY <4>1, <4>2, SessionsAssumption
      <4> QED
        BY Zenon, <4>3 DEF SessionsBounded
    <3>9. SessionsReadable'
      BY Zenon, <2>1, <3>2, <3>4, <3>7, <1>t DEF SessionsReadable
    <3>10. LogoutStanding'
      BY Zenon, <2>1, <3>4, <3>7, <1>t DEF LogoutStanding
    <3>11. SessionsTyped'
      BY Zenon, <2>1, <3>4, <1>t DEF SessionsTyped
    <3> QED
      BY Zenon, <2>1, <3>6, <3>8, <3>9, <3>10, <3>11, <1>f DEF SessionsInductive
  <2> QED
    BY Zenon, <2>2, <2>3
<1>4. ASSUME NEW c \in Cookies, Logout(c) PROVE SessionsInductive' /\ LogoutIsFinalStep
  <2>1. /\ serving /\ c \in DOMAIN spent /\ rows' = Deleted(c) /\ loggedOut' \in {loggedOut, loggedOut \cup {c}}
        /\ UNCHANGED <<persistent, clock, keyring, serving, spent, scalls, creating>>
    BY Zenon, <1>4 DEF Logout
  <2>2. /\ DOMAIN rows' \subseteq DOMAIN rows /\ \A d \in DOMAIN rows' : rows'[d] = rows[d]
        /\ c \in DOMAIN rows' => c \notin Live(rows)
    BY Zenon, <2>1, DeletedRows
  <2>3. c \notin Live(rows)'
    BY Zenon, <2>1, <2>2 DEF Live
  <2>4. SessionsTyped'
    BY Zenon, <2>1, <1>t DEF SessionsTyped
  <2>5. loggedOut' \subseteq DOMAIN spent /\ \A d \in loggedOut' \ loggedOut : d \notin Live(rows)'
    BY Zenon, <2>1, <2>3, <1>t DEF LogoutStanding
  <2> QED
    BY Zenon, <2>1, <2>2, <2>4, <2>5, <1>f, <1>k, <1>c
<1>5. ASSUME NEW c \in Cookies, RevokeCredential(c) PROVE SessionsInductive' /\ LogoutIsFinalStep
  <2>1. UNCHANGED <<persistent, clock, keyring, serving, rows, spent, scalls, creating, loggedOut>>
    BY Zenon, <1>5 DEF RevokeCredential
  <2>2. SessionsTyped'
    BY Zenon, <2>1, <1>t DEF SessionsTyped
  <2> QED
    BY Zenon, <2>1, <2>2, <1>f, <1>k, <1>c, <1>t DEF LogoutStanding
<1>6. ASSUME NEW r \in SessionCalls, ReviewCall(r) PROVE SessionsInductive' /\ LogoutIsFinalStep
  <2>1. /\ scalls[r].step = "review"
        /\ scalls' = [scalls EXCEPT ![r].step = "drop"] \/ scalls' = [scalls EXCEPT ![r] = NoCall]
        /\ UNCHANGED <<persistent, clock, keyring, serving, rows, spent, creating, loggedOut>>
    BY Zenon, <1>6 DEF ReviewCall
  <2>2. scalls[r] \in [step : {"review", "drop"}, cookie : Cookies]
    BY Zenon, <2>1, <1>n, <1>t DEF SessionsTyped, SessionCallRecords
  <2>3. [scalls[r] EXCEPT !.step = "drop"] \in SessionCallRecords /\ [scalls[r] EXCEPT !.step = "drop"].step = "drop"
    BY Zenon, <2>2 DEF SessionCallRecords
  <2>4. PICK x \in SessionCallRecords : scalls' = [scalls EXCEPT ![r] = x] /\ x.step # "review"
    BY Zenon, <2>1, <2>3, <1>n
  <2>5. scalls' \in [SessionCalls -> SessionCallRecords] /\ \A q \in SessionCalls : scalls'[q] = scalls[q] \/ scalls'[q].step # "review"
    BY Zenon, <2>4, <1>t DEF SessionsTyped
  <2>6. SessionsTyped'
    BY Zenon, <2>1, <2>5, <1>t DEF SessionsTyped
  <2> QED
    BY Zenon, <2>1, <2>5, <2>6, <1>f, <1>k, <1>c, <1>t DEF LogoutStanding
<1>7. ASSUME NEW r \in SessionCalls, DropSession(r) PROVE SessionsInductive' /\ LogoutIsFinalStep
  <2>1. /\ scalls' = [scalls EXCEPT ![r] = NoCall] /\ rows' \in {rows, Deleted(scalls[r].cookie)}
        /\ UNCHANGED <<persistent, clock, keyring, serving, spent, creating, loggedOut>>
    BY Zenon, <1>7 DEF DropSession
  <2>2. DOMAIN rows' \subseteq DOMAIN rows /\ \A d \in DOMAIN rows' : rows'[d] = rows[d]
    BY Zenon, <2>1, DeletedRows
  <2>3. scalls' \in [SessionCalls -> SessionCallRecords] /\ \A q \in SessionCalls : scalls'[q] = scalls[q] \/ scalls'[q].step # "review"
    BY Zenon, <2>1, <1>n, <1>t DEF SessionsTyped
  <2>4. SessionsTyped'
    BY Zenon, <2>1, <2>3, <1>t DEF SessionsTyped
  <2> QED
    BY Zenon, <2>1, <2>2, <2>3, <2>4, <1>f, <1>k, <1>c, <1>t DEF LogoutStanding
<1>8. ASSUME NEW r \in SessionCalls, NEW c \in Cookies, ResolveCookie(r, c) PROVE SessionsInductive' /\ LogoutIsFinalStep
  <2>1. /\ scalls[r].step = "idle" /\ c \in DOMAIN rows
        /\ UNCHANGED <<persistent, clock, keyring, serving, spent, creating, loggedOut>>
    BY Zenon, <1>8 DEF ResolveCookie
  <2>2. CASE Expired(c)
    <3>1. rows' = Keep(rows, DOMAIN rows \ {c}) /\ UNCHANGED scalls
      BY Zenon, <1>8, <2>2 DEF ResolveCookie
    <3>2. DOMAIN rows' \subseteq DOMAIN rows /\ \A d \in DOMAIN rows' : rows'[d] = rows[d]
      BY Zenon, <3>1 DEF Keep
    <3>3. SessionsTyped'
      BY Zenon, <2>1, <3>1, <1>t DEF SessionsTyped
    <3> QED
      BY Zenon, <2>1, <3>1, <3>2, <3>3, <1>f, <1>k, <1>c, <1>t DEF LogoutStanding
  <2>3. CASE ~Expired(c)
    <3> DEFINE x == [step |-> "review", cookie |-> c]
    <3>1. scalls' = [scalls EXCEPT ![r] = x] /\ UNCHANGED rows
      BY Zenon, <1>8, <2>3 DEF ResolveCookie
    <3>2. x \in SessionCallRecords /\ x.cookie = c
      BY Zenon DEF SessionCallRecords
    <3> HIDE DEF x
    <3>3. scalls' \in [SessionCalls -> SessionCallRecords] /\ scalls'[r] = x /\ \A q \in SessionCalls \ {r} : scalls'[q] = scalls[q]
      BY Zenon, <3>1, <3>2, <1>t DEF SessionsTyped
    <3>4. SessionsTyped'
      BY Zenon, <2>1, <3>3, <1>t DEF SessionsTyped
    <3>5. clock < rows[c].expires
      <4>1. clock \in Int /\ rows[c].expires \in Int
        BY <2>1, <1>t, SessionsAssumption DEF RowsStanding, SessionsTyped
      <4> QED
        BY <2>3, <4>1 DEF Expired
    <3>6. c \in Live(rows)
      BY Zenon, <3>5, <2>1 DEF Live
    <3>7. c \notin loggedOut
      BY Zenon, <3>6, <1>t DEF LogoutStanding
    <3>8. LogoutIsFinalStep
      BY Zenon, <3>2, <3>3, <3>5, <3>7 DEF LogoutIsFinalStep
    <3> QED
      BY Zenon, <2>1, <3>1, <3>4, <3>8, <1>k, <1>c, <1>t DEF LogoutStanding
  <2> QED
    BY Zenon, <2>2, <2>3
<1>9. ASSUME NEW k \in Loadable, RestartSessions(k) PROVE SessionsInductive' /\ LogoutIsFinalStep
  <2>1. /\ keyring' = k /\ scalls' = [r \in SessionCalls |-> NoCall] /\ creating' = 0
        /\ UNCHANGED <<persistent, clock, spent, loggedOut>>
    BY Zenon, <1>9 DEF RestartSessions
  <2>2. /\ serving' \in BOOLEAN /\ DOMAIN rows' \subseteq DOMAIN rows /\ \A d \in DOMAIN rows' : rows'[d] = rows[d]
        /\ serving' /\ persistent => \A c \in Live(rows) : rows[c].key \in k.keys
    <3>1. CASE ~persistent
      BY Zenon, <1>9, <3>1 DEF RestartSessions
    <3>2. CASE persistent /\ StartupAccepts(k, Live(rows))
      BY Zenon, <1>9, <3>2 DEF RestartSessions, StartupAccepts, Keep, Live
    <3>3. CASE persistent /\ ~StartupAccepts(k, Live(rows))
      BY Zenon, <1>9, <3>3 DEF RestartSessions
    <3> QED
      BY Zenon, <3>1, <3>2, <3>3
  <2>3. SessionsTyped'
    BY <2>1, <2>2, <1>n, <1>t DEF SessionsTyped
  <2>4. RowsStanding' /\ SessionsBounded' /\ Live(rows)' \subseteq Live(rows)
    BY Zenon, <2>1, <2>2, <1>c, RowsKept
  <2>5. SessionsReadable'
    BY Zenon, <2>1, <2>2, <2>4 DEF SessionsReadable, Live
  <2>6. LogoutStanding'
    BY Zenon, <2>1, <2>4, <1>t DEF LogoutStanding
  <2>7. LogoutIsFinalStep
    BY Zenon, <2>1, <1>n, <1>f
  <2> QED
    BY Zenon, <2>3, <2>4, <2>5, <2>6, <2>7 DEF SessionsInductive
<1>10. CASE UNCHANGED sessionVars
  <2>1. UNCHANGED <<persistent, clock, keyring, serving, rows, spent, scalls, creating, loggedOut>>
    BY Zenon, <1>10 DEF sessionVars
  <2>2. SessionsTyped'
    BY Zenon, <2>1, <1>t DEF SessionsTyped
  <2> QED
    BY Zenon, <2>1, <2>2, <1>f, <1>k, <1>c, <1>t DEF LogoutStanding
<1> QED
  BY Zenon, <1>1, <1>2, <1>3, <1>4, <1>5, <1>6, <1>7, <1>8, <1>9, <1>10 DEF SessionsNext

\* The session store's inductive invariant holds in every reachable state, whatever the
\* cookies, keys, requests, limits and lifetimes.
THEOREM SessionsAreInductive == SessionsSpec => []SessionsInductive
<1>1. SessionsInit => SessionsInductive
  <2> SUFFICES ASSUME SessionsInit PROVE SessionsInductive
    OBVIOUS
  <2>1. DOMAIN rows = {} /\ DOMAIN spent = {} /\ Live(rows) = {}
    BY Zenon DEF SessionsInit, Live
  <2>2. SessionsTyped
    BY <2>1, SessionsAssumption DEF SessionsInit, SessionsTyped, SessionCallRecords
  <2>3. RowsStanding /\ SessionsBounded
    BY <2>1, FS_EmptySet, SessionsAssumption DEF RowsStanding, SessionsBounded
  <2>4. SessionsReadable /\ LogoutStanding
    BY Zenon, <2>1 DEF SessionsInit, SessionsReadable, LogoutStanding
  <2> QED
    BY Zenon, <2>2, <2>3, <2>4 DEF SessionsInductive
<1>2. SessionsInductive /\ [SessionsNext]_sessionVars => SessionsInductive'
  BY Zenon, SessionsStep
<1> QED
  BY <1>1, <1>2, PTL DEF SessionsSpec

\* For every number of cookies, keys and requests: the live sessions stay within their
\* limit, a serving process can read each of them, and a cookie that was logged out or has
\* expired never yields its credential again, under any later keyring
\* (SessionStore.Create, Resolve, Delete, NewPostgresSessionStore).
THEOREM SessionsAreCorrect == SessionsSpec => SessionCorrect
<1>1. SessionsInductive => SessionsTypeOK /\ SessionsBounded /\ SessionsReadable
  BY Zenon DEF SessionsInductive, SessionsTyped, RowsStanding, SessionsTypeOK
<1>2. SessionsInductive /\ [SessionsNext]_sessionVars => [LogoutIsFinalStep]_sessionVars
  BY Zenon, SessionsStep
<1> QED
  BY <1>1, <1>2, SessionsAreInductive, PTL DEF SessionsSpec, SessionCorrect, LogoutIsFinal

(* ---- the workspace's files -------------------------------------------- *)

FileTyped ==
    /\ dest \in Contents \cup {"absent", "other"}
    /\ writes \in [Writers -> WriteType] /\ staged \subseteq Writers
    /\ commitMu \in Writers \cup {"none"} /\ meddled \in BOOLEAN
    /\ fsys \in [closing : BOOLEAN, waited : BOOLEAN, root : BOOLEAN]

\* A write stream: its staging file exists only while it may still be published, what is
\* flushed is whole, commitMu is held from the check to the publication, and the check is
\* still true then unless the workspace has changed the path.
WriteOK(x, isStaged, holds, d, m) ==
    /\ isStaged => x.step \in {"streaming", "flushed", "publishing"}
    /\ x.step \in {"flushed", "publishing"} => x.parts = Parts
    /\ x.step \notin {"idle", "admitted"} => x.content \in Contents
    /\ x.step = "publishing" <=> holds
    /\ x.step = "publishing" /\ x.pre = "MATCH_VERSION" => d = x.expect \/ m
WriteStanding == \A w \in Writers : WriteOK(writes[w], w \in staged, commitMu = w, dest, meddled)

\* The shutdown goes in order, and no write is running once the wait is over.
FsysStanding ==
    /\ ~fsys.root => fsys.waited
    /\ fsys.waited => fsys.closing /\ \A w \in Writers : writes[w].step = "idle"

\* The client's position lies in the directory, and in the file it has what it has read.
WalkStanding ==
    /\ walk = [dir |-> walk.dir, page |-> walk.page, listed |-> walk.listed, names |-> walk.names,
               listDone |-> walk.listDone, read |-> walk.read, bytes |-> walk.bytes,
               readDone |-> walk.readDone]
    /\ walk.dir \in Directories /\ walk.page \in PageSizes
    /\ walk.listed \in 0 .. Len(walk.dir) /\ walk.read \in 0 .. Len(walk.dir)
    /\ walk.bytes = walk.read /\ (walk.readDone => walk.read = Len(walk.dir))

\* What stands in every reachable state of WorkspaceFiles.
FileInductive == FileTyped /\ WriteStanding /\ FsysStanding /\ WalkStanding

\* A step of one write stream keeps the invariant if it keeps what stands of that stream
\* and of the others.
LEMMA OneWriter ==
    ASSUME FileInductive, NEW w \in Writers, NEW x \in WriteType,
           writes' = [writes EXCEPT ![w] = x],
           staged' \subseteq Writers, \A v \in Writers \ {w} : (v \in staged') <=> (v \in staged),
           commitMu' \in Writers \cup {"none"}, dest' \in Contents \cup {"absent", "other"}, meddled' \in BOOLEAN,
           UNCHANGED <<fsys, walk>>,
           WriteOK(x, w \in staged', commitMu' = w, dest', meddled'),
           \A v \in Writers \ {w} : WriteOK(writes[v], v \in staged, commitMu' = v, dest', meddled'),
           x.step = "idle" \/ ~fsys.waited
    PROVE  FileInductive'
<1>1. writes \in [Writers -> WriteType]
  BY Zenon DEF FileInductive, FileTyped
<1>2. writes' \in [Writers -> WriteType] /\ writes'[w] = x /\ \A v \in Writers \ {w} : writes'[v] = writes[v]
  BY Zenon, <1>1
<1>3. FileTyped'
  BY Zenon, <1>2 DEF FileInductive, FileTyped
<1>4. WriteStanding'
  <2> SUFFICES ASSUME NEW v \in Writers PROVE WriteOK(writes'[v], v \in staged', commitMu' = v, dest', meddled')
    BY Zenon DEF WriteStanding
  <2>1. CASE v = w
    BY Zenon, <2>1, <1>2
  <2>2. CASE v # w
    BY Zenon, <2>2, <1>2 DEF WriteOK
  <2> QED
    BY Zenon, <2>1, <2>2
<1>5. FsysStanding'
  BY Zenon, <1>2 DEF FileInductive, FsysStanding
<1>6. WalkStanding'
  BY Zenon DEF FileInductive, WalkStanding
<1> QED
  BY Zenon, <1>3, <1>4, <1>5, <1>6 DEF FileInductive

\* A step of one write stream that does not hold commitMu publishes nothing.
LEMMA OthersPublishNothing ==
    ASSUME FileInductive, NEW w \in Writers, NEW x, writes' = [writes EXCEPT ![w] = x],
           writes[w].step # "publishing"
    PROVE  CreateNeverReplacesStep
<1>1. writes \in [Writers -> WriteType]
  BY Zenon DEF FileInductive, FileTyped
<1>2. \A v \in Writers \ {w} : writes'[v] = writes[v]
  BY Zenon, <1>1
<1>3. \A v \in Writers : WriteAt(v, "publishing") => v # w /\ writes'[v].step # "idle"
  BY Zenon, <1>2 DEF WriteAt
<1> QED
  BY Zenon, <1>3 DEF CreateNeverReplacesStep

\* What stands of a record of the writes, and the form of the updates.
LEMMA WriteRecords ==
    ASSUME FileInductive, NEW w \in Writers
    PROVE  /\ writes[w] \in WriteType /\ NoWrite \in WriteType /\ NoWrite.step = "idle"
           /\ WriteOK(writes[w], w \in staged, commitMu = w, dest, meddled)
           /\ \A s \in {"idle", "admitted", "header", "streaming", "flushed", "publishing"} :
                LET x == [writes[w] EXCEPT !.step = s] IN
                /\ x \in WriteType /\ x.step = s /\ x.pre = writes[w].pre /\ x.expect = writes[w].expect
                /\ x.content = writes[w].content /\ x.parts = writes[w].parts
           /\ commitMu = "none" => commitMu # w
           /\ writes[w].step # "idle" => ~fsys.waited
<1>1. writes[w] \in WriteType /\ WriteOK(writes[w], w \in staged, commitMu = w, dest, meddled)
  BY Zenon DEF FileInductive, FileTyped, WriteStanding
<1>2. 0 \in 0 .. Parts
  BY FileAssumption
<1>3. NoWrite \in WriteType /\ NoWrite.step = "idle"
  BY Zenon, <1>2 DEF NoWrite, WriteType
<1>5. ASSUME NEW s \in {"idle", "admitted", "header", "streaming", "flushed", "publishing"}
      PROVE  LET x == [writes[w] EXCEPT !.step = s] IN
             /\ x \in WriteType /\ x.step = s /\ x.pre = writes[w].pre /\ x.expect = writes[w].expect
             /\ x.content = writes[w].content /\ x.parts = writes[w].parts
  BY Zenon, <1>1 DEF WriteType
<1>6. commitMu = "none" => commitMu # w
  BY Zenon, FileAssumption
<1>7. writes[w].step # "idle" => ~fsys.waited
  BY Zenon DEF FileInductive, FsysStanding
<1> QED
  BY Zenon, <1>1, <1>3, <1>5, <1>6, <1>7

\* The stream up to the check: begin, header, staging, parts, end or abort.
LEMMA StreamSteps ==
    ASSUME FileInductive, NEW w \in Writers,
           \/ BeginWrite(w) \/ WriteStage(w) \/ RecvPart(w) \/ StreamEnds(w) \/ WriteAbort(w)
           \/ \E pre \in WritePreconditions, expect \in Contents \cup {"none"}, content \in Contents :
                RecvHeader(w, pre, expect, content)
    PROVE  FileInductive' /\ CreateNeverReplacesStep
<1>t. /\ FileTyped /\ writes[w] \in WriteType /\ NoWrite \in WriteType /\ NoWrite.step = "idle"
      /\ WriteOK(writes[w], w \in staged, commitMu = w, dest, meddled)
  BY Zenon, WriteRecords DEF FileInductive
<1>d. /\ dest \in Contents \cup {"absent", "other"} /\ staged \subseteq Writers
      /\ commitMu \in Writers \cup {"none"} /\ meddled \in BOOLEAN
  BY Zenon, <1>t DEF FileTyped
<1>v. \A v \in Writers \ {w} : WriteOK(writes[v], v \in staged, commitMu = v, dest, meddled)
  BY Zenon DEF FileInductive, WriteStanding
<1>w. writes[w].step # "idle" => ~fsys.waited
  BY Zenon, WriteRecords
<1>r. ASSUME writes' = [writes EXCEPT ![w] = NoWrite], staged' = staged \ {w},
             UNCHANGED <<dest, commitMu, meddled, fsys, walk>>, writes[w].step # "publishing"
      PROVE  FileInductive' /\ CreateNeverReplacesStep
  <2>1. ~(w \in staged') /\ commitMu' # w
    BY Zenon, <1>r, <1>t DEF WriteOK
  <2>2. WriteOK(NoWrite, w \in staged', commitMu' = w, dest', meddled')
    BY Zenon, <2>1, <1>r, <1>t, <1>d DEF WriteOK
  <2>3. FileInductive'
    BY Zenon, <2>2, <1>r, <1>t, <1>d, <1>v, OneWriter
  <2> QED
    BY Zenon, <2>3, <1>r, OthersPublishNothing
<1>1. CASE BeginWrite(w)
  <2> DEFINE x == [writes[w] EXCEPT !.step = "admitted"]
  <2>1. /\ writes' = [writes EXCEPT ![w] = x] /\ writes[w].step = "idle" /\ ~fsys.closing
        /\ UNCHANGED <<dest, staged, commitMu, meddled, fsys, walk>>
    BY Zenon, <1>1 DEF BeginWrite, WriteAt, WriteGoto, MayBegin
  <2>2. x \in WriteType /\ x.step = "admitted"
    BY Zenon, WriteRecords
  <2>3. ~fsys.waited
    BY Zenon, <2>1 DEF FileInductive, FsysStanding
  <2> HIDE DEF x
  <2>4. WriteOK(x, w \in staged', commitMu' = w, dest', meddled')
    BY Zenon, <2>1, <2>2, <1>t DEF WriteOK
  <2>5. FileInductive'
    BY Zenon, <2>1, <2>2, <2>3, <2>4, <1>d, <1>v, OneWriter
  <2> QED
    BY Zenon, <2>1, <2>5, OthersPublishNothing
<1>2. CASE WriteStage(w)
  <2> DEFINE x == [writes[w] EXCEPT !.step = "streaming"]
  <2>1. /\ writes[w].step = "header" /\ commitMu = "none"
        /\ UNCHANGED <<dest, commitMu, meddled, fsys, walk>>
    BY Zenon, <1>2 DEF WriteStage, WriteAt
  <2>2. CASE dest = "other"
    BY Zenon, <2>1, <2>2, <1>2, <1>r DEF WriteStage, WriteReturn
  <2>3. CASE dest # "other"
    <3>1. writes' = [writes EXCEPT ![w] = x] /\ staged' = staged \cup {w}
      BY Zenon, <2>3, <1>2 DEF WriteStage, WriteGoto
    <3>2. x \in WriteType /\ x.step = "streaming" /\ x.content = writes[w].content
      BY Zenon, WriteRecords
    <3> HIDE DEF x
    <3>3. commitMu' # w
      BY Zenon, <2>1, WriteRecords
    <3>4. WriteOK(x, w \in staged', commitMu' = w, dest', meddled')
      BY Zenon, <2>1, <3>2, <3>3, <1>t DEF WriteOK
    <3>5. staged' \subseteq Writers /\ \A v \in Writers \ {w} : (v \in staged') <=> (v \in staged)
      BY Zenon, <3>1, <1>d
    <3>6. FileInductive'
      BY Zenon, <2>1, <3>1, <3>2, <3>4, <3>5, <1>d, <1>v, <1>w, OneWriter
    <3> QED
      BY Zenon, <2>1, <3>1, <3>6, OthersPublishNothing
  <2> QED
    BY Zenon, <2>2, <2>3
<1>3. CASE RecvPart(w)
  <2> DEFINE n == writes[w].parts + 1
             x == [writes[w] EXCEPT !.parts = n]
  <2>1. /\ writes' = [writes EXCEPT ![w] = x] /\ writes[w].step = "streaming" /\ writes[w].parts < Parts
        /\ UNCHANGED <<dest, staged, commitMu, meddled, fsys, walk>>
    BY Zenon, <1>3 DEF RecvPart, WriteAt
  <2>2. n \in 0 .. Parts
    <3>1. writes[w].parts \in 0 .. Parts
      BY Zenon, <1>t DEF WriteType
    <3> QED
      BY <3>1, <2>1, FileAssumption
  <2> HIDE DEF n
  <2>3. x \in WriteType /\ x.step = "streaming" /\ x.content = writes[w].content
    BY Zenon, <2>1, <2>2, <1>t DEF WriteType
  <2> HIDE DEF x
  <2>4. WriteOK(x, w \in staged', commitMu' = w, dest', meddled')
    BY Zenon, <2>1, <2>3, <1>t DEF WriteOK
  <2>5. FileInductive'
    BY Zenon, <2>1, <2>3, <2>4, <1>d, <1>v, <1>w, OneWriter
  <2> QED
    BY Zenon, <2>1, <2>5, OthersPublishNothing
<1>4. CASE StreamEnds(w)
  <2> DEFINE x == [writes[w] EXCEPT !.step = "flushed"]
  <2>1. /\ writes' = [writes EXCEPT ![w] = x] /\ writes[w].step = "streaming" /\ writes[w].parts = Parts
        /\ UNCHANGED <<dest, staged, commitMu, meddled, fsys, walk>>
    BY Zenon, <1>4 DEF StreamEnds, WriteAt, WriteGoto
  <2>2. x \in WriteType /\ x.step = "flushed" /\ x.content = writes[w].content /\ x.parts = writes[w].parts
    BY Zenon, WriteRecords
  <2> HIDE DEF x
  <2>4. WriteOK(x, w \in staged', commitMu' = w, dest', meddled')
    BY Zenon, <2>1, <2>2, <1>t DEF WriteOK
  <2>5. FileInductive'
    BY Zenon, <2>1, <2>2, <2>4, <1>d, <1>v, <1>w, OneWriter
  <2> QED
    BY Zenon, <2>1, <2>5, OthersPublishNothing
<1>5. CASE WriteAbort(w)
  BY Zenon, <1>5, <1>r DEF WriteAbort, WriteReturn
<1>6. ASSUME NEW pre \in WritePreconditions, NEW expect \in Contents \cup {"none"}, NEW content \in Contents,
             RecvHeader(w, pre, expect, content)
      PROVE  FileInductive' /\ CreateNeverReplacesStep
  <2> DEFINE x == [step |-> "header", pre |-> pre, expect |-> expect, content |-> content, parts |-> 0]
  <2>1. /\ writes' = [writes EXCEPT ![w] = x] /\ writes[w].step = "admitted"
        /\ UNCHANGED <<dest, staged, commitMu, meddled, fsys, walk>>
    BY Zenon, <1>6 DEF RecvHeader, WriteAt
  <2>2. 0 \in 0 .. Parts
    BY FileAssumption
  <2>3. x \in WriteType /\ x.step = "header" /\ x.content \in Contents
    BY Zenon, <2>2 DEF WriteType
  <2> HIDE DEF x
  <2>4. WriteOK(x, w \in staged', commitMu' = w, dest', meddled')
    BY Zenon, <2>1, <2>3, <1>t DEF WriteOK
  <2>5. FileInductive'
    BY Zenon, <2>1, <2>3, <2>4, <1>d, <1>v, <1>w, OneWriter
  <2> QED
    BY Zenon, <2>1, <2>5, OthersPublishNothing
<1> QED
  BY Zenon, <1>1, <1>2, <1>3, <1>4, <1>5, <1>6

\* The check under commitMu, and the publication.
LEMMA CommitSteps ==
    ASSUME FileInductive, NEW w \in Writers, CheckPrecondition(w) \/ WritePublish(w)
    PROVE  FileInductive' /\ CreateNeverReplacesStep
<1>t. /\ FileTyped /\ writes[w] \in WriteType /\ NoWrite \in WriteType /\ NoWrite.step = "idle"
      /\ WriteOK(writes[w], w \in staged, commitMu = w, dest, meddled)
  BY Zenon, WriteRecords DEF FileInductive
<1>d. /\ dest \in Contents \cup {"absent", "other"} /\ staged \subseteq Writers
      /\ commitMu \in Writers \cup {"none"} /\ meddled \in BOOLEAN
  BY Zenon, <1>t DEF FileTyped
<1>v. \A v \in Writers \ {w} : WriteOK(writes[v], v \in staged, commitMu = v, dest, meddled)
  BY Zenon DEF FileInductive, WriteStanding
<1>w. writes[w].step # "idle" => ~fsys.waited
  BY Zenon, WriteRecords
<1>n. "none" \notin Writers
  BY Zenon, FileAssumption
<1>1. CASE CheckPrecondition(w)
  <2>1. writes[w].step = "flushed" /\ commitMu = "none" /\ UNCHANGED <<dest, fsys, walk>>
    BY Zenon, <1>1 DEF CheckPrecondition, WriteAt
  <2>2. CASE WriteAllowed(w)
    <3> DEFINE x == [writes[w] EXCEPT !.step = "publishing"]
    <3>1. writes' = [writes EXCEPT ![w] = x] /\ commitMu' = w /\ meddled' = FALSE /\ staged' = staged
      BY Zenon, <2>2, <1>1 DEF CheckPrecondition, WriteGoto
    <3>2. /\ x \in WriteType /\ x.step = "publishing" /\ x.content = writes[w].content
          /\ x.parts = writes[w].parts /\ x.pre = writes[w].pre /\ x.expect = writes[w].expect
      BY Zenon, WriteRecords
    <3> HIDE DEF x
    <3>3. x.pre = "MATCH_VERSION" => dest = x.expect
      <4>1. writes[w].pre = "MATCH_VERSION" => dest = writes[w].expect
        BY <2>2 DEF WriteAllowed
      <4> QED
        BY Zenon, <4>1, <3>2
    <3>4. WriteOK(x, w \in staged', commitMu' = w, dest', meddled')
      BY Zenon, <2>1, <3>1, <3>2, <3>3, <1>t DEF WriteOK
    <3>5. \A v \in Writers \ {w} : WriteOK(writes[v], v \in staged, commitMu' = v, dest', meddled')
      <4> SUFFICES ASSUME NEW v \in Writers \ {w} PROVE WriteOK(writes[v], v \in staged, commitMu' = v, dest', meddled')
        BY Zenon
      <4>1. ~(commitMu' = v) /\ ~(commitMu = v) /\ WriteOK(writes[v], v \in staged, commitMu = v, dest, meddled)
        BY Zenon, <2>1, <3>1, <1>v, <1>n
      <4> QED
        BY Zenon, <4>1 DEF WriteOK
    <3>6. FileInductive'
      BY Zenon, <2>1, <3>1, <3>2, <3>4, <3>5, <1>d, <1>w, OneWriter
    <3> QED
      BY Zenon, <2>1, <3>1, <3>6, OthersPublishNothing
  <2>3. CASE ~WriteAllowed(w)
    <3>1. /\ writes' = [writes EXCEPT ![w] = NoWrite] /\ staged' = staged \ {w}
          /\ UNCHANGED <<commitMu, meddled>>
      BY Zenon, <2>3, <1>1 DEF CheckPrecondition, WriteReturn
    <3>2. ~(w \in staged') /\ commitMu' # w
      BY Zenon, <2>1, <3>1, <1>n
    <3>3. WriteOK(NoWrite, w \in staged', commitMu' = w, dest', meddled')
      BY Zenon, <2>1, <3>1, <3>2, <1>t DEF WriteOK
    <3>4. FileInductive'
      BY Zenon, <2>1, <3>1, <3>3, <1>t, <1>d, <1>v, OneWriter
    <3> QED
      BY Zenon, <2>1, <3>1, <3>4, OthersPublishNothing
  <2> QED
    BY Zenon, <2>2, <2>3
<1>2. CASE WritePublish(w)
  <2>1. /\ writes[w].step = "publishing" /\ UNCHANGED <<meddled, fsys, walk>>
        /\ writes' = [writes EXCEPT ![w] = NoWrite] /\ staged' = staged \ {w} /\ commitMu' = "none"
        /\ dest' = Published(w) \/ dest' = dest
    BY Zenon, <1>2 DEF WritePublish, WriteAt, WriteReturn
  <2>2. writes[w].parts = Parts /\ writes[w].content \in Contents /\ commitMu = w
    BY Zenon, <2>1, <1>t DEF WriteOK
  <2>3. /\ Published(w) \in {dest, writes[w].content}
        /\ writes[w].pre = "MUST_NOT_EXIST" /\ dest # "absent" => Published(w) = dest
    BY Zenon, <2>2 DEF Published, StagedData
  <2>4. dest' \in Contents \cup {"absent", "other"}
    BY Zenon, <2>1, <2>2, <2>3, <1>d
  <2>5. ~(w \in staged') /\ commitMu' # w
    BY Zenon, <2>1, <1>n
  <2>6. WriteOK(NoWrite, w \in staged', commitMu' = w, dest', meddled')
    BY Zenon, <2>1, <2>5, <1>t DEF WriteOK
  <2>7. \A v \in Writers \ {w} : WriteOK(writes[v], v \in staged, commitMu' = v, dest', meddled')
    BY Zenon, <2>1, <2>2, <1>v, <1>n DEF WriteOK
  <2>8. FileInductive'
    BY Zenon, <2>1, <2>4, <2>6, <2>7, <1>t, <1>d, OneWriter
  <2>9. CreateNeverReplacesStep
    <3>1. \A v \in Writers \ {w} : writes[v].step # "publishing"
      BY Zenon, <2>2, <1>v DEF WriteOK
    <3>2. writes[w].pre = "MUST_NOT_EXIST" => dest = "absent" \/ dest' = dest
      BY Zenon, <2>1, <2>3
    <3> QED
      BY Zenon, <3>1, <3>2 DEF CreateNeverReplacesStep, WriteAt
  <2> QED
    BY Zenon, <2>8, <2>9
<1> QED
  BY Zenon, <1>1, <1>2

\* The workspace's own changes and the shutdown.
LEMMA RestOfWriteNext ==
    ASSUME FileInductive,
           \/ \E d \in Contents \cup {"absent", "other"} : WorkspaceChanges(d)
           \/ BeginFileShutdown \/ AwaitWrites \/ CloseRoot
    PROVE  FileInductive' /\ CreateNeverReplacesStep
<1>u. UNCHANGED <<writes, staged, commitMu, walk>>
  BY Zenon DEF WorkspaceChanges, BeginFileShutdown, AwaitWrites, CloseRoot
<1>t. FileTyped /\ WriteStanding /\ FsysStanding /\ WalkStanding
  BY Zenon DEF FileInductive
<1>c. CreateNeverReplacesStep
  BY Zenon, <1>u DEF CreateNeverReplacesStep, WriteAt
<1>w. WalkStanding'
  BY Zenon, <1>u, <1>t DEF WalkStanding
<1>1. ASSUME NEW d \in Contents \cup {"absent", "other"}, WorkspaceChanges(d) PROVE FileInductive'
  <2>1. dest' = d /\ meddled' = TRUE /\ UNCHANGED fsys
    BY Zenon, <1>1 DEF WorkspaceChanges
  <2>2. FileTyped'
    BY Zenon, <2>1, <1>u, <1>t DEF FileTyped
  <2>3. WriteStanding'
    BY Zenon, <2>1, <1>u, <1>t DEF WriteStanding, WriteOK
  <2>4. FsysStanding'
    BY Zenon, <2>1, <1>u, <1>t DEF FsysStanding
  <2> QED
    BY Zenon, <2>2, <2>3, <2>4, <1>w DEF FileInductive
<1>2. CASE BeginFileShutdown \/ AwaitWrites \/ CloseRoot
  <2>0. UNCHANGED <<dest, meddled>> /\ fsys \in [closing : BOOLEAN, waited : BOOLEAN, root : BOOLEAN]
    BY Zenon, <1>2, <1>t DEF BeginFileShutdown, AwaitWrites, CloseRoot, FileTyped
  <2>1. fsys' \in [closing : BOOLEAN, waited : BOOLEAN, root : BOOLEAN] /\ FsysStanding'
    <3>1. CASE BeginFileShutdown
      BY Zenon, <3>1, <2>0, <1>u, <1>t DEF BeginFileShutdown, FsysStanding
    <3>2. CASE AwaitWrites
      BY Zenon, <3>2, <2>0, <1>u, <1>t DEF AwaitWrites, FsysStanding, Writing
    <3>3. CASE CloseRoot
      BY Zenon, <3>3, <2>0, <1>u, <1>t DEF CloseRoot, FsysStanding
    <3> QED
      BY Zenon, <1>2, <3>1, <3>2, <3>3
  <2>2. FileTyped'
    BY Zenon, <2>0, <2>1, <1>u, <1>t DEF FileTyped
  <2>3. WriteStanding'
    BY Zenon, <2>0, <1>u, <1>t DEF WriteStanding
  <2> QED
    BY Zenon, <2>1, <2>2, <2>3, <1>w, <1>c DEF FileInductive
<1> QED
  BY Zenon, <1>1, <1>2, <1>c

\* The smaller of two numbers.
LEMMA MinOfTwo ==
    ASSUME NEW a \in Int, NEW b \in Int
    PROVE  Min({a, b}) = IF a <= b THEN a ELSE b
<1>1. CASE a <= b
  <2>1. a \in {a, b} /\ \A y \in {a, b} : a <= y
    BY <1>1
  <2>2. \A x \in {a, b} : (\A y \in {a, b} : x <= y) => x = a
    BY <1>1
  <2>3. Min({a, b}) = a
    BY Zenon, <2>1, <2>2 DEF Min
  <2> QED
    BY Zenon, <2>3, <1>1
<1>2. CASE ~(a <= b)
  <2>1. b \in {a, b} /\ \A y \in {a, b} : b <= y
    BY <1>2
  <2>2. \A x \in {a, b} : (\A y \in {a, b} : x <= y) => x = b
    BY <1>2
  <2>3. Min({a, b}) = b
    BY Zenon, <2>1, <2>2 DEF Min
  <2> QED
    BY Zenon, <2>3, <1>2
<1> QED
  BY Zenon, <1>1, <1>2

\* A page ends within the directory.
LEMMA PageEnds ==
    ASSUME NEW s \in Seq(STRING), NEW from \in 0 .. Len(s), NEW p \in Nat \ {0}
    PROVE  LET infos == SubSeq(s, from + 1, Min({Len(s), from + p + 1}))
               page == IF Len(infos) > p THEN SubSeq(infos, 1, p) ELSE infos
           IN  from + Len(page) \in 0 .. Len(s)
<1> DEFINE hi == Min({Len(s), from + p + 1})
           infos == SubSeq(s, from + 1, hi)
           page == IF Len(infos) > p THEN SubSeq(infos, 1, p) ELSE infos
<1>1. Len(s) \in Nat /\ from \in Nat /\ from <= Len(s)
  OBVIOUS
<1>2. hi \in Nat /\ from <= hi /\ hi <= Len(s)
  <2>1. hi = IF Len(s) <= from + p + 1 THEN Len(s) ELSE from + p + 1
    BY <1>1, MinOfTwo
  <2> HIDE DEF hi
  <2> QED
    BY <1>1, <2>1
<1> HIDE DEF hi
<1>3. infos \in Seq(STRING) /\ Len(infos) = hi - from
  <2>1. \A i \in (from + 1) .. hi : i \in 1 .. Len(s)
    BY <1>1, <1>2
  <2>2. infos \in Seq(STRING)
    BY <1>1, <1>2, <2>1
  <2>3. Len(infos) = hi - from
    BY <1>1, <1>2
  <2> QED
    BY <2>2, <2>3
<1> HIDE DEF infos
<1>4. Len(page) <= Len(infos) /\ Len(page) \in Nat
  <2>1. CASE Len(infos) > p
    <3>1. page = SubSeq(infos, 1, p)
      BY Zenon, <2>1
    <3>2. Len(page) = p
      BY <3>1, <2>1, <1>3
    <3> QED
      BY <3>2, <2>1, <1>3
  <2>2. CASE ~(Len(infos) > p)
    <3>1. page = infos
      BY Zenon, <2>2
    <3> QED
      BY <3>1, <1>3
  <2> QED
    BY Zenon, <2>1, <2>2
<1> HIDE DEF page
<1>5. from + Len(page) \in 0 .. Len(s)
  BY <1>1, <1>2, <1>3, <1>4
<1> QED
  BY Zenon, <1>5 DEF page, infos, hi

\* A step of the client through the pages or through the ranges.
LEMMA WalkSteps ==
    ASSUME FileInductive, ListPage \/ ReadRange
    PROVE  FileInductive' /\ CreateNeverReplacesStep
<1>u. UNCHANGED <<dest, writes, staged, commitMu, meddled, fsys>>
  BY Zenon DEF ListPage, ReadRange
<1>t. FileTyped /\ WriteStanding /\ FsysStanding /\ WalkStanding
  BY Zenon DEF FileInductive
<1>c. CreateNeverReplacesStep
  BY Zenon, <1>u DEF CreateNeverReplacesStep, WriteAt
<1>k. FileTyped' /\ WriteStanding' /\ FsysStanding'
  BY Zenon, <1>u, <1>t DEF FileTyped, WriteStanding, FsysStanding
<1>d. /\ walk.dir \in Seq(STRING) /\ walk.page \in Nat \ {0} /\ Len(walk.dir) \in Nat
      /\ walk.listed \in 0 .. Len(walk.dir) /\ walk.read \in 0 .. Len(walk.dir)
  BY <1>t, FileAssumption DEF WalkStanding
<1>1. CASE ListPage
  <2> DEFINE infos == SubSeq(walk.dir, walk.listed + 1, Min({Len(walk.dir), walk.listed + walk.page + 1}))
             page == IF Len(infos) > walk.page THEN SubSeq(infos, 1, walk.page) ELSE infos
             n == walk.listed + Len(page)
             a == walk.names \o Visible(page)
             b == ~(Len(infos) > walk.page)
  <2>1. n \in 0 .. Len(walk.dir)
    BY Zenon, <1>d, PageEnds
  <2>2. walk' = [walk EXCEPT !.names = a, !.listed = n, !.listDone = b]
    BY Zenon, <1>1 DEF ListPage, HasMore
  <2> HIDE DEF a, b, n
  <2>3. walk' = [dir |-> walk.dir, page |-> walk.page, listed |-> n, names |-> a,
                 listDone |-> b, read |-> walk.read, bytes |-> walk.bytes, readDone |-> walk.readDone]
    BY <2>2, <1>t DEF WalkStanding
  <2>4. /\ walk'.dir = walk.dir /\ walk'.page = walk.page /\ walk'.listed = n /\ walk'.names = a
        /\ walk'.listDone = b /\ walk'.read = walk.read /\ walk'.bytes = walk.bytes /\ walk'.readDone = walk.readDone
    BY <2>3
  <2>5. WalkStanding'
    BY Zenon, <2>1, <2>3, <2>4, <1>t DEF WalkStanding
  <2> QED
    BY Zenon, <2>5, <1>k, <1>c DEF FileInductive
<1>2. CASE ReadRange
  <2> DEFINE want == ReadWant
             n == walk.read + want
             m == walk.bytes + want
             b == walk.read + want = Len(walk.dir)
  <2>1. want = IF walk.page <= Len(walk.dir) - walk.read THEN walk.page ELSE Len(walk.dir) - walk.read
    <3>1. walk.page \in Int /\ Len(walk.dir) - walk.read \in Int
      BY <1>d
    <3> QED
      BY Zenon, <3>1, MinOfTwo DEF ReadWant
  <2>2. walk' = [walk EXCEPT !.bytes = m, !.read = n, !.readDone = b]
    BY Zenon, <1>2 DEF ReadRange
  <2>3. n = m /\ (b => n = Len(walk.dir))
    BY Zenon, <1>t DEF WalkStanding
  <2>4. n \in 0 .. Len(walk.dir)
    <3> HIDE DEF want
    <3> QED
      BY <2>1, <1>d
  <2> HIDE DEF n, m, b, want
  <2>5. walk' = [dir |-> walk.dir, page |-> walk.page, listed |-> walk.listed, names |-> walk.names,
                 listDone |-> walk.listDone, read |-> n, bytes |-> m, readDone |-> b]
    BY <2>2, <1>t DEF WalkStanding
  <2>6. /\ walk'.dir = walk.dir /\ walk'.page = walk.page /\ walk'.listed = walk.listed /\ walk'.names = walk.names
        /\ walk'.listDone = walk.listDone /\ walk'.read = n /\ walk'.bytes = m /\ walk'.readDone = b
    BY <2>5
  <2>7. WalkStanding'
    BY Zenon, <2>3, <2>4, <2>5, <2>6, <1>t DEF WalkStanding
  <2> QED
    BY Zenon, <2>7, <1>k, <1>c DEF FileInductive
<1> QED
  BY Zenon, <1>1, <1>2

\* FileInductive holds initially and every step keeps it.
THEOREM FilesAreInductive == FileSpec => []FileInductive
<1>1. FileInit => FileInductive
  <2> SUFFICES ASSUME FileInit PROVE FileInductive
    BY Zenon
  <2>0. 0 \in 0 .. Parts
    BY FileAssumption
  <2>1. NoWrite \in WriteType /\ NoWrite.step = "idle"
    BY Zenon, <2>0 DEF NoWrite, WriteType
  <2>2. \A w \in Writers : writes[w] = NoWrite
    BY Zenon DEF FileInit
  <2>3. FileTyped
    <3>1. writes \in [Writers -> WriteType]
      BY Zenon, <2>1 DEF FileInit
    <3>2. fsys \in [closing : BOOLEAN, waited : BOOLEAN, root : BOOLEAN]
      BY DEF FileInit
    <3>3. dest \in Contents \cup {"absent", "other"} /\ staged \subseteq Writers
      BY DEF FileInit
    <3>4. commitMu \in Writers \cup {"none"} /\ meddled \in BOOLEAN
      BY DEF FileInit
    <3> QED
      BY Zenon, <3>1, <3>2, <3>3, <3>4 DEF FileTyped
  <2>4. commitMu = "none" /\ "none" \notin Writers /\ staged = {}
    BY Zenon, FileAssumption DEF FileInit
  <2>5. WriteStanding
    BY Zenon, <2>1, <2>2, <2>4 DEF WriteStanding, WriteOK
  <2>6. FsysStanding
    BY Zenon DEF FileInit, FsysStanding
  <2>7. WalkStanding
    <3>1. PICK d \in Directories, p \in PageSizes :
            walk = [dir |-> d, page |-> p, listed |-> 0, names |-> <<>>, listDone |-> FALSE,
                    read |-> 0, bytes |-> 0, readDone |-> FALSE]
      BY DEF FileInit
    <3>2. /\ walk.dir = d /\ walk.page = p /\ walk.listed = 0 /\ walk.names = <<>> /\ walk.listDone = FALSE
          /\ walk.read = 0 /\ walk.bytes = 0 /\ walk.readDone = FALSE
      BY <3>1
    <3>3. d \in Seq(STRING)
      BY Zenon, FileAssumption
    <3>4. 0 \in 0 .. Len(d)
      BY <3>3
    <3> QED
      BY Zenon, <3>1, <3>2, <3>4 DEF WalkStanding
  <2> QED
    BY Zenon, <2>3, <2>5, <2>6, <2>7 DEF FileInductive
<1>2. FileInductive /\ [FileNext]_fileVars => FileInductive'
  <2>1. ASSUME FileInductive, UNCHANGED fileVars PROVE FileInductive'
    BY Zenon, <2>1 DEF FileInductive, FileTyped, WriteStanding, FsysStanding, WalkStanding, fileVars
  <2> QED
    BY Zenon, <2>1, StreamSteps, CommitSteps, RestOfWriteNext, WalkSteps DEF FileNext, WriteNext, WalkNext
<1> QED
  BY <1>1, <1>2, PTL DEF FileSpec

\* The workspace's files, for any writers, contents and directories: the destination never
\* holds part of a stream, nothing of a write is left when the root is closed, the ranges
\* return every byte, a MATCH_VERSION write replaces only the version it names and a
\* MUST_NOT_EXIST write replaces nothing.
THEOREM FilesAreCorrect ==
    FileSpec => [](FileTypeOK /\ DestinationIsWhole /\ CleanAtClose /\ EveryByteIsRead) /\ FileSteps
<1>1. FileInductive => FileTypeOK /\ DestinationIsWhole /\ CleanAtClose /\ EveryByteIsRead
  <2> SUFFICES ASSUME FileInductive PROVE FileTypeOK /\ DestinationIsWhole /\ CleanAtClose /\ EveryByteIsRead
    BY Zenon
  <2>1. FileTypeOK
    BY Zenon DEF FileInductive, FileTyped, WalkStanding, FileTypeOK
  <2>2. DestinationIsWhole
    BY Zenon, FileAssumption DEF FileInductive, FileTyped, DestinationIsWhole
  <2>3. CleanAtClose
    <3>1. ~fsys.root => \A w \in Writers : writes[w].step = "idle"
      BY Zenon DEF FileInductive, FsysStanding
    <3>2. \A w \in staged : w \in Writers /\ writes[w].step # "idle"
      BY Zenon DEF FileInductive, FileTyped, WriteStanding, WriteOK
    <3> QED
      BY Zenon, <3>1, <3>2 DEF CleanAtClose, Writing
  <2>4. EveryByteIsRead
    BY Zenon DEF FileInductive, WalkStanding, EveryByteIsRead
  <2> QED
    BY Zenon, <2>1, <2>2, <2>3, <2>4
<1>2. FileInductive /\ [FileNext]_fileVars => [MatchIsExclusiveStep]_fileVars
  BY Zenon DEF FileInductive, WriteStanding, WriteOK, MatchIsExclusiveStep, WriteAt
<1>3. FileInductive /\ [FileNext]_fileVars => [CreateNeverReplacesStep]_fileVars
  BY Zenon, StreamSteps, CommitSteps, RestOfWriteNext, WalkSteps DEF FileNext, WriteNext, WalkNext
<1> QED
  BY <1>1, <1>2, <1>3, FilesAreInductive, PTL DEF FileSpec, FileSteps, MatchIsExclusive, CreateNeverReplaces
=============================================================================
