--------------------------- MODULE OperatorProofs ---------------------------
(***************************************************************************)
(* The operator's isolation selection and a project's namespace claim are  *)
(* correct for every number of Environments, selections, commands, workers *)
(* and restarts.                                                           *)
(***************************************************************************)
EXTENDS InstallationIsolation, ProjectTenancy, TLAPS

(* ---- the isolation selection ------------------------------------------ *)

\* What of an execution a fence of an Environment removes.
Parts == {"conn", "pod", "cred"}
\* The status of the Installation, a pass over it, and the types of the state.
IsoStatuses == [state : IsoStates, sel : Selections \cup {"none", "dev"}, deps : 0 .. 2, gen : Nat]
IsoPasses ==
    [step : {"idle", "decide", "resolve", "compare", "list", "probe"},
     seen : [sel : Selections \cup {"none"}, gen : Nat, status : IsoStatuses],
     deps : 0 .. 2, left : SUBSET Envs]

IsoTyped ==
    /\ install \in [sel : Selections, gen : Nat, status : IsoStatuses] /\ deps \in 0 .. 2
    /\ iso \in IsoPasses /\ isoFresh \in BOOLEAN
    /\ parts \in [Envs -> SUBSET Parts] /\ outdated \subseteq Envs
    /\ ctl \in [Envs -> {"idle", "admitted", "created"}]

\* What a pass has established of the status it read, at the step it has come to.
PassStanding ==
    LET st == iso.seen.status
    IN  /\ iso.step \in {"resolve", "compare"} =>
             /\ iso.seen.sel \in {"restricted", "invalid"}
             /\ st.sel = Observed /\ st.state \in {"Fencing", "Blocked"}
        /\ iso.step \in {"list", "probe"} =>
             \/ iso.seen.sel \in {"none", "dev"} /\ st.state = "Fencing"
             \/ /\ iso.seen.sel \in {"restricted", "invalid"} /\ st.sel = Observed
                /\ st.state = "Fencing" \/ (st.state = "Blocked" /\ SameAuthority(st))

\* While its read is current a pass has seen the Installation as it is, and what is left
\* from before the fence is among the Environments it has still to look up.
PassCurrent ==
    isoFresh => install = iso.seen /\ (iso.step = "probe" => outdated \subseteq iso.left)

\* Something is left from before a fence only while the fence is published.
FenceStanding ==
    /\ install.status.state # "Fencing" => outdated = {}
    /\ \A e \in outdated : parts[e] # {}

\* A Pod that is yet to be checked has not been published.
PartsStanding ==
    /\ ConnectionHasPod
    /\ \A e \in Envs : ctl[e] = "created" => "conn" \notin parts[e]

\* What stands in every reachable state of InstallationIsolation.
IsoInductive == IsoTyped /\ PassStanding /\ PassCurrent /\ FenceStanding /\ PartsStanding

\* A status a pass may publish: if what it read is still current it is no end of a fence
\* with something left, and no other authority without a fence.
Publishable(st) ==
    LET a == iso.seen.status
    IN  /\ st \in IsoStatuses
        /\ isoFresh =>
             /\ st.state # "Fencing" => outdated = {}
             /\ a.state \in {"Active", "Blocked"} /\ st.state # "Fencing" =>
                    st.state = a.state /\ st.deps = a.deps /\ st.sel = a.sel
             /\ a.state = "Legacy" => st.state \in {"Legacy", "Active", "Fencing"}

\* A step of a pass that publishes nothing.
QuietPass ==
    /\ UNCHANGED <<install, outdated>> /\ iso' \in IsoPasses /\ isoFresh' \in BOOLEAN
    /\ PassStanding' /\ PassCurrent'

\* The statuses a pass computes have the type of a status.
LEMMA StatusesTyped ==
    ASSUME IsoTyped
    PROVE  /\ \A s \in IsoStates, x \in Selections \cup {"none", "dev"}, d \in 0 .. 2 : Status(s, x, d) \in IsoStatuses
           /\ Observed \in Selections \cup {"none", "dev"} /\ NoDeps \in 0 .. 2
           /\ iso.deps \in 0 .. 2 /\ iso.seen.status \in IsoStatuses
  BY DEF IsoTyped, IsoPasses, IsoStatuses, Status, Observed, NoDeps

\* Opening and closing statuses: their states, and their types.
LEMMA OpenAndClosing ==
    ASSUME IsoTyped, NEW sel \in {"none", "dev"}
    PROVE  /\ Open(sel) \in IsoStatuses /\ Closing(sel) \in IsoStatuses /\ Closing(sel).state = "Fencing"
           /\ sel = "dev" => Open(sel).state = "Active" /\ Open(sel).sel = "dev" /\ Open(sel).deps = NoDeps
           /\ sel = "none" => Open(sel).state = "Legacy"
<1>1. "Active" \in IsoStates /\ "Legacy" \in IsoStates /\ "Fencing" \in IsoStates
  BY Zenon DEF IsoStates
<1>2. "dev" \in Selections \cup {"none", "dev"} /\ "none" \in Selections \cup {"none", "dev"}
  OBVIOUS
<1> QED
  BY Zenon, <1>1, <1>2, StatusesTyped DEF Open, Closing, Status

\* Every step of a pass publishes a status it may publish, or publishes nothing
\* (reconcileLegacySelection, reconcileUnrestrictedSelection, reconcileBlockedSelection).
LEMMA PassSteps ==
    ASSUME IsoInductive, IsoStep
    PROVE  /\ UNCHANGED <<deps, changes, parts, ctl>>
           /\ QuietPass \/ \E st : Publishable(st) /\ Publish(st)
<1> USE DEF IsoInductive
<1>t. /\ IsoTyped /\ PassStanding /\ PassCurrent /\ FenceStanding
      /\ iso.seen.status \in IsoStatuses /\ iso \in IsoPasses /\ isoFresh \in BOOLEAN
      /\ "Fencing" \in IsoStates /\ "Blocked" \in IsoStates
  BY Zenon, StatusesTyped DEF IsoTyped, IsoStates
<1>d. UNCHANGED <<deps, changes, parts, ctl>>
  BY Zenon DEF IsoStep, IsoRead, DecideOpen, DecideClosed, Resolve, Compare, ListEnvironments, Settle, Probe
<1>f. ASSUME NEW st \in IsoStatuses, st.state = "Fencing" PROVE Publishable(st)
  BY Zenon, <1>f DEF Publishable
<1>s. ASSUME iso.step \in {"list", "probe"} PROVE Settled(FALSE) \in IsoStatuses /\ Settled(FALSE).state = "Fencing"
  <2>1. CASE iso.seen.sel \in {"none", "dev"}
    BY Zenon, <1>s, <1>t, <2>1 DEF Settled, PassStanding
  <2>2. CASE iso.seen.sel \notin {"none", "dev"}
    <3>1. Settled(FALSE) = Status("Fencing", Observed, iso.deps)
      BY Zenon, <2>2 DEF Settled
    <3>2. Status("Fencing", Observed, iso.deps).state = "Fencing"
      BY Zenon DEF Status
    <3> QED
      BY Zenon, <3>1, <3>2, <1>t, StatusesTyped
  <2> QED
    BY Zenon, <2>1, <2>2
<1>1. CASE IsoRead
  <2>1. iso' = [IdleIso EXCEPT !.step = "decide", !.seen = install] /\ isoFresh' = TRUE /\ UNCHANGED <<install, outdated>>
    BY Zenon, <1>1 DEF IsoRead
  <2>a. install \in [sel : Selections \cup {"none"}, gen : Nat, status : IsoStatuses]
    BY Zenon, <1>t DEF IsoTyped
  <2>b. iso' = [step |-> "decide", seen |-> install, deps |-> 0, left |-> {}]
    BY Zenon, <2>1 DEF IdleIso, NoDeps
  <2>2. iso' \in IsoPasses /\ iso'.step = "decide" /\ iso'.seen = install
    BY <2>a, <2>b DEF IsoPasses
  <2> QED
    BY Zenon, <2>1, <2>2, <1>d DEF QuietPass, PassStanding, PassCurrent
<1>2. CASE DecideOpen
  <2> DEFINE st == iso.seen.status
             sel == iso.seen.sel
  <2>1. sel \in {"none", "dev"} /\ iso.step = "decide"
    BY Zenon, <1>2 DEF DecideOpen
  <2>2. CASE NoFenceNeeded(st, sel)
    <3>1. Publish(Open(sel))
      BY Zenon, <1>2, <2>2 DEF DecideOpen
    <3>2. isoFresh => outdated = {}
      BY Zenon, <2>2, <1>t DEF NoFenceNeeded, LegacyCompatible, Unrestricted, PassCurrent, FenceStanding
    <3>3. Open(sel) \in IsoStatuses
      BY Zenon, <2>1, <1>t, OpenAndClosing
    <3>4. Publishable(Open(sel))
      BY Zenon, <2>1, <2>2, <3>2, <3>3, <1>t, OpenAndClosing
         DEF Publishable, NoFenceNeeded, LegacyCompatible, Unrestricted
    <3> QED
      BY Zenon, <3>1, <3>4, <1>d
  <2>3. CASE ~NoFenceNeeded(st, sel) /\ st # Closing(sel)
    <3>1. Publish(Closing(sel))
      BY Zenon, <1>2, <2>3 DEF DecideOpen
    <3> QED
      BY Zenon, <3>1, <1>d, <1>f, <1>t, <2>1, OpenAndClosing
  <2>4. CASE ~NoFenceNeeded(st, sel) /\ st = Closing(sel)
    <3>1. iso' = [iso EXCEPT !.step = "list"] /\ UNCHANGED <<install, outdated, isoFresh>>
      BY Zenon, <1>2, <2>4 DEF DecideOpen
    <3>2. iso' \in IsoPasses /\ iso'.step = "list" /\ iso'.seen = iso.seen
      BY Zenon, <3>1, <1>t DEF IsoPasses
    <3>3. st.state = "Fencing"
      BY Zenon, <2>4, <2>1, <1>t, OpenAndClosing
    <3> QED
      BY Zenon, <3>1, <3>2, <3>3, <2>1, <1>d, <1>t DEF QuietPass, PassStanding, PassCurrent
  <2> QED
    BY Zenon, <2>2, <2>3, <2>4
<1>3. CASE DecideClosed
  <2> DEFINE st == iso.seen.status
  <2>1. iso.seen.sel \in {"restricted", "invalid"} /\ iso.step = "decide"
    BY Zenon, <1>3 DEF DecideClosed
  <2>2. CASE st.sel # Observed \/ st.state \notin {"Fencing", "Blocked"}
    <3>1. Publish(Status("Fencing", Observed, NoDeps))
      BY Zenon, <1>3, <2>2 DEF DecideClosed
    <3>2. Status("Fencing", Observed, NoDeps).state = "Fencing" /\ Status("Fencing", Observed, NoDeps) \in IsoStatuses
      BY Zenon, <1>t, StatusesTyped DEF Status
    <3> QED
      BY Zenon, <3>1, <3>2, <1>d, <1>f
  <2>3. CASE ~(st.sel # Observed \/ st.state \notin {"Fencing", "Blocked"})
    <3>1. iso' = [iso EXCEPT !.step = IF iso.seen.sel = "restricted" THEN "resolve" ELSE "compare"]
          /\ UNCHANGED <<install, outdated, isoFresh>>
      BY Zenon, <1>3, <2>3 DEF DecideClosed
    <3>2. iso' \in IsoPasses /\ iso'.step \in {"resolve", "compare"} /\ iso'.seen = iso.seen
      BY Zenon, <3>1, <1>t DEF IsoPasses
    <3> QED
      BY Zenon, <3>1, <3>2, <2>1, <2>3, <1>d, <1>t DEF QuietPass, PassStanding, PassCurrent, Observed
  <2> QED
    BY Zenon, <2>2, <2>3
<1>4. CASE Resolve
  <2>1. iso.step = "resolve" /\ UNCHANGED <<install, outdated, isoFresh>>
        /\ (iso' = [iso EXCEPT !.step = "compare", !.deps = deps] \/ iso' = [iso EXCEPT !.step = "compare"])
    BY Zenon, <1>4 DEF Resolve
  <2>2. iso' \in IsoPasses /\ iso'.step = "compare" /\ iso'.seen = iso.seen
    BY Zenon, <2>1, <1>t DEF IsoPasses, IsoTyped
  <2> QED
    BY Zenon, <2>1, <2>2, <1>d, <1>t DEF QuietPass, PassStanding, PassCurrent, Observed
<1>5. CASE Compare
  <2> DEFINE st == iso.seen.status
  <2>1. iso.step = "compare"
    BY Zenon, <1>5 DEF Compare
  <2>2. CASE st.state = "Blocked" /\ ~SameAuthority(st)
    <3>1. Publish(Status("Fencing", Observed, iso.deps))
      BY Zenon, <1>5, <2>2 DEF Compare
    <3>2. Status("Fencing", Observed, iso.deps).state = "Fencing" /\ Status("Fencing", Observed, iso.deps) \in IsoStatuses
      BY Zenon, <1>t, StatusesTyped DEF Status
    <3> QED
      BY Zenon, <3>1, <3>2, <1>d, <1>f
  <2>3. CASE ~(st.state = "Blocked" /\ ~SameAuthority(st))
    <3>1. iso' = [iso EXCEPT !.step = "list"] /\ UNCHANGED <<install, outdated, isoFresh>>
      BY Zenon, <1>5, <2>3 DEF Compare
    <3>2. iso' \in IsoPasses /\ iso'.step = "list" /\ iso'.seen = iso.seen /\ iso'.deps = iso.deps
      BY Zenon, <3>1, <1>t DEF IsoPasses
    <3> QED
      BY Zenon, <3>1, <3>2, <2>1, <2>3, <1>d, <1>t DEF QuietPass, PassStanding, PassCurrent, Observed, SameAuthority
  <2> QED
    BY Zenon, <2>2, <2>3
<1>6. CASE ListEnvironments
  <2>1. iso.step = "list"
    BY Zenon, <1>6 DEF ListEnvironments
  <2>2. CASE Publish(Settled(FALSE))
    BY Zenon, <2>1, <2>2, <1>s, <1>f, <1>d
  <2>3. CASE iso' = [iso EXCEPT !.step = "probe", !.left = Envs] /\ UNCHANGED <<install, outdated, isoFresh>>
    <3>1. iso' \in IsoPasses /\ iso'.step = "probe" /\ iso'.seen = iso.seen /\ iso'.deps = iso.deps /\ iso'.left = Envs
      BY Zenon, <2>3, <1>t DEF IsoPasses
    <3> QED
      BY Zenon, <3>1, <2>1, <2>3, <1>d, <1>t DEF QuietPass, PassStanding, PassCurrent, Observed, SameAuthority, IsoTyped
  <2> QED
    BY Zenon, <1>6, <2>2, <2>3 DEF ListEnvironments
<1>7. CASE Settle
  <2>1. iso.step = "probe" /\ iso.left = {} /\ Publish(Settled(TRUE))
    BY Zenon, <1>7 DEF Settle
  <2>2. isoFresh => outdated = {}
    BY Zenon, <2>1, <1>t DEF PassCurrent
  <2>3. CASE iso.seen.sel \in {"none", "dev"}
    <3>1. Settled(TRUE) = Open(iso.seen.sel) /\ iso.seen.status.state = "Fencing"
      BY Zenon, <2>1, <2>3, <1>t DEF Settled, PassStanding
    <3> QED
      BY Zenon, <3>1, <2>1, <2>2, <2>3, <1>d, <1>t, OpenAndClosing DEF Publishable
  <2>4. CASE iso.seen.sel \notin {"none", "dev"}
    <3>1. Settled(TRUE) = Status("Blocked", Observed, iso.deps)
      BY Zenon, <2>4 DEF Settled
    <3>2. /\ Settled(TRUE).state = "Blocked" /\ Settled(TRUE).sel = Observed /\ Settled(TRUE).deps = iso.deps
          /\ Settled(TRUE) \in IsoStatuses
      <4>1. Status("Blocked", Observed, iso.deps) \in IsoStatuses
        BY Zenon, <1>t, StatusesTyped
      <4>2. LET x == Status("Blocked", Observed, iso.deps)
            IN  x.state = "Blocked" /\ x.sel = Observed /\ x.deps = iso.deps
        BY Zenon DEF Status
      <4> QED
        BY Zenon, <3>1, <4>1, <4>2
    <3>3. Publishable(Settled(TRUE))
      BY Zenon, <3>2, <2>1, <2>2, <2>4, <1>t DEF Publishable, PassStanding, SameAuthority
    <3> QED
      BY Zenon, <3>3, <2>1, <1>d
  <2> QED
    BY Zenon, <2>3, <2>4
<1>8. CASE \E e \in Envs : Probe(e)
  <2>1. PICK e \in Envs : Probe(e)
    BY Zenon, <1>8
  <2>2. iso.step = "probe"
    BY Zenon, <2>1 DEF Probe
  <2>3. CASE ProbeFinds(e)
    BY Zenon, <2>1, <2>2, <2>3, <1>s, <1>f, <1>d DEF Probe
  <2>4. CASE ~ProbeFinds(e)
    <3>1. iso' = [iso EXCEPT !.left = iso.left \ {e}] /\ UNCHANGED <<install, outdated, isoFresh>>
      BY Zenon, <2>1, <2>4 DEF Probe
    <3>2. /\ iso' \in IsoPasses /\ iso'.step = "probe" /\ iso'.seen = iso.seen /\ iso'.deps = iso.deps
          /\ iso'.left = iso.left \ {e}
      BY Zenon, <3>1, <2>2, <1>t DEF IsoPasses
    <3>3. e \notin outdated
      BY Zenon, <2>4, <1>t DEF ProbeFinds, FenceStanding
    <3> QED
      BY Zenon, <3>1, <3>2, <3>3, <2>2, <1>d, <1>t DEF QuietPass, PassStanding, PassCurrent, Observed, SameAuthority
  <2> QED
    BY Zenon, <2>3, <2>4
<1> QED
  BY Zenon, <1>1, <1>2, <1>3, <1>4, <1>5, <1>6, <1>7, <1>8 DEF IsoStep

\* A published status keeps the invariant, and changes the authority only as it may.
LEMMA PublishKeeps ==
    ASSUME IsoInductive, NEW st, Publishable(st), Publish(st), UNCHANGED <<deps, parts, ctl>>
    PROVE  IsoInductive' /\ AuthorityThroughFencingStep
<1>t. /\ IsoTyped /\ PassCurrent /\ FenceStanding /\ PartsStanding /\ st \in IsoStatuses
      /\ iso' = IdleIso /\ isoFresh' = FALSE
  BY Zenon DEF IsoInductive, Publishable, Publish
<1>1. IdleIso \in IsoPasses /\ IdleIso.step = "idle"
  BY DEF IdleIso, IsoPasses, NoStatus, NoDeps, IsoStatuses, IsoStates
<1>2. PassStanding' /\ PassCurrent'
  BY Zenon, <1>t, <1>1 DEF PassStanding, PassCurrent
<1>3. PartsStanding'
  BY Zenon, <1>t DEF PartsStanding, ConnectionHasPod
<1>4. CASE isoFresh
  <2>1. install' = [install EXCEPT !.status = st] /\ install = iso.seen
        /\ (outdated' = outdated \/ (outdated' = {e \in Envs : parts[e] # {}} /\ st.state = "Fencing"))
    BY Zenon, <1>4, <1>t DEF Publish, PassCurrent
  <2>2. install'.status = st /\ install' \in [sel : Selections, gen : Nat, status : IsoStatuses]
    BY Zenon, <2>1, <1>t DEF IsoTyped
  <2>3. FenceStanding'
    BY Zenon, <2>1, <2>2, <1>t, <1>4 DEF FenceStanding, Publishable
  <2>4. IsoTyped'
    BY Zenon, <1>t, <1>1, <2>1, <2>2 DEF IsoTyped
  <2>5. AuthorityThroughFencingStep
    BY Zenon, <2>1, <2>2, <1>4 DEF AuthorityThroughFencingStep, Publishable
  <2> QED
    BY Zenon, <2>3, <2>4, <2>5, <1>2, <1>3 DEF IsoInductive
<1>5. CASE ~isoFresh
  <2>1. install' = install /\ outdated' = outdated
    BY Zenon, <1>5, <1>t DEF Publish, IsoTyped
  <2>2. FenceStanding' /\ IsoTyped'
    BY Zenon, <2>1, <1>t, <1>1 DEF FenceStanding, IsoTyped
  <2>3. AuthorityThroughFencingStep
    BY Zenon, <2>1 DEF AuthorityThroughFencingStep
  <2> QED
    BY Zenon, <2>2, <2>3, <1>2, <1>3 DEF IsoInductive
<1> QED
  BY Zenon, <1>4, <1>5, <1>t DEF IsoTyped

\* An Environment's step writes its own parts, and forgets what is gone.
LEMMA PartsWritten ==
    ASSUME IsoInductive, NEW e \in Envs, NEW p \in SUBSET Parts, parts' = [parts EXCEPT ![e] = p],
           NEW c \in {"idle", "admitted", "created"}, ctl' = [ctl EXCEPT ![e] = c], EnvUnchanged,
           \/ outdated' = outdated /\ parts[e] \subseteq p
           \/ outdated' = {i \in outdated : parts'[i] # {}},
           "conn" \in p => "pod" \in p /\ c # "created"
    PROVE  IsoInductive'
<1>t. /\ IsoTyped /\ PassStanding /\ PassCurrent /\ FenceStanding /\ PartsStanding
      /\ UNCHANGED <<install, deps, iso, isoFresh>>
  BY Zenon DEF IsoInductive, EnvUnchanged
<1>1. /\ parts' \in [Envs -> SUBSET Parts] /\ ctl' \in [Envs -> {"idle", "admitted", "created"}]
      /\ parts'[e] = p /\ ctl'[e] = c
      /\ \A i \in Envs \ {e} : parts'[i] = parts[i] /\ ctl'[i] = ctl[i]
  BY Zenon, <1>t DEF IsoTyped
<1>2. outdated' \subseteq outdated
  OBVIOUS
<1>3. IsoTyped'
  BY Zenon, <1>1, <1>2, <1>t DEF IsoTyped
<1>4. PartsStanding'
  BY Zenon, <1>1, <1>t DEF PartsStanding, ConnectionHasPod
<1>5. \A i \in outdated' : parts'[i] # {}
  BY <1>1, <1>2, <1>t DEF FenceStanding, IsoTyped
<1>6. FenceStanding'
  BY Zenon, <1>2, <1>5, <1>t DEF FenceStanding
<1>7. PassStanding' /\ PassCurrent'
  BY Zenon, <1>2, <1>t DEF PassStanding, PassCurrent, Observed, SameAuthority
<1> QED
  BY Zenon, <1>3, <1>4, <1>6, <1>7 DEF IsoInductive

\* The Environments keep the invariant: a Pod is published, or deleted as too late, only
\* by a reconcile that found it in that state (reconcileRunning).
LEMMA EnvironmentKeeps ==
    ASSUME IsoInductive, NEW e \in Envs, EnvStep(e)
    PROVE  IsoInductive' /\ install' = install
<1>t. /\ IsoTyped /\ PartsStanding /\ parts[e] \in SUBSET Parts /\ ctl \in [Envs -> {"idle", "admitted", "created"}]
      /\ parts \in [Envs -> SUBSET Parts] /\ ("conn" \in parts[e] => "pod" \in parts[e])
      /\ (ctl[e] = "created" => "conn" \notin parts[e])
  BY Zenon DEF IsoInductive, IsoTyped, PartsStanding, ConnectionHasPod
<1>i. install' = install
  BY Zenon DEF EnvStep, EnvAdmits, EnvCreates, EnvRechecks, EnvPublishes, EnvFences, EnvUnchanged
<1>1. CASE EnvAdmits(e)
  <2>1. parts' = [parts EXCEPT ![e] = parts[e]] /\ ctl' = [ctl EXCEPT ![e] = "admitted"] /\ outdated' = outdated /\ EnvUnchanged
    BY Zenon, <1>1, <1>t DEF EnvAdmits
  <2> QED
    BY Zenon, <2>1, <1>t, <1>i, PartsWritten
<1>2. CASE EnvCreates(e)
  <2>1. "conn" \notin parts[e] /\ outdated' = outdated /\ EnvUnchanged
    BY Zenon, <1>2, <1>t DEF EnvCreates
  <2>2. CASE "cred" \notin parts[e]
    <3> DEFINE p == parts[e] \cup {"cred"}
    <3>1. parts' = [parts EXCEPT ![e] = p] /\ ctl' = [ctl EXCEPT ![e] = "idle"]
      BY Zenon, <1>2, <2>2 DEF EnvCreates
    <3>2. p \in SUBSET Parts /\ parts[e] \subseteq p /\ "conn" \notin p
      BY Zenon, <1>t, <2>1 DEF Parts
    <3> QED
      BY Zenon, <2>1, <3>1, <3>2, <1>i, PartsWritten
  <2>3. CASE "cred" \in parts[e]
    <3> DEFINE p == parts[e] \cup {"pod"}
    <3>1. parts' = [parts EXCEPT ![e] = p] /\ ctl' = [ctl EXCEPT ![e] = "created"]
      BY Zenon, <1>2, <2>3 DEF EnvCreates
    <3>2. p \in SUBSET Parts /\ parts[e] \subseteq p /\ "conn" \notin p
      BY Zenon, <1>t, <2>1 DEF Parts
    <3> QED
      BY Zenon, <2>1, <3>1, <3>2, <1>i, PartsWritten
  <2> QED
    BY Zenon, <2>2, <2>3
<1>3. CASE EnvRechecks(e)
  <2>1. /\ ctl[e] = "created" /\ ctl' = [ctl EXCEPT ![e] = "idle"] /\ EnvUnchanged
        /\ outdated' = {i \in outdated : parts'[i] # {}}
    BY Zenon, <1>3 DEF EnvRechecks
  <2> DEFINE p == IF Allowed(install) THEN parts[e] ELSE parts[e] \ {"pod"}
  <2>2. parts' = [parts EXCEPT ![e] = p]
    BY Zenon, <1>3, <1>t DEF EnvRechecks
  <2>3. p \in SUBSET Parts /\ "conn" \notin p
    BY Zenon, <1>t, <2>1
  <2> QED
    BY Zenon, <2>1, <2>2, <2>3, <1>i, PartsWritten
<1>4. CASE EnvPublishes(e)
  <2> DEFINE p == parts[e] \cup {"conn"}
  <2>1. /\ parts' = [parts EXCEPT ![e] = p] /\ ctl' = [ctl EXCEPT ![e] = "idle"] /\ EnvUnchanged
        /\ outdated' = {i \in outdated : parts'[i] # {}} /\ "pod" \in p
    BY Zenon, <1>4 DEF EnvPublishes
  <2>2. p \in SUBSET Parts
    BY Zenon, <1>t DEF Parts
  <2> QED
    BY Zenon, <2>1, <2>2, <1>i, PartsWritten
<1>5. CASE EnvFences(e)
  <2> DEFINE p == parts[e] \ (IF "conn" \in parts[e] THEN {"conn"} ELSE IF "pod" \in parts[e] THEN {"pod"} ELSE {"cred"})
  <2>1. /\ parts' = [parts EXCEPT ![e] = p] /\ ctl' = [ctl EXCEPT ![e] = "idle"] /\ EnvUnchanged
        /\ outdated' = {i \in outdated : parts'[i] # {}}
    BY Zenon, <1>5, <1>t DEF EnvFences
  <2>2. p \in SUBSET Parts /\ "conn" \notin p
    BY Zenon, <1>t
  <2> QED
    BY Zenon, <2>1, <2>2, <1>i, PartsWritten
<1> QED
  BY Zenon, <1>1, <1>2, <1>3, <1>4, <1>5 DEF EnvStep

\* Every step keeps the invariant, and replaces an established authority only through a
\* published fence.
LEMMA IsolationStep ==
    ASSUME IsoInductive, [IsoNext]_isoVars
    PROVE  IsoInductive' /\ AuthorityThroughFencingStep
<1>q. ASSUME install' = install PROVE AuthorityThroughFencingStep
  BY Zenon, <1>q DEF AuthorityThroughFencingStep
<1>1. CASE IsoStep
  <2>1. CASE QuietPass
    <3>1. IsoTyped' /\ FenceStanding' /\ PartsStanding' /\ install' = install
      BY Zenon, <1>1, <2>1, PassSteps DEF IsoInductive, IsoTyped, QuietPass, FenceStanding, PartsStanding, ConnectionHasPod
    <3> QED
      BY Zenon, <3>1, <2>1, <1>q DEF IsoInductive, QuietPass
  <2>2. CASE \E st : Publishable(st) /\ Publish(st)
    <3>1. PICK st : Publishable(st) /\ Publish(st)
      BY Zenon, <2>2
    <3> QED
      BY Zenon, <3>1, <1>1, PassSteps, PublishKeeps
  <2> QED
    BY Zenon, <1>1, <2>1, <2>2, PassSteps
<1>2. CASE DependencyChanges
  <2>1. deps' \in 0 .. 2 /\ UNCHANGED <<install, iso, isoFresh, parts, outdated, ctl>>
    BY <1>2 DEF DependencyChanges, NoDeps
  <2>2. IsoTyped' /\ FenceStanding' /\ PartsStanding'
    BY Zenon, <2>1 DEF IsoInductive, IsoTyped, FenceStanding, PartsStanding, ConnectionHasPod
  <2>3. PassStanding' /\ PassCurrent'
    BY Zenon, <2>1 DEF IsoInductive, PassStanding, PassCurrent, Observed, SameAuthority
  <2> QED
    BY Zenon, <2>1, <2>2, <2>3, <1>q DEF IsoInductive
<1>3. CASE \E e \in Envs : EnvStep(e)
  BY Zenon, <1>3, EnvironmentKeeps, <1>q
<1>4. CASE \E s \in Selections : Select(s)
  <2>1. PICK s \in Selections : Select(s)
    BY Zenon, <1>4
  <2>2. /\ install' = [install EXCEPT !.sel = s, !.gen = install.gen + 1] /\ isoFresh' = FALSE
        /\ UNCHANGED <<deps, iso, parts, outdated, ctl>>
    BY Zenon, <2>1 DEF Select
  <2>3. install' \in [sel : Selections, gen : Nat, status : IsoStatuses] /\ install'.status = install.status
    <3>1. install \in [sel : Selections, gen : Nat, status : IsoStatuses]
      BY Zenon DEF IsoInductive, IsoTyped
    <3>2. install.gen + 1 \in Nat
      BY <3>1
    <3>3. install' \in [sel : Selections, gen : Nat, status : IsoStatuses]
      BY Zenon, <2>2, <3>1, <3>2
    <3>4. install'.status = install.status
      BY Zenon, <2>2, <3>1
    <3> QED
      BY Zenon, <3>3, <3>4
  <2>4. IsoTyped' /\ FenceStanding' /\ PartsStanding'
    BY Zenon, <2>2, <2>3 DEF IsoInductive, IsoTyped, FenceStanding, PartsStanding, ConnectionHasPod
  <2>5. PassStanding' /\ PassCurrent'
    BY Zenon, <2>2 DEF IsoInductive, PassStanding, PassCurrent, Observed, SameAuthority
  <2>6. AuthorityThroughFencingStep
    BY Zenon, <2>3 DEF AuthorityThroughFencingStep
  <2> QED
    BY Zenon, <2>4, <2>5, <2>6 DEF IsoInductive
<1>5. CASE UNCHANGED isoVars
  <2>1. UNCHANGED <<install, deps, iso, isoFresh, parts, outdated, ctl>>
    BY Zenon, <1>5 DEF isoVars
  <2>2. IsoTyped' /\ FenceStanding' /\ PartsStanding'
    BY Zenon, <2>1 DEF IsoInductive, IsoTyped, FenceStanding, PartsStanding, ConnectionHasPod
  <2>3. PassStanding' /\ PassCurrent'
    BY Zenon, <2>1 DEF IsoInductive, PassStanding, PassCurrent, Observed, SameAuthority
  <2> QED
    BY Zenon, <2>1, <2>2, <2>3, <1>q DEF IsoInductive
<1> QED
  BY Zenon, <1>1, <1>2, <1>3, <1>4, <1>5 DEF IsoNext

\* The isolation controller's inductive invariant holds in every reachable state, whatever
\* the Environments, the selections and the number of changes.
THEOREM IsolationIsInductive == IsoSpec => []IsoInductive
<1>1. IsoInit => IsoInductive
  <2> SUFFICES ASSUME IsoInit PROVE IsoInductive
    OBVIOUS
  <2>1. PICK s \in Selections \cap {"none", "dev"} : install = [sel |-> s, gen |-> 1, status |-> NoStatus]
    BY Zenon DEF IsoInit
  <2>2. NoStatus \in IsoStatuses /\ NoStatus.state = "unset"
    BY DEF NoStatus, NoDeps, IsoStatuses, IsoStates
  <2>3. IdleIso \in IsoPasses /\ IdleIso.step = "idle"
    BY <2>2 DEF IdleIso, IsoPasses, NoDeps
  <2>a. install \in [sel : Selections, gen : Nat, status : IsoStatuses]
    BY Zenon, <2>1, <2>2
  <2>b. deps \in 0 .. 2 /\ iso \in IsoPasses /\ isoFresh \in BOOLEAN /\ outdated \subseteq Envs
    <3>1. deps = 1 /\ iso = IdleIso /\ isoFresh = FALSE /\ outdated = {}
      BY Zenon DEF IsoInit
    <3>2. deps \in 0 .. 2
      BY <3>1
    <3>3. iso \in IsoPasses /\ isoFresh \in BOOLEAN /\ outdated \subseteq Envs
      BY Zenon, <2>3, <3>1
    <3> QED
      BY Zenon, <3>2, <3>3
  <2>c. parts \in [Envs -> SUBSET Parts] /\ ctl \in [Envs -> {"idle", "admitted", "created"}]
    BY Zenon DEF IsoInit
  <2>4. IsoTyped
    BY Zenon, <2>a, <2>b, <2>c DEF IsoTyped
  <2>5. PassStanding /\ PassCurrent
    BY Zenon, <2>3 DEF IsoInit, PassStanding, PassCurrent
  <2>6. FenceStanding /\ PartsStanding
    BY Zenon DEF IsoInit, FenceStanding, PartsStanding, ConnectionHasPod
  <2> QED
    BY Zenon, <2>4, <2>5, <2>6 DEF IsoInductive
<1>2. IsoInductive /\ [IsoNext]_isoVars => IsoInductive'
  BY Zenon, IsolationStep
<1> QED
  BY <1>1, <1>2, PTL DEF IsoSpec

\* For every set of Environments and selections: what was running when a fence was published
\* is gone before execution reopens or the fence is called complete, nothing is published
\* for a Pod that is not there, and no established authority is replaced without a fence
\* (InstallationIsolationReconciler, allEnvironmentExecutionsFenced).
THEOREM IsolationIsCorrect == IsoSpec => IsoCorrect
<1>1. IsoInductive => IsoTypeOK /\ FencedBeforeSettled /\ ConnectionHasPod
  <2> SUFFICES ASSUME IsoInductive PROVE IsoTypeOK /\ FencedBeforeSettled /\ ConnectionHasPod
    OBVIOUS
  <2>1. IsoTypeOK
    BY Zenon DEF IsoInductive, IsoTyped, IsoTypeOK, IsoStatuses, Parts
  <2>2. FencedBeforeSettled /\ ConnectionHasPod
    BY Zenon DEF IsoInductive, FenceStanding, PartsStanding, FencedBeforeSettled
  <2> QED
    BY Zenon, <2>1, <2>2
<1>2. IsoInductive /\ [IsoNext]_isoVars => [AuthorityThroughFencingStep]_isoVars
  BY Zenon, IsolationStep
<1> QED
  BY <1>1, <1>2, IsolationIsInductive, PTL DEF IsoSpec, IsoCorrect, AuthorityThroughFencing

(* ---- the namespace claim ---------------------------------------------- *)

\* The claim of a namespace, what the commands and the workers keep of it, and the types of the
\* state.
Claims == [life : Lifecycles, project : 0 .. MaxProjects]
OnboardSteps == {"project", "pin", "begin", "sync", "activate"}
OffboardSteps == {"scan", "envs", "pods", "hold"}
CommandRecords ==
    [step : {"idle", "fence", "done"} \cup OnboardSteps \cup OffboardSteps,
     saw : Claims, lease : Claims, spaces : SUBSET Spaces, drained : BOOLEAN]
WorkerWrites == {"none", "hold", "suspend", "suspendIdle", "resume", "createPod", "deletePod"}
WorkerRecords ==
    [step : {"idle", "authorize", "write", "check", "undo", "undoing"}, lease : Claims, fence : BOOLEAN, write : WorkerWrites]
SpaceRecords == [exists : BOOLEAN, hold : BOOLEAN, suspended : BOOLEAN]

TenancyTyped ==
    /\ claim \in Claims /\ project \in 0 .. MaxProjects /\ projects \in 0 .. MaxProjects
    /\ cmd \in [CliCommands -> CommandRecords] /\ space \in [Spaces -> SpaceRecords]
    /\ spaceHeld \in [Spaces -> SUBSET (CliCommands \cup {"operator"})] /\ spacePods \subseteq Spaces
    /\ tenancyWorker \in [Spaces -> WorkerRecords]
    /\ job \in [Jobs -> {"absent", "live", "ended"}] /\ early \subseteq Jobs

\* The Environment's reconcile is about to create a Pod.
Creating(e) == tenancyWorker[e].write = "createPod" /\ tenancyWorker[e].step \in {"authorize", "write"}
\* No reconcile is about to create a Pod, and the Runs that were there before the claim was
\* withdrawn have ended: what offboarding waits for.
NoneCreating == \A e \in Spaces : ~Creating(e)
EarlyEnded == \A r \in early : job[r] = "ended"
Leaving == claim.life \in {"offboarding", "fenced"}

\* What a command has established at the step it has come to: an onboarding command saw
\* the claim before the fence, an offboarding one after it, and what an offboarding round
\* has found drained so far stays so.
CommandStanding(c) ==
    /\ cmd[c].step \in OnboardSteps => cmd[c].saw.life \in {"onboarding", "active"}
    /\ cmd[c].step = "pin" => cmd[c].saw.project \in {0, cmd[c].lease.project}
    /\ cmd[c].step = "fence" => cmd[c].saw.life = "active"
    /\ cmd[c].step \in OffboardSteps => cmd[c].saw.life = "offboarding" /\ Leaving
    /\ cmd[c].drained =>
         /\ cmd[c].step \in {"envs", "pods", "hold"} => EarlyEnded
         /\ cmd[c].step \in {"pods", "hold"} => NoneCreating
         /\ cmd[c].step = "hold" => spacePods = {}

\* A reconcile that is about to create a Pod found its Environment running, and no one
\* else suspends it.
WorkersStanding == \A e \in Spaces : Creating(e) => space[e].exists /\ ~space[e].suspended

\* What a claim that was withdrawn, or fenced, leaves behind.
EarlyStanding == \A r \in early : job[r] # "absent"

FencedStanding == claim.life = "fenced" => spacePods = {} /\ NoneCreating /\ EarlyEnded

\* What stands in every reachable state of ProjectTenancy.
TenancyInductive ==
    /\ TenancyTyped /\ WorkersStanding /\ EarlyStanding /\ FencedStanding
    /\ \A c \in CliCommands : CommandStanding(c)

\* The claims, commands and workers the code starts from have their types.
LEMMA TenancyRecords ==
    /\ NoClaim \in Claims /\ IdleCommand \in CommandRecords /\ IdleTenancyWorker \in WorkerRecords
    /\ NewSpace \in SpaceRecords /\ NoSpace \in SpaceRecords
    /\ IdleCommand.step = "idle" /\ IdleTenancyWorker.step = "idle"
<1>1. NoClaim \in Claims
  BY TenancyAssumption DEF NoClaim, Claims, Lifecycles
<1>2. IdleCommand \in CommandRecords /\ IdleCommand.step = "idle"
  BY Zenon, <1>1 DEF IdleCommand, CommandRecords
<1>3. IdleTenancyWorker \in WorkerRecords /\ IdleTenancyWorker.step = "idle"
  BY Zenon, <1>1 DEF IdleTenancyWorker, WorkerRecords, WorkerWrites
<1> QED
  BY Zenon, <1>1, <1>2, <1>3 DEF NewSpace, NoSpace, SpaceRecords

\* A claim that is rewritten in one field is a claim.
LEMMA ClaimRecords ==
    ASSUME NEW k \in Claims
    PROVE  /\ \A l \in Lifecycles : [k EXCEPT !.life = l] \in Claims /\ [k EXCEPT !.life = l].life = l
                                    /\ [k EXCEPT !.life = l].project = k.project
           /\ \A p \in 0 .. MaxProjects : [k EXCEPT !.project = p] \in Claims /\ [k EXCEPT !.project = p].life = k.life
                                          /\ [k EXCEPT !.project = p].project = p
           /\ \A l \in Lifecycles, p \in 0 .. MaxProjects : [life |-> l, project |-> p] \in Claims
  BY Zenon DEF Claims

\* A step of the claim by one command: it moves the claim forward, and calls it fenced
\* only when nothing runs in the namespace and nothing is about to.
CommandMove(c) ==
    /\ cmd' \in [CliCommands -> CommandRecords] /\ \A d \in CliCommands \ {c} : cmd'[d] = cmd[d]
    /\ CommandStanding(c)'
    /\ claim' \in Claims /\ ClaimForwardStep
    /\ claim'.life = "fenced" => claim.life = "fenced" \/ (spacePods = {} /\ NoneCreating /\ EarlyEnded)
    /\ early' = early \/ (early' = {r \in Jobs : job[r] # "absent"} /\ claim.life = "active" /\ ~Leaving)

\* A command that ends, or is stopped, leaves nothing behind.
LEMMA CommandEnded ==
    ASSUME TenancyInductive, NEW c \in CliCommands, CommandEnds(c), UNCHANGED <<claim, early>>
    PROVE  CommandMove(c)
<1>1. cmd' \in [CliCommands -> CommandRecords] /\ cmd'[c] = IdleCommand /\ \A d \in CliCommands \ {c} : cmd'[d] = cmd[d]
  BY Zenon, TenancyRecords DEF TenancyInductive, TenancyTyped, CommandEnds
<1>2. CommandStanding(c)'
  BY Zenon, <1>1, TenancyRecords DEF CommandStanding, OnboardSteps, OffboardSteps, IdleCommand
<1> QED
  BY Zenon, <1>1, <1>2 DEF CommandMove, TenancyInductive, TenancyTyped, ClaimForwardStep

\* A command rewritten in its own record has its new record, and the others keep theirs.
LEMMA CommandWritten ==
    ASSUME TenancyInductive, NEW c \in CliCommands, NEW r \in CommandRecords, cmd' = [cmd EXCEPT ![c] = r]
    PROVE  cmd' \in [CliCommands -> CommandRecords] /\ cmd'[c] = r /\ \A d \in CliCommands \ {c} : cmd'[d] = cmd[d]
  BY Zenon DEF TenancyInductive, TenancyTyped

\* The patch of the claim either finds it as the command saw it, or ends the command.
LEMMA ClaimPatched ==
    ASSUME TenancyInductive, NEW c \in CliCommands, NEW new \in Claims,
           NEW s \in {"begin", "done", "scan"}, PatchClaim(c, new, s)
    PROVE  \/ UNCHANGED claim /\ CommandEnds(c)
           \/ /\ claim = cmd[c].saw /\ claim' = new
              /\ cmd' \in [CliCommands -> CommandRecords] /\ \A d \in CliCommands \ {c} : cmd'[d] = cmd[d]
              /\ cmd'[c] = [cmd[c] EXCEPT !.step = s, !.saw = new] /\ cmd'[c].step = s /\ cmd'[c].saw = new
<1>1. CASE ~Required(c)
  BY Zenon, <1>1 DEF PatchClaim
<1>2. CASE Required(c)
  <2>1. claim = cmd[c].saw /\ claim' = new /\ cmd' = [cmd EXCEPT ![c].step = s, ![c].saw = new]
    BY Zenon, <1>2 DEF PatchClaim, Required
  <2>2. cmd[c] \in CommandRecords /\ cmd \in [CliCommands -> CommandRecords]
    BY Zenon DEF TenancyInductive, TenancyTyped
  <2>3. cmd' = [cmd EXCEPT ![c] = [cmd[c] EXCEPT !.step = s, !.saw = new]]
    BY Zenon, <2>1, <2>2
  <2>4. [cmd[c] EXCEPT !.step = s, !.saw = new] \in CommandRecords
    BY Zenon, <2>2 DEF CommandRecords, OnboardSteps, OffboardSteps
  <2>5. [cmd[c] EXCEPT !.step = s, !.saw = new].step = s /\ [cmd[c] EXCEPT !.step = s, !.saw = new].saw = new
    BY Zenon, <2>2 DEF CommandRecords
  <2> QED
    BY Zenon, <2>1, <2>3, <2>4, <2>5, CommandWritten
<1> QED
  BY Zenon, <1>1, <1>2

\* What the commands leave alone, and how far they change the rest of the namespace.
LEMMA CommandsWorld ==
    ASSUME TenancyInductive, NEW c \in CliCommands, CommandStep(c) \/ CommandStops(c)
    PROVE  /\ UNCHANGED <<tenancyWorker, spacePods, job>>
           /\ project' \in 0 .. MaxProjects /\ projects' \in 0 .. MaxProjects
           /\ space' \in [Spaces -> SpaceRecords]
           /\ \A e \in Spaces : space'[e].exists = space[e].exists /\ space'[e].suspended = space[e].suspended
           /\ spaceHeld' \in [Spaces -> SUBSET (CliCommands \cup {"operator"})]
<1> USE DEF TenancyInductive, TenancyTyped
<1>u. UNCHANGED <<tenancyWorker, spacePods, job>>
  BY Zenon DEF CommandStep, CommandStops, OnboardClaims, OnboardProject, OnboardPins, OnboardBegins, OnboardSyncs,
     OnboardActivates, OffboardReads, OffboardFences, OffboardScansRuns, OffboardListsEnvironments,
     OffboardListsPods, OffboardHolds, OffboardMarks, WorldUnchanged
<1>1. CASE OnboardProject(c)
  <2>1. UNCHANGED <<space, spaceHeld>>
    BY Zenon, <1>1 DEF OnboardProject
  <2>2. project' \in 0 .. MaxProjects /\ projects' \in 0 .. MaxProjects
    BY <1>1, TenancyAssumption DEF OnboardProject
  <2> QED
    BY Zenon, <2>1, <2>2, <1>u
<1>2. CASE OffboardListsEnvironments(c)
  <2>1. UNCHANGED <<project, projects, space>> /\ spaceHeld' = [e \in Spaces |-> spaceHeld[e] \cup {c}]
    BY Zenon, <1>2 DEF OffboardListsEnvironments
  <2>2. spaceHeld' \in [Spaces -> SUBSET (CliCommands \cup {"operator"})]
    BY Zenon, <2>1
  <2> QED
    BY Zenon, <2>1, <2>2, <1>u
<1>3. CASE OffboardHolds(c)
  <2>1. UNCHANGED <<project, projects>>
    BY Zenon, <1>3 DEF OffboardHolds
  <2>2. PICK e \in cmd[c].spaces :
          \/ space' = [space EXCEPT ![e].hold = TRUE] /\ spaceHeld' = [spaceHeld EXCEPT ![e] = {c}]
          \/ UNCHANGED <<space, spaceHeld>>
    BY Zenon, <1>3 DEF OffboardHolds
  <2>3. e \in Spaces
    BY Zenon, <2>2 DEF CommandRecords
  <2>4. space' \in [Spaces -> SpaceRecords]
    <3>1. [space[e] EXCEPT !.hold = TRUE] \in SpaceRecords
      BY <2>3 DEF SpaceRecords
    <3> QED
      BY Zenon, <2>2, <2>3, <3>1
  <2>5. \A f \in Spaces : space'[f].exists = space[f].exists /\ space'[f].suspended = space[f].suspended
    BY <2>2, <2>3 DEF SpaceRecords
  <2>6. spaceHeld' \in [Spaces -> SUBSET (CliCommands \cup {"operator"})]
    BY <2>2, <2>3
  <2> QED
    BY Zenon, <2>1, <2>4, <2>5, <2>6, <1>u
<1>4. CASE ~OnboardProject(c) /\ ~OffboardListsEnvironments(c) /\ ~OffboardHolds(c)
  <2>1. UNCHANGED <<project, projects, space, spaceHeld>>
    BY Zenon, <1>4 DEF CommandStep, CommandStops, OnboardClaims, OnboardPins, OnboardBegins, OnboardSyncs,
       OnboardActivates, OffboardReads, OffboardFences, OffboardScansRuns, OffboardListsPods, OffboardMarks, WorldUnchanged
  <2> QED
    BY Zenon, <2>1, <1>u
<1> QED
  BY Zenon, <1>1, <1>2, <1>3, <1>4

\* A command that leaves the claim as it is moves when its own record stands.
LEMMA CommandStays ==
    ASSUME TenancyInductive, NEW c \in CliCommands, UNCHANGED <<claim, early>>,
           cmd' \in [CliCommands -> CommandRecords], \A d \in CliCommands \ {c} : cmd'[d] = cmd[d], CommandStanding(c)'
    PROVE  CommandMove(c)
  BY Zenon DEF CommandMove, TenancyInductive, TenancyTyped, ClaimForwardStep

\* Onboarding moves the claim forward, and cannot take up one that is being offboarded
\* (runProjectOnboard).
LEMMA OnboardMoves ==
    ASSUME TenancyInductive, NEW c \in CliCommands,
           \/ OnboardClaims(c) \/ OnboardProject(c) \/ OnboardPins(c) \/ OnboardBegins(c)
           \/ OnboardSyncs(c) \/ OnboardActivates(c)
    PROVE  CommandMove(c)
<1>t. /\ cmd \in [CliCommands -> CommandRecords] /\ cmd[c] \in CommandRecords /\ claim \in Claims
      /\ cmd[c].saw \in Claims /\ cmd[c].lease \in Claims /\ cmd[c].lease.project \in 0 .. MaxProjects
      /\ cmd[c].saw.life \in Lifecycles /\ CommandStanding(c) /\ claim.life \in Lifecycles
      /\ project \in 0 .. MaxProjects /\ projects \in 0 .. MaxProjects
  BY Zenon DEF TenancyInductive, TenancyTyped, CommandRecords, Claims
<1>1. CASE OnboardClaims(c)
  <2>1. /\ claim.life \in {"unclaimed", "onboarding", "active"} /\ early' = early
        /\ claim' = IF claim.life = "unclaimed" THEN [claim EXCEPT !.life = "onboarding"] ELSE claim
        /\ cmd' = [cmd EXCEPT ![c] = [IdleCommand EXCEPT !.step = "project", !.saw = claim']]
    BY Zenon, <1>1 DEF OnboardClaims
  <2>2. claim' \in Claims /\ claim'.life \in {"onboarding", "active"} /\ ClaimForwardStep
    BY Zenon, <2>1, <1>t, ClaimRecords DEF ClaimForwardStep, Lifecycles
  <2> DEFINE r == [IdleCommand EXCEPT !.step = "project", !.saw = claim']
  <2>3. r \in CommandRecords /\ r.step = "project" /\ r.saw = claim' /\ r.drained = FALSE
    BY Zenon, <2>2, TenancyRecords DEF CommandRecords, OnboardSteps, IdleCommand
  <2>4. cmd' \in [CliCommands -> CommandRecords] /\ cmd'[c] = r /\ \A d \in CliCommands \ {c} : cmd'[d] = cmd[d]
    BY Zenon, <2>1, <2>3, CommandWritten
  <2>5. CommandStanding(c)'
    BY Zenon, <2>2, <2>3, <2>4 DEF CommandStanding, OnboardSteps, OffboardSteps
  <2> QED
    BY Zenon, <2>1, <2>2, <2>4, <2>5 DEF CommandMove
<1>2. CASE OnboardProject(c)
  <2>1. cmd[c].step = "project" /\ UNCHANGED <<claim, early>>
    BY Zenon, <1>2 DEF OnboardProject
  <2>2. CASE CommandEnds(c)
    BY Zenon, <2>1, <2>2, CommandEnded
  <2>3. CASE \E p \in 0 .. MaxProjects :
               /\ cmd[c].saw.project \in {0, p}
               /\ cmd' = [cmd EXCEPT ![c].step = "pin", ![c].lease = [life |-> cmd[c].saw.life, project |-> p]]
    <3>1. PICK p \in 0 .. MaxProjects :
               /\ cmd[c].saw.project \in {0, p}
               /\ cmd' = [cmd EXCEPT ![c].step = "pin", ![c].lease = [life |-> cmd[c].saw.life, project |-> p]]
      BY Zenon, <2>3
    <3> DEFINE l == [life |-> cmd[c].saw.life, project |-> p]
               r == [cmd[c] EXCEPT !.step = "pin", !.lease = l]
    <3>2. l \in Claims /\ l.project = p
      BY Zenon, <1>t, ClaimRecords
    <3> HIDE DEF l
    <3>3. r \in CommandRecords /\ r.step = "pin" /\ r.saw = cmd[c].saw /\ r.lease = l
      BY Zenon, <1>t, <3>2 DEF CommandRecords, OnboardSteps
    <3>4. cmd' = [cmd EXCEPT ![c] = r]
      BY Zenon, <3>1, <1>t DEF l
    <3>5. cmd' \in [CliCommands -> CommandRecords] /\ cmd'[c] = r /\ \A d \in CliCommands \ {c} : cmd'[d] = cmd[d]
      BY Zenon, <3>3, <3>4, CommandWritten
    <3>6. CommandStanding(c)'
      BY Zenon, <2>1, <3>1, <3>2, <3>3, <3>5, <1>t DEF CommandStanding, OnboardSteps, OffboardSteps
    <3> QED
      BY Zenon, <2>1, <3>5, <3>6, CommandStays
  <2> QED
    BY <1>2, <2>2, <2>3, <1>t, TenancyAssumption DEF OnboardProject
<1>3. CASE OnboardPins(c)
  <2> DEFINE new == [claim EXCEPT !.project = cmd[c].lease.project]
  <2>1. new \in Claims /\ new.life = claim.life /\ new.project = cmd[c].lease.project
    BY <1>t, ClaimRecords
  <2>2. cmd[c].step = "pin" /\ PatchClaim(c, new, "begin") /\ early' = early
    BY Zenon, <1>3 DEF OnboardPins
  <2> HIDE DEF new
  <2>3. CASE UNCHANGED claim /\ CommandEnds(c)
    BY Zenon, <2>2, <2>3, CommandEnded
  <2>4. CASE /\ claim = cmd[c].saw /\ claim' = new
             /\ cmd' \in [CliCommands -> CommandRecords] /\ \A d \in CliCommands \ {c} : cmd'[d] = cmd[d]
             /\ cmd'[c].step = "begin" /\ cmd'[c].saw = new
    <3>1. CommandStanding(c)'
      BY Zenon, <2>1, <2>2, <2>4, <1>t DEF CommandStanding, OnboardSteps, OffboardSteps
    <3>2. ClaimForwardStep /\ claim'.life # "fenced"
      BY Zenon, <2>1, <2>2, <2>4, <1>t DEF ClaimForwardStep, CommandStanding, OnboardSteps
    <3> QED
      BY Zenon, <3>1, <3>2, <2>1, <2>2, <2>4 DEF CommandMove
  <2> QED
    BY Zenon, <2>1, <2>2, <2>3, <2>4, ClaimPatched
<1>4. CASE OnboardBegins(c)
  <2>1. cmd[c].step = "begin" /\ UNCHANGED <<claim, early>>
    BY Zenon, <1>4 DEF OnboardBegins
  <2>2. CASE CommandEnds(c)
    BY Zenon, <2>1, <2>2, CommandEnded
  <2>3. CASE cmd' = [cmd EXCEPT ![c].step = "sync", ![c].lease = claim]
    <3> DEFINE r == [cmd[c] EXCEPT !.step = "sync", !.lease = claim]
    <3>1. r \in CommandRecords /\ r.step = "sync" /\ r.saw = cmd[c].saw
      BY Zenon, <1>t DEF CommandRecords, OnboardSteps
    <3>2. cmd' = [cmd EXCEPT ![c] = r]
      BY Zenon, <2>3, <1>t
    <3>3. cmd' \in [CliCommands -> CommandRecords] /\ cmd'[c] = r /\ \A d \in CliCommands \ {c} : cmd'[d] = cmd[d]
      BY Zenon, <3>1, <3>2, CommandWritten
    <3>4. CommandStanding(c)'
      BY Zenon, <2>1, <3>1, <3>3, <1>t DEF CommandStanding, OnboardSteps, OffboardSteps
    <3> QED
      BY Zenon, <2>1, <3>3, <3>4, CommandStays
  <2> QED
    BY Zenon, <1>4, <2>2, <2>3 DEF OnboardBegins
<1>5. CASE OnboardSyncs(c)
  <2>1. cmd[c].step = "sync" /\ UNCHANGED <<claim, early>>
    BY Zenon, <1>5 DEF OnboardSyncs
  <2>2. CASE CommandEnds(c)
    BY Zenon, <2>1, <2>2, CommandEnded
  <2>3. CASE Command(c, "activate")
    <3> DEFINE r == [cmd[c] EXCEPT !.step = "activate"]
    <3>1. r \in CommandRecords /\ r.step = "activate" /\ r.saw = cmd[c].saw
      BY Zenon, <1>t DEF CommandRecords, OnboardSteps
    <3>2. cmd' = [cmd EXCEPT ![c] = r]
      BY Zenon, <2>3, <1>t DEF Command
    <3>3. cmd' \in [CliCommands -> CommandRecords] /\ cmd'[c] = r /\ \A d \in CliCommands \ {c} : cmd'[d] = cmd[d]
      BY Zenon, <3>1, <3>2, CommandWritten
    <3>4. CommandStanding(c)'
      BY Zenon, <2>1, <3>1, <3>3, <1>t DEF CommandStanding, OnboardSteps, OffboardSteps
    <3> QED
      BY Zenon, <2>1, <3>3, <3>4, CommandStays
  <2> QED
    BY Zenon, <1>5, <2>2, <2>3 DEF OnboardSyncs
<1>6. CASE OnboardActivates(c)
  <2> DEFINE new == [claim EXCEPT !.life = "active"]
  <2>1. new \in Claims /\ new.life = "active" /\ new.project = claim.project
    BY Zenon, <1>t, ClaimRecords DEF Lifecycles
  <2>2. cmd[c].step = "activate" /\ PatchClaim(c, new, "done") /\ early' = early
    BY Zenon, <1>6 DEF OnboardActivates
  <2> HIDE DEF new
  <2>3. CASE UNCHANGED claim /\ CommandEnds(c)
    BY Zenon, <2>2, <2>3, CommandEnded
  <2>4. CASE /\ claim = cmd[c].saw /\ claim' = new
             /\ cmd' \in [CliCommands -> CommandRecords] /\ \A d \in CliCommands \ {c} : cmd'[d] = cmd[d]
             /\ cmd'[c].step = "done" /\ cmd'[c].saw = new
    <3>1. CommandStanding(c)'
      BY Zenon, <2>4 DEF CommandStanding, OnboardSteps, OffboardSteps
    <3>2. ClaimForwardStep
      BY Zenon, <2>1, <2>2, <2>4, <1>t DEF ClaimForwardStep, CommandStanding, OnboardSteps
    <3> QED
      BY Zenon, <3>1, <3>2, <2>1, <2>2, <2>4 DEF CommandMove
  <2> QED
    BY Zenon, <2>1, <2>2, <2>3, <2>4, ClaimPatched
<1> QED
  BY Zenon, <1>1, <1>2, <1>3, <1>4, <1>5, <1>6

\* Offboarding moves the claim forward, and calls it fenced only after a round that found
\* every Run ended, every Environment suspended and no Pod (offboardProject).
LEMMA OffboardMoves ==
    ASSUME TenancyInductive, NEW c \in CliCommands,
           \/ OffboardReads(c) \/ OffboardFences(c) \/ OffboardScansRuns(c) \/ OffboardListsEnvironments(c)
           \/ OffboardListsPods(c) \/ OffboardHolds(c) \/ OffboardMarks(c)
    PROVE  CommandMove(c)
<1>t. /\ cmd \in [CliCommands -> CommandRecords] /\ cmd[c] \in CommandRecords /\ claim \in Claims
      /\ cmd[c].saw \in Claims /\ cmd[c].lease \in Claims /\ cmd[c].spaces \in SUBSET Spaces
      /\ cmd[c].drained \in BOOLEAN /\ CommandStanding(c) /\ claim.life \in Lifecycles
  BY Zenon DEF TenancyInductive, TenancyTyped, CommandRecords, Claims
<1>w. UNCHANGED <<tenancyWorker, spacePods, job>>
  BY Zenon, CommandsWorld DEF CommandStep
<1>e. ASSUME UNCHANGED early PROVE EarlyEnded' = EarlyEnded /\ NoneCreating' = NoneCreating
  BY Zenon, <1>e, <1>w DEF EarlyEnded, NoneCreating, Creating
<1>1. CASE OffboardReads(c)
  <2>1. /\ claim.life \in {"active", "offboarding"} /\ UNCHANGED <<claim, early>>
        /\ cmd' = [cmd EXCEPT ![c] = [IdleCommand EXCEPT !.saw = claim,
                                       !.step = IF claim.life = "active" THEN "fence" ELSE "scan"]]
    BY Zenon, <1>1 DEF OffboardReads, Verified
  <2> DEFINE s == IF claim.life = "active" THEN "fence" ELSE "scan"
             r == [IdleCommand EXCEPT !.saw = claim, !.step = s]
  <2>2. s \in {"fence", "scan"}
    OBVIOUS
  <2>3. r \in CommandRecords /\ r.step = s /\ r.saw = claim /\ r.drained = FALSE
    BY Zenon, <1>t, <2>2, TenancyRecords DEF CommandRecords, OffboardSteps, IdleCommand
  <2>4. cmd' \in [CliCommands -> CommandRecords] /\ cmd'[c] = r /\ \A d \in CliCommands \ {c} : cmd'[d] = cmd[d]
    BY Zenon, <2>1, <2>3, CommandWritten
  <2>5. CommandStanding(c)'
    BY <2>1, <2>3, <2>4 DEF CommandStanding, OnboardSteps, OffboardSteps, Leaving
  <2> QED
    BY Zenon, <2>1, <2>4, <2>5, CommandStays
<1>2. CASE OffboardFences(c)
  <2> DEFINE new == [claim EXCEPT !.life = "offboarding"]
  <2>1. new \in Claims /\ new.life = "offboarding" /\ new.project = claim.project
    BY Zenon, <1>t, ClaimRecords DEF Lifecycles
  <2>2. /\ cmd[c].step = "fence" /\ PatchClaim(c, new, "scan")
        /\ early' = IF claim' # claim THEN {r \in Jobs : job[r] # "absent"} ELSE early
    BY Zenon, <1>2 DEF OffboardFences
  <2> HIDE DEF new
  <2>3. CASE UNCHANGED claim /\ CommandEnds(c)
    BY Zenon, <2>2, <2>3, CommandEnded
  <2>4. CASE /\ claim = cmd[c].saw /\ claim' = new
             /\ cmd' \in [CliCommands -> CommandRecords] /\ \A d \in CliCommands \ {c} : cmd'[d] = cmd[d]
             /\ cmd'[c] = [cmd[c] EXCEPT !.step = "scan", !.saw = new] /\ cmd'[c].step = "scan" /\ cmd'[c].saw = new
    <3>1. claim.life = "active"
      BY Zenon, <2>2, <2>4, <1>t DEF CommandStanding
    <3>2. CommandStanding(c)'
      BY Zenon, <2>1, <2>4 DEF CommandStanding, OnboardSteps, OffboardSteps, Leaving
    <3>3. ClaimForwardStep /\ claim'.life # "fenced" /\ ~Leaving
      BY Zenon, <2>1, <2>4, <3>1 DEF ClaimForwardStep, Leaving
    <3> QED
      BY Zenon, <3>1, <3>2, <3>3, <2>1, <2>2, <2>4 DEF CommandMove
  <2> QED
    BY Zenon, <2>1, <2>2, <2>3, <2>4, ClaimPatched
<1>3. CASE OffboardScansRuns(c)
  <2>1. cmd[c].step = "scan" /\ UNCHANGED <<claim, early>>
    BY Zenon, <1>3 DEF OffboardScansRuns
  <2>2. CASE CommandEnds(c)
    BY Zenon, <2>1, <2>2, CommandEnded
  <2> DEFINE b == \A r \in Jobs : job[r] \in {"absent", "ended"}
  <2>3. CASE cmd' = [cmd EXCEPT ![c].step = "envs", ![c].lease = claim, ![c].drained = b]
    <3> DEFINE r == [cmd[c] EXCEPT !.step = "envs", !.lease = claim, !.drained = b]
    <3>b. b \in BOOLEAN /\ (b => EarlyEnded)
      BY Zenon DEF TenancyInductive, TenancyTyped, EarlyStanding, EarlyEnded
    <3> HIDE DEF b
    <3>1. r \in CommandRecords /\ r.step = "envs" /\ r.saw = cmd[c].saw /\ r.drained = b
      BY Zenon, <1>t, <3>b DEF CommandRecords, OffboardSteps
    <3>2. cmd' = [cmd EXCEPT ![c] = r]
      BY Zenon, <2>3, <1>t
    <3>3. cmd' \in [CliCommands -> CommandRecords] /\ cmd'[c] = r /\ \A d \in CliCommands \ {c} : cmd'[d] = cmd[d]
      BY Zenon, <3>1, <3>2, CommandWritten
    <3>4. CommandStanding(c)'
      BY Zenon, <2>1, <3>b, <3>1, <3>3, <1>t, <1>e DEF CommandStanding, OnboardSteps, OffboardSteps, Leaving
    <3> QED
      BY Zenon, <2>1, <3>3, <3>4, CommandStays
  <2> QED
    BY Zenon, <1>3, <2>2, <2>3 DEF OffboardScansRuns
<1>4. CASE OffboardListsEnvironments(c)
  <2> DEFINE b == cmd[c].drained /\ \A e \in Spaces : SpaceDrained(e)
             l == {e \in Spaces : space[e].exists /\ ~space[e].hold}
             r == [cmd[c] EXCEPT !.step = "pods", !.drained = b, !.spaces = l]
  <2>1. /\ cmd[c].step = "envs" /\ UNCHANGED <<claim, early>>
        /\ cmd' = [cmd EXCEPT ![c].step = "pods", ![c].drained = @ /\ \A e \in Spaces : SpaceDrained(e), ![c].spaces = l]
    BY Zenon, <1>4 DEF OffboardListsEnvironments
  <2>2. cmd' = [cmd EXCEPT ![c] = r]
    BY Zenon, <2>1, <1>t DEF CommandRecords
  <2>b. b \in BOOLEAN /\ (b => cmd[c].drained) /\ l \in SUBSET Spaces
    OBVIOUS
  <2>n. b => NoneCreating
    BY Zenon DEF TenancyInductive, WorkersStanding, SpaceDrained, NoneCreating
  <2> HIDE DEF b, l
  <2>3. r \in CommandRecords /\ r.step = "pods" /\ r.saw = cmd[c].saw /\ r.drained = b
    BY Zenon, <1>t, <2>b DEF CommandRecords, OffboardSteps
  <2>4. cmd' \in [CliCommands -> CommandRecords] /\ cmd'[c] = r /\ \A d \in CliCommands \ {c} : cmd'[d] = cmd[d]
    BY Zenon, <2>2, <2>3, CommandWritten
  <2>5. CommandStanding(c)'
    <3>1. cmd'[c].step = "pods" /\ cmd'[c].saw = cmd[c].saw /\ (cmd'[c].drained => b)
      BY Zenon, <2>3, <2>4
    <3>2. cmd[c].saw.life = "offboarding" /\ Leaving' /\ (b => EarlyEnded' /\ NoneCreating')
      BY Zenon, <2>1, <2>b, <2>n, <1>t, <1>e DEF CommandStanding, OffboardSteps, Leaving
    <3> QED
      BY Zenon, <3>1, <3>2 DEF CommandStanding, OnboardSteps
  <2> QED
    BY Zenon, <2>1, <2>4, <2>5, CommandStays
<1>5. CASE OffboardListsPods(c)
  <2> DEFINE b == cmd[c].drained /\ ~PodsSeen
             r == [cmd[c] EXCEPT !.step = "hold", !.drained = b]
  <2>1. /\ cmd[c].step = "pods" /\ UNCHANGED <<claim, early>>
        /\ cmd' = [cmd EXCEPT ![c].step = "hold", ![c].drained = @ /\ ~PodsSeen]
    BY Zenon, <1>5 DEF OffboardListsPods
  <2>2. cmd' = [cmd EXCEPT ![c] = r]
    BY Zenon, <2>1, <1>t DEF CommandRecords
  <2>b. b \in BOOLEAN /\ (b => cmd[c].drained /\ spacePods = {})
    BY Zenon DEF PodsSeen
  <2> HIDE DEF b
  <2>3. r \in CommandRecords /\ r.step = "hold" /\ r.saw = cmd[c].saw /\ r.drained = b
    BY Zenon, <1>t, <2>b DEF CommandRecords, OffboardSteps
  <2>4. cmd' \in [CliCommands -> CommandRecords] /\ cmd'[c] = r /\ \A d \in CliCommands \ {c} : cmd'[d] = cmd[d]
    BY Zenon, <2>2, <2>3, CommandWritten
  <2>5. CommandStanding(c)'
    BY <2>1, <2>b, <2>3, <2>4, <1>t, <1>e, <1>w DEF CommandStanding, OnboardSteps, OffboardSteps, Leaving
  <2> QED
    BY Zenon, <2>1, <2>4, <2>5, CommandStays
<1>6. CASE OffboardHolds(c)
  <2>1. cmd[c].step = "hold" /\ UNCHANGED <<claim, early>>
    BY Zenon, <1>6 DEF OffboardHolds
  <2>2. CASE CommandEnds(c)
    BY Zenon, <2>1, <2>2, CommandEnded
  <2>3. CASE \E e \in cmd[c].spaces : cmd' = [cmd EXCEPT ![c].spaces = @ \ {e}]
    <3>1. PICK e \in cmd[c].spaces : cmd' = [cmd EXCEPT ![c].spaces = @ \ {e}]
      BY Zenon, <2>3
    <3> DEFINE r == [cmd[c] EXCEPT !.spaces = cmd[c].spaces \ {e}]
    <3>2. r \in CommandRecords /\ r.step = cmd[c].step /\ r.saw = cmd[c].saw /\ r.drained = cmd[c].drained
      BY Zenon, <1>t DEF CommandRecords
    <3>3. cmd' = [cmd EXCEPT ![c] = r]
      BY Zenon, <3>1, <1>t
    <3>4. cmd' \in [CliCommands -> CommandRecords] /\ cmd'[c] = r /\ \A d \in CliCommands \ {c} : cmd'[d] = cmd[d]
      BY Zenon, <3>2, <3>3, CommandWritten
    <3>5. CommandStanding(c)'
      BY Zenon, <2>1, <3>2, <3>4, <1>t, <1>e, <1>w DEF CommandStanding, OnboardSteps, OffboardSteps, Leaving
    <3> QED
      BY Zenon, <2>1, <3>4, <3>5, CommandStays
  <2> QED
    BY Zenon, <1>6, <2>2, <2>3 DEF OffboardHolds
<1>7. CASE OffboardMarks(c)
  <2>1. cmd[c].step = "hold" /\ UNCHANGED early
    BY Zenon, <1>7 DEF OffboardMarks
  <2>2. CASE ~cmd[c].drained
    <3> DEFINE r == [cmd[c] EXCEPT !.step = "scan"]
    <3>1. UNCHANGED claim /\ cmd' = [cmd EXCEPT ![c] = r]
      BY Zenon, <1>7, <2>2, <1>t DEF OffboardMarks, Command
    <3>2. r \in CommandRecords /\ r.step = "scan" /\ r.saw = cmd[c].saw /\ r.drained = cmd[c].drained
      BY Zenon, <1>t DEF CommandRecords, OffboardSteps
    <3>3. cmd' \in [CliCommands -> CommandRecords] /\ cmd'[c] = r /\ \A d \in CliCommands \ {c} : cmd'[d] = cmd[d]
      BY Zenon, <3>1, <3>2, CommandWritten
    <3>4. CommandStanding(c)'
      BY Zenon, <2>1, <2>2, <3>1, <3>2, <3>3, <1>t DEF CommandStanding, OnboardSteps, OffboardSteps, Leaving
    <3> QED
      BY Zenon, <2>1, <3>1, <3>3, <3>4, CommandStays
  <2>3. CASE cmd[c].drained
    <3> DEFINE new == [claim EXCEPT !.life = "fenced"]
    <3>1. new \in Claims /\ new.life = "fenced" /\ new.project = claim.project
      BY Zenon, <1>t, ClaimRecords DEF Lifecycles
    <3>2. PatchClaim(c, new, "done")
      BY Zenon, <1>7, <2>3 DEF OffboardMarks
    <3> HIDE DEF new
    <3>3. CASE UNCHANGED claim /\ CommandEnds(c)
      BY Zenon, <2>1, <3>3, CommandEnded
    <3>4. CASE /\ claim = cmd[c].saw /\ claim' = new
               /\ cmd' \in [CliCommands -> CommandRecords] /\ \A d \in CliCommands \ {c} : cmd'[d] = cmd[d]
               /\ cmd'[c].step = "done" /\ cmd'[c].saw = new
      <4>1. CommandStanding(c)'
        BY Zenon, <3>4 DEF CommandStanding, OnboardSteps, OffboardSteps
      <4>2. claim.life = "offboarding" /\ spacePods = {} /\ NoneCreating /\ EarlyEnded
        BY Zenon, <2>1, <2>3, <3>4, <1>t DEF CommandStanding, OffboardSteps
      <4>3. ClaimForwardStep
        BY Zenon, <3>1, <3>4, <4>2 DEF ClaimForwardStep
      <4> QED
        BY Zenon, <2>1, <3>1, <3>4, <4>1, <4>2, <4>3 DEF CommandMove
    <3> QED
      BY Zenon, <3>1, <3>2, <3>3, <3>4, ClaimPatched
  <2> QED
    BY Zenon, <2>2, <2>3
<1> QED
  BY Zenon, <1>1, <1>2, <1>3, <1>4, <1>5, <1>6, <1>7

\* A step that is no command's leaves the claim, the commands and the early Runs alone. It
\* starts no creation in a namespace that is being left, and creates a Pod only where a
\* creation was under way.
OtherMove ==
    /\ UNCHANGED <<claim, cmd, early>>
    /\ project' \in 0 .. MaxProjects /\ projects' \in 0 .. MaxProjects
    /\ space' \in [Spaces -> SpaceRecords]
    /\ spaceHeld' \in [Spaces -> SUBSET (CliCommands \cup {"operator"})] /\ spacePods' \subseteq Spaces
    /\ tenancyWorker' \in [Spaces -> WorkerRecords] /\ job' \in [Jobs -> {"absent", "live", "ended"}]
    /\ \A r \in Jobs : (job[r] = "ended" => job'[r] = "ended") /\ (job[r] # "absent" => job'[r] # "absent")
    /\ \A e \in Spaces : Creating(e)' => Creating(e) \/ ~Leaving
    /\ \A e \in Spaces : e \in spacePods' => e \in spacePods \/ Creating(e)
    /\ WorkersStanding'

\* The step of one Environment's worker: its record, its own Pod and its own status.
LEMMA WorkerMoves ==
    ASSUME TenancyInductive, NEW e \in Spaces,
           WorkerStep(e) \/ WorkerCrashes(e) \/ CreateSpace(e) \/ ReleaseHold(e)
    PROVE  OtherMove
<1>t. /\ tenancyWorker \in [Spaces -> WorkerRecords] /\ tenancyWorker[e] \in WorkerRecords
      /\ space \in [Spaces -> SpaceRecords] /\ space[e] \in SpaceRecords /\ claim \in Claims
      /\ spaceHeld \in [Spaces -> SUBSET (CliCommands \cup {"operator"})] /\ spacePods \subseteq Spaces
      /\ WorkersStanding /\ job \in [Jobs -> {"absent", "live", "ended"}]
      /\ project \in 0 .. MaxProjects /\ projects \in 0 .. MaxProjects
  BY Zenon DEF TenancyInductive, TenancyTyped
<1>o. OthersUnchanged
  BY Zenon DEF WorkerStep, WorkerBegins, WorkerAuthorizes, WorkerWritesSpace, WorkerWritesPod, WorkerChecks, WorkerUndoes,
     WorkerCrashes, CreateSpace, ReleaseHold
<1>h. spaceHeld' \in [Spaces -> SUBSET (CliCommands \cup {"operator"})]
  BY <1>t DEF WorkerStep, WorkerBegins, WorkerAuthorizes, WorkerWritesSpace, WorkerWritesPod, WorkerChecks, WorkerUndoes,
     WorkerCrashes, CreateSpace, ReleaseHold
<1>m. ASSUME NEW w \in WorkerRecords, tenancyWorker' = [tenancyWorker EXCEPT ![e] = w],
             NEW s \in SpaceRecords, space' = [space EXCEPT ![e] = s], spacePods' \subseteq Spaces,
             spacePods' \ spacePods \subseteq {e}, e \in spacePods' => e \in spacePods \/ Creating(e),
             w.write = "createPod" /\ w.step \in {"authorize", "write"} =>
                 s.exists /\ ~s.suspended /\ (Creating(e) \/ ~Leaving)
      PROVE  OtherMove
  <2>1. /\ tenancyWorker' \in [Spaces -> WorkerRecords] /\ tenancyWorker'[e] = w
        /\ space' \in [Spaces -> SpaceRecords] /\ space'[e] = s
        /\ \A f \in Spaces \ {e} : tenancyWorker'[f] = tenancyWorker[f] /\ space'[f] = space[f]
    BY Zenon, <1>m, <1>t
  <2>2. UNCHANGED <<claim, cmd, early, project, projects, job>>
    BY Zenon, <1>o DEF OthersUnchanged
  <2>3. \A f \in Spaces : Creating(f)' => Creating(f) \/ ~Leaving
    BY Zenon, <1>m, <2>1 DEF Creating
  <2>4. WorkersStanding'
    BY Zenon, <1>m, <1>t, <2>1 DEF Creating, WorkersStanding
  <2>5. \A f \in Spaces : f \in spacePods' => f \in spacePods \/ Creating(f)
    BY Zenon, <1>m
  <2> QED
    BY Zenon, <1>h, <1>m, <1>t, <2>1, <2>2, <2>3, <2>4, <2>5 DEF OtherMove
<1>i. IdleTenancyWorker \in WorkerRecords /\ IdleTenancyWorker.step = "idle"
  BY Zenon, TenancyRecords
<1>s. [space EXCEPT ![e] = space[e]] = space /\ [tenancyWorker EXCEPT ![e] = tenancyWorker[e]] = tenancyWorker
  BY Zenon, <1>t
<1>z. ASSUME WorkerStops(e), UNCHANGED space, spacePods' \subseteq spacePods PROVE OtherMove
  BY Zenon, <1>z, <1>i, <1>m, <1>s, <1>t DEF WorkerStops
<1>1. CASE WorkerBegins(e)
  <2>1. UNCHANGED <<space, spacePods>>
    BY Zenon, <1>1 DEF WorkerBegins
  <2>2. PICK w \in WorkerWrites, f \in BOOLEAN :
          /\ tenancyWorker' = [tenancyWorker EXCEPT ![e] = [step |-> "authorize", lease |-> claim, fence |-> f, write |-> w]]
          /\ w = "createPod" => ~Leaving /\ space[e].exists /\ ~space[e].suspended
    <3>1. CASE /\ ~ProjectValid(claim) /\ claim.life \in {"active"} \cup Fencing /\ e \in spacePods
               /\ tenancyWorker' = [tenancyWorker EXCEPT ![e] = [step |-> "authorize", lease |-> claim, fence |-> TRUE, write |-> "deletePod"]]
      BY Zenon, <3>1 DEF WorkerWrites
    <3>2. CASE /\ Verified(claim, {"active", "offboarding"})
               /\ \E w \in WriteWanted(e, claim.life) :
                    tenancyWorker' = [tenancyWorker EXCEPT ![e] = [step |-> "authorize", lease |-> claim, fence |-> FALSE, write |-> w]]
      <4>1. PICK w \in WriteWanted(e, claim.life) :
              tenancyWorker' = [tenancyWorker EXCEPT ![e] = [step |-> "authorize", lease |-> claim, fence |-> FALSE, write |-> w]]
        BY Zenon, <3>2
      <4>2. claim.life \in {"active", "offboarding"} /\ space[e].exists
        BY Zenon, <1>1, <3>2 DEF Verified, WorkerBegins
      <4>3. w \in WorkerWrites
        BY Zenon, <4>1 DEF WriteWanted, WorkerWrites
      <4>4. w = "createPod" => ~space[e].suspended /\ ~space[e].hold /\ claim.life # "offboarding"
        BY Zenon, <4>1 DEF WriteWanted
      <4> QED
        BY Zenon, <4>1, <4>2, <4>3, <4>4 DEF Leaving
    <3> QED
      BY Zenon, <1>1, <3>1, <3>2 DEF WorkerBegins
  <2> DEFINE r == [step |-> "authorize", lease |-> claim, fence |-> f, write |-> w]
  <2>3. r \in WorkerRecords /\ r.write = w
    BY Zenon, <1>t, <2>2 DEF WorkerRecords
  <2> HIDE DEF r
  <2>4. tenancyWorker' = [tenancyWorker EXCEPT ![e] = r]
    BY Zenon, <2>2 DEF r
  <2> QED
    BY Zenon, <2>1, <2>2, <2>3, <2>4, <1>m, <1>s, <1>t
<1>2. CASE WorkerAuthorizes(e)
  <2>1. tenancyWorker[e].step \in {"authorize", "undo"} /\ UNCHANGED <<space, spacePods>>
    BY Zenon, <1>2 DEF WorkerAuthorizes
  <2>2. CASE WorkerStops(e)
    BY Zenon, <2>1, <2>2, <1>z
  <2>3. CASE tenancyWorker' = [tenancyWorker EXCEPT ![e].step = IF @ = "undo" THEN "undoing" ELSE "write"]
    <3> DEFINE s == IF tenancyWorker[e].step = "undo" THEN "undoing" ELSE "write"
               r == [tenancyWorker[e] EXCEPT !.step = s]
    <3>1. s \in {"undoing", "write"} /\ (s = "write" => tenancyWorker[e].step = "authorize")
      BY Zenon, <2>1
    <3>2. tenancyWorker' = [tenancyWorker EXCEPT ![e] = r]
      BY Zenon, <2>3, <1>t
    <3> HIDE DEF s
    <3>3. r \in WorkerRecords /\ r.step = s /\ r.write = tenancyWorker[e].write
      BY Zenon, <1>t, <3>1 DEF WorkerRecords
    <3>4. r.write = "createPod" /\ r.step \in {"authorize", "write"} =>
             space[e].exists /\ ~space[e].suspended /\ (Creating(e) \/ ~Leaving)
      BY Zenon, <3>1, <3>3, <1>t DEF WorkersStanding, Creating
    <3> QED
      BY Zenon, <2>1, <3>2, <3>3, <3>4, <1>m, <1>s, <1>t
  <2> QED
    BY Zenon, <1>2, <2>2, <2>3 DEF WorkerAuthorizes
<1>3. CASE WorkerWritesSpace(e)
  <2>1. WorkerStops(e) /\ UNCHANGED spacePods
    BY Zenon, <1>3 DEF WorkerWritesSpace
  <2>2. CASE UNCHANGED space
    BY Zenon, <2>1, <2>2, <1>z
  <2>3. CASE space' = [space EXCEPT ![e].hold = TRUE] \/ \E b \in BOOLEAN : space' = [space EXCEPT ![e].suspended = b]
    <3>1. PICK s \in SpaceRecords : space' = [space EXCEPT ![e] = s]
      <4>1. [space[e] EXCEPT !.hold = TRUE] \in SpaceRecords /\ \A b \in BOOLEAN : [space[e] EXCEPT !.suspended = b] \in SpaceRecords
        BY Zenon, <1>t DEF SpaceRecords
      <4> QED
        BY Zenon, <2>3, <4>1, <1>t
    <3> QED
      BY Zenon, <2>1, <3>1, <1>i, <1>m, <1>t DEF WorkerStops
  <2> QED
    BY Zenon, <1>3, <2>2, <2>3 DEF WorkerWritesSpace
<1>4. CASE WorkerWritesPod(e)
  <2>1. UNCHANGED space /\ tenancyWorker[e].step = "write"
    BY Zenon, <1>4 DEF WorkerWritesPod
  <2>2. CASE tenancyWorker[e].write = "createPod"
    <3> DEFINE r == [tenancyWorker[e] EXCEPT !.step = "check"]
    <3>1. spacePods' = spacePods \cup {e} /\ tenancyWorker' = [tenancyWorker EXCEPT ![e] = r]
      BY Zenon, <1>4, <2>2, <1>t DEF WorkerWritesPod
    <3>2. r \in WorkerRecords /\ r.step = "check"
      BY Zenon, <1>t DEF WorkerRecords
    <3>3. Creating(e)
      BY Zenon, <2>1, <2>2 DEF Creating
    <3>4. spacePods' \subseteq Spaces /\ spacePods' \ spacePods \subseteq {e}
      BY Zenon, <3>1, <1>t
    <3>5. ~(r.write = "createPod" /\ r.step \in {"authorize", "write"})
      BY Zenon, <3>2
    <3>6. space' = [space EXCEPT ![e] = space[e]]
      BY Zenon, <2>1, <1>s
    <3> HIDE DEF r
    <3> QED
      BY Zenon, <3>1, <3>2, <3>3, <3>4, <3>5, <3>6, <1>m, <1>t
  <2>3. CASE tenancyWorker[e].write # "createPod"
    BY Zenon, <2>1, <2>3, <1>4, <1>z DEF WorkerWritesPod
  <2> QED
    BY Zenon, <2>2, <2>3
<1>5. CASE WorkerChecks(e)
  <2>1. UNCHANGED <<space, spacePods>> /\ tenancyWorker[e].step = "check"
    BY Zenon, <1>5 DEF WorkerChecks
  <2>2. CASE WorkerStops(e)
    BY Zenon, <2>1, <2>2, <1>z
  <2>3. CASE tenancyWorker' = [tenancyWorker EXCEPT ![e].step = "undo"]
    <3> DEFINE r == [tenancyWorker[e] EXCEPT !.step = "undo"]
    <3>1. r \in WorkerRecords /\ r.step = "undo" /\ tenancyWorker' = [tenancyWorker EXCEPT ![e] = r]
      BY Zenon, <2>3, <1>t DEF WorkerRecords
    <3> QED
      BY Zenon, <2>1, <3>1, <1>m, <1>s, <1>t
  <2> QED
    BY Zenon, <1>5, <2>2, <2>3 DEF WorkerChecks
<1>6. CASE WorkerUndoes(e) \/ WorkerCrashes(e)
  BY Zenon, <1>6, <1>z DEF WorkerUndoes, WorkerCrashes
<1>7. CASE CreateSpace(e) \/ ReleaseHold(e)
  <2>1. UNCHANGED <<spacePods, tenancyWorker>>
    BY Zenon, <1>7 DEF CreateSpace, ReleaseHold
  <2>2. PICK s \in SpaceRecords : /\ space' = [space EXCEPT ![e] = s]
                                  /\ space[e].exists => s.exists = space[e].exists /\ s.suspended = space[e].suspended
    <3>1. [space[e] EXCEPT !.hold = FALSE] \in SpaceRecords /\ [space[e] EXCEPT !.hold = FALSE].exists = space[e].exists
          /\ [space[e] EXCEPT !.hold = FALSE].suspended = space[e].suspended
      BY Zenon, <1>t DEF SpaceRecords
    <3> QED
      BY Zenon, <1>7, <3>1, <1>t, TenancyRecords DEF CreateSpace, ReleaseHold
  <2>3. Creating(e) => space[e].exists /\ ~space[e].suspended
    BY Zenon, <1>t DEF WorkersStanding
  <2> QED
    BY Zenon, <2>1, <2>2, <2>3, <1>m, <1>s, <1>t DEF Creating
<1> QED
  BY Zenon, <1>1, <1>2, <1>3, <1>4, <1>5, <1>6, <1>7 DEF WorkerStep

\* Every step keeps the invariant and moves the claim only forward.
LEMMA TenancyStep ==
    ASSUME TenancyInductive, [TenancyNext]_tenancyVars
    PROVE  TenancyInductive' /\ ClaimForwardStep
<1>t. TenancyTyped /\ WorkersStanding /\ EarlyStanding /\ FencedStanding /\ \A c \in CliCommands : CommandStanding(c)
  BY Zenon DEF TenancyInductive
<1>1. CASE OtherMove
  <2>1. TenancyTyped' /\ ClaimForwardStep
    BY Zenon, <1>1, <1>t DEF OtherMove, TenancyTyped, ClaimForwardStep
  <2>2. EarlyStanding' /\ (EarlyEnded => EarlyEnded')
    BY Zenon, <1>1, <1>t DEF OtherMove, EarlyStanding, EarlyEnded, TenancyTyped
  <2>3. Leaving' = Leaving /\ (Leaving /\ NoneCreating => NoneCreating')
    BY Zenon, <1>1 DEF OtherMove, Leaving, NoneCreating
  <2>4. NoneCreating /\ spacePods = {} => spacePods' = {}
    BY Zenon, <1>1 DEF OtherMove, NoneCreating
  <2>5. FencedStanding'
    BY Zenon, <1>1, <1>t, <2>2, <2>3, <2>4 DEF OtherMove, FencedStanding, Leaving
  <2>6. ASSUME NEW c \in CliCommands PROVE CommandStanding(c)'
    BY Zenon, <1>1, <1>t, <2>2, <2>3, <2>4 DEF OtherMove, CommandStanding, OffboardSteps
  <2> QED
    BY Zenon, <1>1, <2>1, <2>2, <2>5, <2>6 DEF OtherMove, TenancyInductive
<1>2. CASE \E c \in CliCommands : CommandStep(c) \/ CommandStops(c)
  <2>1. PICK c \in CliCommands : CommandStep(c) \/ CommandStops(c)
    BY Zenon, <1>2
  <2>2. CommandMove(c)
    <3>1. CASE CommandStops(c)
      BY Zenon, <3>1, CommandEnded DEF CommandStops
    <3> QED
      BY Zenon, <2>1, <3>1, OnboardMoves, OffboardMoves DEF CommandStep
  <2>3. /\ UNCHANGED <<tenancyWorker, spacePods, job>>
        /\ project' \in 0 .. MaxProjects /\ projects' \in 0 .. MaxProjects
        /\ space' \in [Spaces -> SpaceRecords]
        /\ \A e \in Spaces : space'[e].exists = space[e].exists /\ space'[e].suspended = space[e].suspended
        /\ spaceHeld' \in [Spaces -> SUBSET (CliCommands \cup {"operator"})]
    BY Zenon, <2>1, CommandsWorld
  <2>4. TenancyTyped'
    BY Zenon, <2>2, <2>3, <1>t DEF CommandMove, TenancyTyped
  <2>5. WorkersStanding' /\ NoneCreating' = NoneCreating
    BY Zenon, <2>3, <1>t DEF WorkersStanding, Creating, NoneCreating
  <2>6. EarlyStanding' /\ (Leaving /\ EarlyEnded => EarlyEnded')
    BY Zenon, <2>2, <2>3, <1>t DEF CommandMove, EarlyStanding, EarlyEnded
  <2>7. Leaving => Leaving'
    BY Zenon, <2>2, <1>t DEF CommandMove, ClaimForwardStep, Leaving
  <2>8. early' # early => claim.life = "active"
    BY Zenon, <2>2 DEF CommandMove
  <2>9. FencedStanding'
    <3> SUFFICES ASSUME claim'.life = "fenced" PROVE spacePods' = {} /\ NoneCreating' /\ EarlyEnded'
      BY Zenon DEF FencedStanding
    <3>1. spacePods = {} /\ NoneCreating /\ EarlyEnded
      BY Zenon, <2>2, <1>t DEF CommandMove, FencedStanding
    <3>2. claim.life # "active"
      BY Zenon, <2>2 DEF CommandMove, ClaimForwardStep
    <3> QED
      BY Zenon, <3>1, <3>2, <2>3, <2>5, <2>8 DEF EarlyEnded
  <2>10. ASSUME NEW d \in CliCommands PROVE CommandStanding(d)'
    <3>1. CASE d = c
      BY Zenon, <3>1, <2>2 DEF CommandMove
    <3>2. CASE d # c
      <4>1. cmd'[d] = cmd[d]
        BY Zenon, <3>2, <2>2 DEF CommandMove
      <4> QED
        BY <4>1, <1>t, <2>3, <2>5, <2>6, <2>7 DEF CommandStanding, OffboardSteps
    <3> QED
      BY Zenon, <3>1, <3>2
  <2> QED
    BY Zenon, <2>2, <2>4, <2>5, <2>6, <2>9, <2>10 DEF TenancyInductive, CommandMove
<1>3. CASE \E e \in Spaces : WorkerStep(e) \/ WorkerCrashes(e) \/ CreateSpace(e) \/ ReleaseHold(e)
  BY Zenon, <1>1, <1>3, WorkerMoves
<1>4. CASE DeleteProject \/ RecreateProject \/ UNCHANGED tenancyVars
  <2>1. /\ UNCHANGED <<claim, cmd, early, space, spaceHeld, spacePods, tenancyWorker, job>>
        /\ project' \in 0 .. MaxProjects /\ projects' \in 0 .. MaxProjects
    BY <1>4, <1>t, TenancyAssumption DEF DeleteProject, RecreateProject, tenancyVars, TenancyTyped
  <2>2. WorkersStanding' /\ \A e \in Spaces : Creating(e)' = Creating(e)
    BY Zenon, <2>1, <1>t DEF WorkersStanding, Creating
  <2> QED
    BY Zenon, <1>1, <1>t, <2>1, <2>2 DEF OtherMove, TenancyTyped
<1>5. CASE \E r \in Jobs : JobStep(r)
  <2>1. PICK r \in Jobs : JobStep(r)
    BY <1>5
  <2>2. /\ UNCHANGED <<claim, cmd, early, project, projects, space, spaceHeld, spacePods, tenancyWorker>>
        /\ job[r] # "ended"
        /\ job' = [job EXCEPT ![r] = "live"] \/ job' = [job EXCEPT ![r] = "ended"]
    BY Zenon, <2>1 DEF JobStep
  <2>3. WorkersStanding' /\ \A e \in Spaces : Creating(e)' = Creating(e)
    BY Zenon, <2>2, <1>t DEF WorkersStanding, Creating
  <2> QED
    BY Zenon, <1>1, <1>t, <2>2, <2>3 DEF OtherMove, TenancyTyped
<1> QED
  BY Zenon, <1>2, <1>3, <1>4, <1>5 DEF TenancyNext

\* The inductive invariant of the namespace claim holds in every reachable state, whatever
\* the commands, Environments, Runs and incarnations of the Project.
THEOREM TenancyIsInductive == TenancySpec => []TenancyInductive
<1>1. TenancyInit => TenancyInductive
  <2> SUFFICES ASSUME TenancyInit PROVE TenancyInductive
    OBVIOUS
  <2>1. TenancyTyped
    BY TenancyRecords, TenancyAssumption DEF TenancyInit, TenancyTyped
  <2>2. WorkersStanding /\ EarlyStanding /\ FencedStanding
    BY Zenon, TenancyRecords DEF TenancyInit, WorkersStanding, Creating, EarlyStanding, FencedStanding, NoClaim
  <2>3. \A c \in CliCommands : CommandStanding(c)
    BY Zenon, TenancyRecords DEF TenancyInit, CommandStanding, OnboardSteps, OffboardSteps
  <2> QED
    BY Zenon, <2>1, <2>2, <2>3 DEF TenancyInductive
<1>2. TenancyInductive /\ [TenancyNext]_tenancyVars => TenancyInductive'
  BY TenancyStep
<1> QED
  BY <1>1, <1>2, PTL DEF TenancySpec

\* For every number of commands, Environments and Runs: a namespace called fenced has no
\* Pod and gets none, the Runs that were there when offboarding began have ended, and the
\* claim moves only forward and names one Project for ever (offboardProject, patchNamespace).
THEOREM TenancyIsCorrect == TenancySpec => TenancyCorrect
<1>1. TenancyInductive => TenancyTypeOK /\ FencedHasNoPods /\ FencedRunsEnded
  <2> SUFFICES ASSUME TenancyInductive PROVE TenancyTypeOK /\ FencedHasNoPods /\ FencedRunsEnded
    OBVIOUS
  <2>1. TenancyTypeOK
    BY Zenon DEF TenancyInductive, TenancyTyped, TenancyTypeOK, Claims
  <2> QED
    BY Zenon, <2>1 DEF TenancyInductive, FencedStanding, FencedHasNoPods, FencedRunsEnded, EarlyEnded
<1>2. TenancyInductive /\ [TenancyNext]_tenancyVars => [ClaimForwardStep]_tenancyVars
  BY TenancyStep
<1> QED
  BY <1>1, <1>2, TenancyIsInductive, PTL DEF TenancySpec, TenancyCorrect, ClaimOnlyForward
=============================================================================
