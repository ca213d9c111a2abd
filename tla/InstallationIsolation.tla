----------------------- MODULE InstallationIsolation ------------------------
(***************************************************************************)
(* The installation's isolation selection: the controller that fences every *)
(* Environment before another selection takes effect, and the Environments *)
(* that check it before and after they create an execution. One action is  *)
(* one API call. A status update carries the resourceVersion that was read. *)
(***************************************************************************)
EXTENDS Integers, FiniteSets

CONSTANTS Envs,        \* Environments of this installation
          Selections,  \* selections an administrator makes
          MaxChanges,  \* bound on changes of the selection and its dependencies
          IsoFaults    \* API reads may fail: TRUE or FALSE

\* "none" is an omitted selection, "dev" unrestricted development.
AllSelections == {"none", "dev", "restricted", "invalid"}
IsoStates == {"unset", "Legacy", "Fencing", "Blocked", "Active"}
NoDeps == 0

VARIABLES install,   \* the Installation: selection, its generation, status
          deps,      \* version of what a restricted selection depends on, 0 if broken
          changes,   \* changes so far
          iso,       \* the controller
          isoFresh,  \* the Installation is as the controller read it
          parts,     \* what exists of every Environment's execution
          outdated,  \* Environments with something left from before the last published fence
          ctl        \* the Environment controller

isoVars == <<install, deps, changes, iso, isoFresh, parts, outdated, ctl>>

NoStatus == [state |-> "unset", sel |-> "none", deps |-> NoDeps, gen |-> 0]
IdleIso == [step |-> "idle", seen |-> [sel |-> "none", gen |-> 0, status |-> NoStatus], deps |-> NoDeps, left |-> {}]

IsoInit ==
    /\ install \in {[sel |-> s, gen |-> 1, status |-> NoStatus] : s \in Selections \cap {"none", "dev"}}
    /\ deps = 1 /\ changes = 0
    /\ iso = IdleIso /\ isoFresh = FALSE
    /\ parts = [e \in Envs |-> {}] /\ outdated = {}
    /\ ctl = [e \in Envs |-> "idle"]

\* legacyCompatibleIsolationStatus
LegacyCompatible(st) == st.sel = "none" /\ st.deps = NoDeps /\ st.state \in {"unset", "Legacy"}

\* unrestrictedAuthorityMatches
Unrestricted(st) == st.state = "Active" /\ st.sel = "dev" /\ st.deps = NoDeps

\* Mutant: the selection without its status.
Allowed_Spec(i) == i.sel \in {"none", "dev"}

\* installationExecutionAllowed: the selection and the status published for it.
Allowed(i) ==
    \/ i.sel \in {"none", "dev"} /\ LegacyCompatible(i.status)
    \/ i.sel = "dev" /\ Unrestricted(i.status) /\ i.status.gen = i.gen

(* ---- the controller --------------------------------------------------- *)

Status(state, sel, d) == [state |-> state, sel |-> sel, deps |-> d, gen |-> iso.seen.gen]
Observed == IF iso.seen.sel = "invalid" THEN "none" ELSE iso.seen.sel

\* updateStatus: nothing when it is already so; a conflict ends the pass.
Publish(st) ==
    /\ install' = IF isoFresh THEN [install EXCEPT !.status = st] ELSE install
    /\ outdated' = IF isoFresh /\ st.state = "Fencing" /\ install.status.state # "Fencing"
                   THEN {e \in Envs : parts[e] # {}} ELSE outdated
    /\ iso' = IdleIso /\ isoFresh' = FALSE

IsoRead ==
    /\ iso.step = "idle"
    /\ iso' = [IdleIso EXCEPT !.step = "decide", !.seen = install] /\ isoFresh' = TRUE
    /\ UNCHANGED <<install, deps, changes, parts, outdated, ctl>>

Open(sel) == IF sel = "dev" THEN Status("Active", "dev", NoDeps) ELSE Status("Legacy", "none", NoDeps)
Closing(sel) == Status("Fencing", IF sel = "dev" THEN "dev" ELSE "none", NoDeps)

\* Adoption from the legacy state, or a selection already active.
NoFenceNeeded(st, sel) == LegacyCompatible(st) \/ (sel = "dev" /\ Unrestricted(st))

\* reconcileLegacySelection, reconcileUnrestrictedSelection.
DecideOpen ==
    /\ iso.step = "decide" /\ iso.seen.sel \in {"none", "dev"}
    /\ LET st == iso.seen.status
           sel == iso.seen.sel
       IN  IF NoFenceNeeded(st, sel) THEN Publish(Open(sel))
           ELSE IF st # Closing(sel) THEN Publish(Closing(sel))
           ELSE iso' = [iso EXCEPT !.step = "list"] /\ UNCHANGED <<install, outdated, isoFresh>>
    /\ UNCHANGED <<deps, changes, parts, ctl>>

\* A restricted selection is published as Fencing before its dependencies are read.
DecideClosed ==
    /\ iso.step = "decide" /\ iso.seen.sel \in {"restricted", "invalid"}
    /\ LET st == iso.seen.status
       IN  IF st.sel # Observed \/ st.state \notin {"Fencing", "Blocked"}
           THEN Publish(Status("Fencing", Observed, NoDeps))
           ELSE /\ iso' = [iso EXCEPT !.step = IF iso.seen.sel = "restricted" THEN "resolve" ELSE "compare"]
                /\ UNCHANGED <<install, outdated, isoFresh>>
    /\ UNCHANGED <<deps, changes, parts, ctl>>

\* resolveRestrictedSelection: the identities and the revision, or an error.
Resolve ==
    /\ iso.step = "resolve"
    /\ \/ iso' = [iso EXCEPT !.step = "compare", !.deps = deps]
       \/ IsoFaults /\ iso' = [iso EXCEPT !.step = "compare"]
    /\ UNCHANGED <<install, deps, changes, isoFresh, parts, outdated, ctl>>

\* sameIsolationDependencyAuthority
SameAuthority(st) == st.deps = iso.deps

\* reconcileBlockedSelection: another authority goes through Fencing again.
Compare ==
    /\ iso.step = "compare"
    /\ LET st == iso.seen.status
       IN  IF st.state = "Blocked" /\ ~SameAuthority(st)
           THEN Publish(Status("Fencing", Observed, iso.deps))
           ELSE iso' = [iso EXCEPT !.step = "list"] /\ UNCHANGED <<install, outdated, isoFresh>>
    /\ UNCHANGED <<deps, changes, parts, ctl>>

Settled(fenced) ==
    IF iso.seen.sel \in {"none", "dev"}
    THEN IF fenced THEN Open(iso.seen.sel) ELSE iso.seen.status
    ELSE Status(IF fenced THEN "Blocked" ELSE "Fencing", Observed, iso.deps)

\* allEnvironmentExecutionsFenced: the list shows what is published ...
ListEnvironments ==
    /\ iso.step = "list"
    /\ \/ /\ \/ \E e \in Envs : "conn" \in parts[e]
             \/ IsoFaults
          /\ Publish(Settled(FALSE))
       \/ /\ \A e \in Envs : "conn" \notin parts[e]
          /\ iso' = [iso EXCEPT !.step = "probe", !.left = Envs] /\ UNCHANGED <<install, outdated, isoFresh>>
    /\ UNCHANGED <<deps, changes, parts, ctl>>

\* Mutant: the credential is not looked up.
ProbeFinds_PodOnly(e) == "pod" \in parts[e]

\* ... then the Pod and the credential of each are looked up.
ProbeFinds(e) == parts[e] # {}

Probe(e) ==
    /\ iso.step = "probe" /\ e \in iso.left
    /\ IF ProbeFinds(e) THEN Publish(Settled(FALSE))
       ELSE iso' = [iso EXCEPT !.left = @ \ {e}] /\ UNCHANGED <<install, outdated, isoFresh>>
    /\ UNCHANGED <<deps, changes, parts, ctl>>

Settle ==
    /\ iso.step = "probe" /\ iso.left = {}
    /\ Publish(Settled(TRUE))
    /\ UNCHANGED <<deps, changes, parts, ctl>>

(* ---- the Environments ------------------------------------------------- *)

EnvUnchanged == UNCHANGED <<install, deps, changes, iso, isoFresh>>

\* The outer gate passes; the credential, then the Pod are created, each after
\* the sources were found current.
EnvAdmits(e) ==
    /\ ctl[e] = "idle" /\ Allowed(install) /\ parts[e] # {"cred", "pod", "conn"}
    /\ ctl' = [ctl EXCEPT ![e] = "admitted"]
    /\ UNCHANGED <<parts, outdated>> /\ EnvUnchanged

EnvCreates(e) ==
    /\ ctl[e] = "admitted" /\ "pod" \notin parts[e]
    /\ IF "cred" \notin parts[e]
       THEN parts' = [parts EXCEPT ![e] = @ \cup {"cred"}] /\ ctl' = [ctl EXCEPT ![e] = "idle"] 
       ELSE /\ parts' = [parts EXCEPT ![e] = @ \cup {"pod"}] 
            /\ ctl' = [ctl EXCEPT ![e] = "created"]
    /\ UNCHANGED outdated /\ EnvUnchanged

\* backendCreationSourcesCurrent once more: a Pod created too late is deleted.
EnvRechecks(e) ==
    /\ ctl[e] = "created"
    /\ parts' = IF Allowed(install) THEN parts ELSE [parts EXCEPT ![e] = @ \ {"pod"}]
    /\ ctl' = [ctl EXCEPT ![e] = "idle"]
    /\ outdated' = {i \in outdated : parts'[i] # {}} /\ EnvUnchanged

\* A running Pod is published by a reconcile whose gate passed.
EnvPublishes(e) ==
    /\ ctl[e] = "admitted" /\ "pod" \in parts[e]
    /\ parts' = [parts EXCEPT ![e] = @ \cup {"conn"}]
    /\ ctl' = [ctl EXCEPT ![e] = "idle"]
    /\ outdated' = {i \in outdated : parts'[i] # {}} /\ EnvUnchanged

\* The gate refuses: readiness, then the Pod, then the credential go.
EnvFences(e) ==
    /\ ctl[e] = "idle" /\ ~Allowed(install) /\ parts[e] # {}
    /\ parts' = [parts EXCEPT ![e] = @ \ (IF "conn" \in @ THEN {"conn"} ELSE IF "pod" \in @ THEN {"pod"} ELSE {"cred"})]
    /\ UNCHANGED ctl /\ outdated' = {i \in outdated : parts'[i] # {}} /\ EnvUnchanged

(* ---- the administrator ------------------------------------------------ *)

Select(s) ==
    /\ changes < MaxChanges /\ s # install.sel
    /\ install' = [install EXCEPT !.sel = s, !.gen = @ + 1]
    /\ changes' = changes + 1 /\ isoFresh' = FALSE
    /\ UNCHANGED <<deps, iso, parts, outdated, ctl>>

DependencyChanges ==
    /\ changes < MaxChanges
    /\ \E d \in {NoDeps, 1, 2} \ {deps} : deps' = d
    /\ changes' = changes + 1
    /\ UNCHANGED <<install, iso, isoFresh, parts, outdated, ctl>>

IsoStep == IsoRead \/ DecideOpen \/ DecideClosed \/ Resolve \/ Compare \/ ListEnvironments \/ Settle
           \/ \E e \in Envs : Probe(e)
EnvStep(e) == EnvAdmits(e) \/ EnvCreates(e) \/ EnvRechecks(e) \/ EnvPublishes(e) \/ EnvFences(e)

IsoNext ==
    \/ IsoStep \/ DependencyChanges
    \/ \E e \in Envs : EnvStep(e)
    \/ \E s \in Selections : Select(s)

IsoSpec == IsoInit /\ [][IsoNext]_isoVars

\* The controllers are requeued until they have nothing to do.
IsoFairness == WF_isoVars(IsoStep) /\ \A e \in Envs : WF_isoVars(EnvStep(e))

(* ---- properties ------------------------------------------------------- *)

\* Types of the selection, the status and the executions.
IsoTypeOK ==
    /\ install.sel \in Selections /\ install.status.state \in IsoStates /\ deps \in 0 .. 2
    /\ \A e \in Envs : /\ parts[e] \subseteq {"conn", "pod", "cred"} 
                       /\ ctl[e] \in {"idle", "admitted", "created"}

\* What was there of an execution when the fence was published, its Pod and its credential,
\* is gone before execution is reopened or the fence is called complete
\* (allEnvironmentExecutionsFenced).
FencedBeforeSettled ==
    install.status.state \in {"Blocked", "Active", "Legacy"} =>
        outdated = {}

\* Nothing is published for a Pod that is not there.
ConnectionHasPod == \A e \in Envs : "conn" \in parts[e] => "pod" \in parts[e]

\* An established authority, open or blocked, is never replaced by another without a
\* published Fencing between; only the legacy state is adopted as it is
\* (sameIsolationDependencyAuthority, reconcileUnrestrictedSelection).
AuthorityThroughFencingStep ==
    LET a == install.status b == install'.status
    IN  /\ a.state \in {"Active", "Blocked"} /\ b.state # "Fencing" =>
               b.state = a.state /\ b.deps = a.deps /\ b.sel = a.sel
        /\ a.state = "Legacy" => b.state \in {"Legacy", "Active", "Fencing"}
AuthorityThroughFencing == [][AuthorityThroughFencingStep]_isoVars

\* Once the selection stays, its status settles and so do the Environments: a
\* restricted or invalid selection is Blocked and nothing is left running.
IsolationSettles ==
    <>[](/\ install.sel \in {"restricted", "invalid"} => install.status.state = "Blocked" /\ \A e \in Envs : parts[e] = {}
         /\ install.sel = "dev" => install.status.state = "Active"
         /\ install.sel = "none" => install.status.state = "Legacy")

\* Isolation: its states, and the fence between two authorities
\* (reconcileBlockedSelection).
IsoCorrect == [](IsoTypeOK /\ FencedBeforeSettled /\ ConnectionHasPod) /\ AuthorityThroughFencing
=============================================================================
