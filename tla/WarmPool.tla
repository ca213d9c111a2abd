------------------------------ MODULE WarmPool ------------------------------
(***************************************************************************)
(* The warm pool of one EnvironmentTemplate: its reconciler, the Runs that *)
(* claim and promote (or give back) a member, and the Environments, which  *)
(* provision, fail and recover on their own. One action is one API call.   *)
(* An optimistic lock is the set "held" of members not written since the   *)
(* reconciler read them.                                                   *)
(***************************************************************************)
EXTENDS Integers, FiniteSets, Sequences

CONSTANTS Members,      \* names of Environments
          Claimers,     \* Runs that allocate a warm Environment
          Minimums,     \* values of spec.warmPool.min
          MaxTemplates  \* bound on generations of the Template

ASSUME WarmAssumption ==
    /\ IsFiniteSet(Members) /\ MaxTemplates \in Nat \ {0}
    /\ Minimums \subseteq Nat /\ \E m \in Minimums : \A n \in Minimums : n <= m

VARIABLES templates,  \* the Template's generations: provisioning inputs and minimum
          ready,      \* status.warmPoolReady
          member,     \* the Environments of the pool
          held,       \* members unchanged since the reconciler read them
          warmPool,       \* the reconciler
          claimer,    \* the Runs
          returned    \* claims given back

warmVars == <<templates, ready, member, held, warmPool, claimer, returned>>

Absent == [life |-> "absent", inputs |-> 0, fit |-> "starting", claimed |-> "none", mark |-> "none"]
Created == [Absent EXCEPT !.life = "unclaimed"]
NoPass == [step |-> "idle", seen |-> 0, todo |-> {}, active |-> {}, quarantined |-> 0,
           act |-> "none", on |-> "none"]
Gen == Len(templates)

WarmInit ==
    /\ templates \in {<<[inputs |-> 1, min |-> m]>> : m \in Minimums} /\ ready = 0
    /\ member = [e \in Members |-> Absent]
    /\ held = {} /\ warmPool = NoPass
    /\ claimer = [c \in Claimers |-> [step |-> "idle", on |-> "none"]] /\ returned = 0

\* An Environment that is still a pool member (its label and owner are).
InPool(m) == m.life = "unclaimed"
\* warmPoolMemberCurrent: its snapshot is the resolution of these inputs.
MemberCurrent(m, t) == InPool(m) /\ m.inputs = t.inputs
\* Quarantined: stale, failed, terminated or suspended.
Unusable(m, t) == ~MemberCurrent(m, t) \/ m.fit = "unusable"
Countable(m) == InPool(m) /\ m.claimed = "none"
Write(e, m) == member' = [member EXCEPT ![e] = m] /\ held' = held \ {e}
SeenTemplate == templates[warmPool.seen]

(* ---- the reconciler --------------------------------------------------- *)

\* What a member needs: a cleanup mark, its deletion after the grace, or the mark
\* removed because it recovered.
Needs(m, t) ==
    CASE Unusable(m, t) /\ m.mark = "none" -> "mark"
      [] Unusable(m, t) /\ m.mark = "due" -> "delete"
      [] ~Unusable(m, t) /\ m.mark # "none" -> "clear"
      [] OTHER -> "none"

\* The pass ends: nothing it read is used again.
Stop == warmPool' = NoPass /\ held' = {}

\* Reconcile: the Template from the cache, then the members, uncached; the number
\* of ready ones is published under the Template's optimistic lock.
ReadPool ==
    /\ warmPool.step = "idle"
    /\ \E k \in 1 .. Gen :
         LET t == templates[k]
             listed == {e \in Members : Countable(member[e])}
             unusable == {e \in listed : Unusable(member[e], t)}
             count == Cardinality({e \in listed \ unusable : member[e].fit = "ready"})
         IN  IF ready # count /\ k # Gen
             THEN UNCHANGED <<warmPool, held, ready>>
             ELSE /\ ready' = count
                  /\ warmPool' = [NoPass EXCEPT
                        !.step = "sweep", !.seen = k,
                        !.active = listed \ unusable, !.quarantined = Cardinality(unusable),
                        !.todo = {<<e, Needs(member[e], t)>> : e \in {x \in listed : Needs(member[x], t) # "none"}}]
                  /\ held' = listed
    /\ UNCHANGED <<templates, member, claimer, returned>>

\* templateCurrent, before every write.
CheckTemplate(next) ==
    IF warmPool.seen = Gen THEN warmPool' = [next EXCEPT !.step = "write"] /\ UNCHANGED held ELSE Stop

\* The writes the listed members need, each proved against the Template.
Sweep ==
    /\ warmPool.step = "sweep"
    /\ \E w \in warmPool.todo : CheckTemplate([warmPool EXCEPT !.todo = @ \ {w}, !.act = w[2], !.on = w[1]])
    /\ UNCHANGED <<templates, ready, member, claimer, returned>>

\* Mutant: members in their grace are not counted.
NeedsMore_NoSurge == Cardinality(warmPool.active) < SeenTemplate.min

\* Replacements are bounded by one complete set beside the quarantined one.
NeedsMore == /\ Cardinality(warmPool.active) < SeenTemplate.min
             /\ Cardinality(warmPool.active) + warmPool.quarantined < SeenTemplate.min + SeenTemplate.min

\* After the sweep: one more member, one member too many, or done.
Balance ==
    /\ warmPool.step = "sweep" /\ warmPool.todo = {}
    /\ \/ /\ NeedsMore
          /\ \E e \in Members : /\ member[e].life = "absent" /\ e \notin warmPool.active
                                /\ CheckTemplate([warmPool EXCEPT !.act = "create", !.on = e])
       \/ /\ Cardinality(warmPool.active) > SeenTemplate.min
          /\ \E e \in warmPool.active :
               CheckTemplate([warmPool EXCEPT !.act = "trim", !.on = e, !.active = @ \ {e}])
       \/ /\ ~NeedsMore /\ Cardinality(warmPool.active) <= SeenTemplate.min
          /\ Stop
    /\ UNCHANGED <<templates, ready, member, claimer, returned>>

\* Delete carries the UID and the resourceVersion that were read.
DeleteAllowed(e) == e \in held

WritePool ==
    /\ warmPool.step = "write"
    /\ LET e == warmPool.on
           go == [warmPool EXCEPT !.step = "sweep", !.act = "none", !.on = "none"]
       IN  CASE warmPool.act = "create" ->
                  /\ member[e].life = "absent"
                  /\ Write(e, Created) /\ warmPool' = [warmPool EXCEPT !.step = "created"]
             [] warmPool.act \in {"mark", "clear"} /\ e \in held ->
                  /\ member' = [member EXCEPT ![e].mark = IF warmPool.act = "mark" THEN "grace" ELSE "none"]
                  /\ warmPool' = go /\ UNCHANGED held
             [] warmPool.act \in {"delete", "trim"} /\ DeleteAllowed(e) ->
                  /\ Write(e, Absent)
                  /\ warmPool' = IF warmPool.act = "delete" THEN [go EXCEPT !.quarantined = @ - 1] ELSE go
             [] OTHER -> Stop /\ UNCHANGED member
    /\ UNCHANGED <<templates, ready, claimer, returned>>

\* The Template is read once more after a create; a stale member is read and
\* deleted under what was read.
CheckCreated ==
    /\ warmPool.step = "created"
    /\ IF warmPool.seen = Gen
       THEN warmPool' = [warmPool EXCEPT !.step = "sweep", !.active = @ \cup {warmPool.on}, !.act = "none", !.on = "none"] /\ UNCHANGED held
       ELSE IF member[warmPool.on].life = "absent" THEN Stop
       ELSE warmPool' = [warmPool EXCEPT !.step = "undo"] /\ held' = held \cup {warmPool.on}
    /\ UNCHANGED <<templates, ready, member, claimer, returned>>

UndoCreate ==
    /\ warmPool.step = "undo"
    /\ member' = IF warmPool.on \in held THEN [member EXCEPT ![warmPool.on] = Absent] ELSE member
    /\ Stop
    /\ UNCHANGED <<templates, ready, claimer, returned>>

\* The operator restarts: the pass is lost, the cleanup marks are not.
RestartPool ==
    /\ warmPool.step # "idle" /\ Stop
    /\ UNCHANGED <<templates, ready, member, claimer, returned>>

(* ---- the Runs --------------------------------------------------------- *)

\* claimWarmEnvironment: a ready current member, under its optimistic lock.
Claim(c, e) ==
    /\ claimer[c].step = "idle" /\ Countable(member[e])
    /\ MemberCurrent(member[e], templates[Gen]) /\ member[e].fit = "ready"
    /\ Write(e, [member[e] EXCEPT !.claimed = c])
    /\ claimer' = [claimer EXCEPT ![c] = [step |-> "confirm", on |-> e]]
    /\ UNCHANGED <<templates, ready, warmPool, returned>>

\* The Template is read again: promote, or give the claim back.
Confirm(c) ==
    /\ claimer[c].step = "confirm"
    /\ claimer' = [claimer EXCEPT ![c].step = IF MemberCurrent(member[claimer[c].on], templates[Gen])
                                              THEN "promote" ELSE "return"]
    /\ UNCHANGED <<templates, ready, member, held, warmPool, returned>>

Promote(c) ==
    /\ claimer[c].step = "promote"
    /\ LET e == claimer[c].on
       IN  IF member[e].claimed = c THEN Write(e, [member[e] EXCEPT !.life = "promoted"]) ELSE UNCHANGED <<member, held>>
    /\ claimer' = [claimer EXCEPT ![c].step = "done"]
    /\ UNCHANGED <<templates, ready, warmPool, returned>>

Return(c) ==
    /\ claimer[c].step = "return"
    /\ LET e == claimer[c].on
       IN  IF member[e].claimed = c
           THEN Write(e, [member[e] EXCEPT !.claimed = "none"]) /\ returned' = returned + 1
           ELSE UNCHANGED <<member, held, returned>>
    /\ claimer' = [claimer EXCEPT ![c] = [step |-> "idle", on |-> "none"]]
    /\ UNCHANGED <<templates, ready, warmPool>>

(* ---- the Environments and the Template -------------------------------- *)

\* The Environment captures the Template's inputs.
Provision(e) ==
    /\ InPool(member[e]) /\ member[e].inputs = 0
    /\ Write(e, [member[e] EXCEPT !.inputs = templates[Gen].inputs])
    /\ UNCHANGED <<templates, ready, warmPool, claimer, returned>>

\* It becomes ready, fails or is paused, and may recover.
Health(e) ==
    /\ InPool(member[e]) /\ member[e].inputs # 0
    /\ \E fit \in {"ready", "unusable"} \ {member[e].fit} : Write(e, [member[e] EXCEPT !.fit = fit])
    /\ UNCHANGED <<templates, ready, warmPool, claimer, returned>>

\* warmPoolCleanupGrace passes since the recorded instant.
GraceEnds(e) ==
    /\ InPool(member[e]) /\ member[e].mark = "grace"
    /\ member' = [member EXCEPT ![e].mark = "due"]
    /\ UNCHANGED <<templates, ready, held, warmPool, claimer, returned>>

EditTemplate ==
    /\ Gen < MaxTemplates
    /\ \E m \in Minimums, i \in {templates[Gen].inputs, templates[Gen].inputs + 1} :
         templates' = Append(templates, [inputs |-> i, min |-> m])
    /\ UNCHANGED <<ready, member, held, warmPool, claimer, returned>>

WarmNext ==
    \/ ReadPool \/ Sweep \/ Balance \/ WritePool
    \/ CheckCreated \/ UndoCreate \/ RestartPool \/ EditTemplate
    \/ \E e \in Members : Provision(e) \/ Health(e) \/ GraceEnds(e)
    \/ \E c \in Claimers : Confirm(c) \/ Promote(c) \/ Return(c) \/ \E e \in Members : Claim(c, e)

WarmSpec == WarmInit /\ [][WarmNext]_warmVars

(* ---- properties ------------------------------------------------------- *)

\* Types of the Template, the members and the reconciler's pass.
WarmTypeOK ==
    /\ ready \in 0 .. Cardinality(Members) /\ held \subseteq Members /\ Gen \in 1 .. MaxTemplates
    /\ \A e \in Members : /\ member[e].life \in {"absent", "unclaimed", "promoted"}
                          /\ member[e].mark \in {"none", "grace", "due"}
                          /\ member[e].fit \in {"starting", "ready", "unusable"}
    /\ warmPool.active \subseteq Members /\ warmPool.quarantined \in Nat

LargestMin == CHOOSE m \in Minimums : \A n \in Minimums : n <= m
Unclaimed == {e \in Members : Countable(member[e])}

\* However members fail, go stale and are replaced, the pool holds at most
\* twice its minimum, beside the members a Run gave back (maxSurge).
SurgeBounded == Cardinality(Unclaimed) <= 2 * LargestMin + returned

\* Cleanup and trimming delete no member that a Run has claimed: the claim
\* changed the resourceVersion that the delete carries.
SweptIsUnclaimedStep ==
    \A e \in Members : warmPool.step = "write" /\ member'[e] = Absent => member[e] = Absent \/ Countable(member[e])
SweptIsUnclaimed == [][SweptIsUnclaimedStep]_warmVars

\* The pool's invariant and what its sweep may delete, together
\* (WarmPoolReconciler.Reconcile).
WarmCorrect == [](WarmTypeOK /\ SurgeBounded) /\ SweptIsUnclaimed
=============================================================================
