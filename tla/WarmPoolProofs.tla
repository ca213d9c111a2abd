--------------------------- MODULE WarmPoolProofs ---------------------------
(***************************************************************************)
(* The warm pool is correct for every number of members, claimers, template*)
(* changes and returns.                                                    *)
(***************************************************************************)
EXTENDS WarmPool, FiniteSetTheorems, TLAPS

(* ---- the warm pool ---------------------------------------------------- *)

\* A template, a member of its pool, a pass of the controller and a claim of a Run; the types of
\* the state.
TemplateRecords == [inputs : Nat, min : Minimums]
MemberRecords ==
    [life : {"absent", "unclaimed", "promoted"}, inputs : Nat, fit : {"starting", "ready", "unusable"},
     claimed : Claimers \cup {"none"}, mark : {"none", "grace", "due"}]
PoolPasses ==
    [step : {"idle", "sweep", "write", "created", "undo"}, seen : Nat,
     todo : SUBSET (Members \X {"mark", "delete", "clear"}), active : SUBSET Members, quarantined : Nat,
     act : {"none", "mark", "delete", "clear", "create", "trim"}, on : Members \cup {"none"}]
ClaimerRecords == [step : {"idle", "confirm", "promote", "return", "done"}, on : Members \cup {"none"}]

WarmTyped ==
    /\ templates \in Seq(TemplateRecords) /\ Gen \in 1 .. MaxTemplates
    /\ ready \in 0 .. Cardinality(Members) /\ returned \in Nat
    /\ member \in [Members -> MemberRecords] /\ held \subseteq Members
    /\ \A e \in Members : member[e].life = "absent" => member[e] = Absent
    /\ warmPool \in PoolPasses
    /\ claimer \in [Claimers -> ClaimerRecords]
    /\ \A c \in Claimers : claimer[c].step \in {"confirm", "promote", "return"} => claimer[c].on \in Members

\* What a pass is about to write is on a member; what it is about to create is new to it,
\* and was needed when it looked.
WriteStanding ==
    /\ warmPool.step # "idle" => warmPool.seen \in 1 .. Gen
    /\ warmPool.step \in {"write", "created", "undo"} => warmPool.on \in Members
    /\ warmPool.step = "write" /\ warmPool.act = "create" => NeedsMore
    /\ warmPool.step = "created" \/ (warmPool.step = "write" /\ warmPool.act = "create") => warmPool.on \notin warmPool.active

\* What a pass still holds as it read it is unclaimed.
HeldStanding == warmPool.step # "undo" => held \subseteq Unclaimed

\* The member created and not yet counted, or counted out and not yet deleted.
InFlight == IF warmPool.step = "created" \/ (warmPool.step = "write" /\ warmPool.act = "trim") THEN 1 ELSE 0
\* The members a pass has still to delete, and the one it is deleting.
Doomed == {e \in Members : <<e, "delete">> \in warmPool.todo}
Deleting == IF warmPool.step = "write" /\ warmPool.act = "delete" THEN 1 ELSE 0

\* The pool holds no more than a pass has counted, beside what was given back since; the
\* deletions it has still to make are among those it counted as quarantined.
CountStanding ==
    warmPool.step \in {"sweep", "write", "created"} =>
        /\ Cardinality(Unclaimed) <= Cardinality(warmPool.active) + InFlight + warmPool.quarantined + returned
        /\ Cardinality(Doomed) + Deleting <= warmPool.quarantined

\* What stands in every reachable state of WarmPool.
WarmInductive == WarmTyped /\ WriteStanding /\ HeldStanding /\ CountStanding /\ SurgeBounded

\* Sets of members are finite, and a subset has no more members.
LEMMA MembersFinite ==
    /\ \A S \in SUBSET Members : IsFiniteSet(S) /\ Cardinality(S) \in Nat
    /\ \A S \in SUBSET Members : \A T \in SUBSET S : Cardinality(T) <= Cardinality(S)
    /\ \A S \in SUBSET Members : \A e \in S : Cardinality(S \ {e}) = Cardinality(S) - 1
    /\ \A S \in SUBSET Members : \A e \in Members \ S : Cardinality(S \cup {e}) = Cardinality(S) + 1
    /\ Unclaimed \in SUBSET Members /\ Unclaimed' \in SUBSET Members
<1>1. ASSUME NEW S \in SUBSET Members PROVE IsFiniteSet(S) /\ Cardinality(S) \in Nat
  BY Zenon, WarmAssumption, FS_Subset, FS_CardinalityType
<1>2. ASSUME NEW S \in SUBSET Members, NEW T \in SUBSET S PROVE Cardinality(T) <= Cardinality(S)
  BY Zenon, <1>1, FS_Subset
<1>3. ASSUME NEW S \in SUBSET Members, NEW e \in S PROVE Cardinality(S \ {e}) = Cardinality(S) - 1
  BY Zenon, <1>1, FS_RemoveElement
<1>4. ASSUME NEW S \in SUBSET Members, NEW e \in Members \ S PROVE Cardinality(S \cup {e}) = Cardinality(S) + 1
  BY Zenon, <1>1, FS_AddElement
<1> QED
  BY Zenon, <1>1, <1>2, <1>3, <1>4 DEF Unclaimed

\* The largest minimum bounds every minimum.
LEMMA LargestMinBounds == LargestMin \in Nat /\ \A m \in Minimums : m <= LargestMin
<1>1. \E m \in Minimums : \A n \in Minimums : n <= m
  BY Zenon, WarmAssumption
<1>2. LargestMin \in Minimums /\ \A n \in Minimums : n <= LargestMin
  BY Zenon, <1>1 DEF LargestMin
<1> QED
  BY Zenon, <1>2, WarmAssumption

\* The empty pass and the members written from scratch have their types.
LEMMA WarmRecords ==
    /\ NoPass \in PoolPasses /\ NoPass.step = "idle"
    /\ Absent \in MemberRecords /\ Absent.life = "absent" /\ Created \in MemberRecords /\ Created.life = "unclaimed" /\ Created.claimed = "none"
<1>1. NoPass \in PoolPasses /\ NoPass.step = "idle"
  BY Zenon DEF NoPass, PoolPasses
<1>2. Absent \in MemberRecords /\ Absent.life = "absent" /\ Absent.claimed = "none"
  BY Zenon DEF Absent, MemberRecords
<1>3. Created = [life |-> "unclaimed", inputs |-> 0, fit |-> "starting", claimed |-> "none", mark |-> "none"]
  BY DEF Created, Absent
<1>4. Created \in MemberRecords /\ Created.life = "unclaimed" /\ Created.claimed = "none"
  BY Zenon, <1>3 DEF MemberRecords
<1> QED
  BY Zenon, <1>1, <1>2, <1>4

\* What is left when a pass stops: the members and their bound.
LEMMA PassStops ==
    ASSUME WarmInductive, Stop, UNCHANGED <<templates, claimer, returned>>, ready' \in 0 .. Cardinality(Members),
           member' \in [Members -> MemberRecords], \A e \in Members : member'[e].life = "absent" => member'[e] = Absent,
           Unclaimed' \subseteq Unclaimed
    PROVE  WarmInductive'
<1>1. warmPool' = NoPass /\ held' = {}
  BY Zenon DEF Stop
<1>2. WarmTyped'
  BY Zenon, <1>1, WarmRecords DEF WarmInductive, WarmTyped, Gen
<1>3. WriteStanding' /\ HeldStanding' /\ CountStanding'
  BY Zenon, <1>1, WarmRecords DEF WriteStanding, HeldStanding, CountStanding
<1>4. Cardinality(Unclaimed') <= Cardinality(Unclaimed) /\ Cardinality(Unclaimed') \in Nat /\ Cardinality(Unclaimed) \in Nat
  BY Zenon, MembersFinite
<1>5. returned \in Nat /\ Cardinality(Unclaimed) <= 2 * LargestMin + returned /\ LargestMin \in Nat
  BY Zenon, LargestMinBounds DEF WarmInductive, WarmTyped, SurgeBounded
<1>6. Cardinality(Unclaimed') <= 2 * LargestMin + returned'
  BY <1>4, <1>5
<1>7. SurgeBounded'
  BY Zenon, <1>6 DEF SurgeBounded
<1> QED
  BY Zenon, <1>2, <1>3, <1>7 DEF WarmInductive

\* The pool grows by steps outside a pass only by what is given back.
LEMMA OutsideKeeps ==
    ASSUME WarmInductive, UNCHANGED <<ready, warmPool>>, WarmTyped',
           Gen <= Gen', \A k \in 1 .. Gen : templates'[k] = templates[k],
           held' \subseteq held, \A e \in held' : member'[e].life = member[e].life /\ member'[e].claimed = member[e].claimed,
           Cardinality(Unclaimed') + returned <= Cardinality(Unclaimed) + returned'
    PROVE  WarmInductive'
<1>t. /\ WarmTyped /\ WriteStanding /\ HeldStanding /\ CountStanding /\ SurgeBounded /\ returned \in Nat /\ returned' \in Nat
      /\ Gen \in Nat /\ Gen' \in Nat
  BY WarmAssumption DEF WarmInductive, WarmTyped
<1>n. Cardinality(Unclaimed) \in Nat /\ Cardinality(Unclaimed') \in Nat
  BY Zenon, MembersFinite
<1>1. WriteStanding'
  <2>1. warmPool.step # "idle" => SeenTemplate' = SeenTemplate
    BY Zenon, <1>t DEF SeenTemplate, WriteStanding
  <2>2. warmPool.step # "idle" => warmPool.seen \in 1 .. Gen'
    BY <1>t DEF WriteStanding
  <2> QED
    BY Zenon, <1>t, <2>1, <2>2 DEF WriteStanding, NeedsMore
<1>2. HeldStanding'
  BY Zenon, <1>t DEF HeldStanding, Unclaimed, Countable, InPool, WarmTyped
<1>3. CountStanding'
  <2> SUFFICES ASSUME warmPool.step \in {"sweep", "write", "created"}
               PROVE  /\ Cardinality(Unclaimed') <= Cardinality(warmPool.active) + InFlight + warmPool.quarantined + returned'
                      /\ Cardinality(Doomed) + Deleting <= warmPool.quarantined
    BY Zenon DEF CountStanding, InFlight, Doomed, Deleting
  <2>1. Cardinality(warmPool.active) \in Nat /\ InFlight \in Nat /\ warmPool.quarantined \in Nat
    BY Zenon, <1>t, MembersFinite DEF WarmTyped, PoolPasses, InFlight
  <2> QED
    BY <1>t, <1>n, <2>1 DEF CountStanding
<1>4. Cardinality(Unclaimed') <= 2 * LargestMin + returned'
  BY <1>t, <1>n, LargestMinBounds DEF SurgeBounded
<1>5. SurgeBounded'
  BY Zenon, <1>4 DEF SurgeBounded
<1> QED
  BY Zenon, <1>1, <1>2, <1>3, <1>5 DEF WarmInductive

\* One member is written: the others stay, and it is counted as what it has become.
LEMMA MemberWritten ==
    ASSUME WarmTyped, NEW e \in Members, NEW m \in MemberRecords, member' = [member EXCEPT ![e] = m]
    PROVE  /\ member' \in [Members -> MemberRecords] /\ member'[e] = m /\ \A f \in Members \ {e} : member'[f] = member[f]
           /\ Countable(m) => Unclaimed' = Unclaimed \cup {e}
           /\ ~Countable(m) => Unclaimed' = Unclaimed \ {e}
<1>1. member' \in [Members -> MemberRecords] /\ member'[e] = m /\ \A f \in Members \ {e} : member'[f] = member[f]
  BY Zenon DEF WarmTyped
<1>2. Unclaimed' = {f \in Members : Countable(member'[f])}
  BY Zenon DEF Unclaimed, Countable, InPool
<1> QED
  BY Zenon, <1>1, <1>2 DEF Unclaimed

\* Runs, Environments and the Template's editor keep the invariant.
LEMMA OutsideStep ==
    ASSUME WarmInductive,
           \/ EditTemplate \/ (\E e \in Members : Provision(e) \/ Health(e) \/ GraceEnds(e))
           \/ \E c \in Claimers : Confirm(c) \/ Promote(c) \/ Return(c) \/ \E e \in Members : Claim(c, e)
    PROVE  WarmInductive' /\ SweptIsUnclaimedStep
<1>t. /\ WarmTyped /\ member \in [Members -> MemberRecords] /\ returned \in Nat /\ Gen \in Nat
      /\ claimer \in [Claimers -> ClaimerRecords] /\ templates \in Seq(TemplateRecords)
  BY WarmAssumption DEF WarmInductive, WarmTyped
<1>n. Cardinality(Unclaimed) \in Nat /\ Cardinality(Unclaimed') \in Nat
  BY Zenon, MembersFinite
<1>s. ASSUME \A e \in Members : member'[e] = member[e] \/ member'[e].life # "absent" PROVE SweptIsUnclaimedStep
  BY Zenon, <1>s, WarmRecords DEF SweptIsUnclaimedStep
<1>w. ASSUME NEW e \in Members, NEW m \in MemberRecords, member' = [member EXCEPT ![e] = m], m.life # "absent",
             Countable(m) => Countable(member[e]),
             \/ held' = held \ {e}
             \/ held' = held /\ m.life = member[e].life /\ m.claimed = member[e].claimed,
             UNCHANGED <<templates, ready, warmPool, returned>>,
             claimer' \in [Claimers -> ClaimerRecords],
             \A c \in Claimers : claimer'[c].step \in {"confirm", "promote", "return"} => claimer'[c].on \in Members
      PROVE  WarmInductive' /\ SweptIsUnclaimedStep
  <2>1. /\ member' \in [Members -> MemberRecords] /\ member'[e] = m /\ \A f \in Members \ {e} : member'[f] = member[f]
    BY Zenon, <1>w, <1>t, MemberWritten
  <2>2. Unclaimed' \subseteq Unclaimed
    BY <1>w, <1>t, MemberWritten DEF Unclaimed
  <2>3. Cardinality(Unclaimed') <= Cardinality(Unclaimed)
    BY Zenon, <2>2, MembersFinite
  <2>4. WarmTyped'
    BY Zenon, <1>w, <1>t, <2>1 DEF WarmTyped, Gen
  <2>5. held' \subseteq held /\ \A f \in held' : member'[f].life = member[f].life /\ member'[f].claimed = member[f].claimed
    BY Zenon, <1>w, <1>t, <2>1 DEF WarmTyped
  <2>6. Gen <= Gen' /\ \A k \in 1 .. Gen : templates'[k] = templates[k]
    BY <1>w, <1>t DEF Gen
  <2>7. WarmInductive'
    BY <1>w, <1>n, <1>t, <2>3, <2>4, <2>5, <2>6, OutsideKeeps
  <2> QED
    BY Zenon, <1>w, <1>s, <2>1, <2>7
<1>c. \A c \in Claimers : claimer[c].step \in {"confirm", "promote", "return"} => claimer[c].on \in Members
  BY Zenon, <1>t DEF WarmTyped
<1>l. templates[Gen] \in TemplateRecords
  <2>1. Len(templates) \in 1 .. MaxTemplates
    BY Zenon, <1>t DEF WarmTyped, Gen
  <2>2. Len(templates) \in DOMAIN templates
    <3>1. DOMAIN templates = 1 .. Len(templates) /\ Len(templates) \in Nat
      BY <1>t
    <3> QED
      BY <3>1, <2>1, WarmAssumption
  <2> QED
    BY <1>t, <2>2 DEF Gen
<1>1. CASE EditTemplate
  <2>1. /\ UNCHANGED <<ready, member, held, warmPool, claimer, returned>>
        /\ \E m \in Minimums, i \in {templates[Gen].inputs, templates[Gen].inputs + 1} :
             templates' = Append(templates, [inputs |-> i, min |-> m])
        /\ Gen < MaxTemplates
    BY Zenon, <1>1 DEF EditTemplate
  <2>2. PICK m \in Minimums, i \in {templates[Gen].inputs, templates[Gen].inputs + 1} :
             templates' = Append(templates, [inputs |-> i, min |-> m])
    BY Zenon, <2>1
  <2>3. i \in Nat
    <3>1. templates[Gen] \in TemplateRecords
      BY Zenon, <1>l
    <3> QED
      BY <3>1, <2>2 DEF TemplateRecords
  <2>4. templates' \in Seq(TemplateRecords) /\ Gen' = Gen + 1 /\ \A k \in 1 .. Gen : templates'[k] = templates[k]
    <3>1. [inputs |-> i, min |-> m] \in TemplateRecords
      BY Zenon, <2>3 DEF TemplateRecords
    <3> QED
      BY <2>2, <3>1, <1>t DEF Gen
  <2>5. WarmTyped' /\ Unclaimed' = Unclaimed
    BY <2>1, <2>4, <1>t, WarmAssumption DEF WarmTyped, Unclaimed
  <2>6. WarmInductive'
    <3>1. Gen <= Gen' /\ Cardinality(Unclaimed') + returned <= Cardinality(Unclaimed) + returned'
      BY <2>1, <2>4, <2>5, <1>t, <1>n
    <3> QED
      BY Zenon, <2>1, <2>4, <2>5, <3>1, OutsideKeeps
  <2> QED
    BY Zenon, <2>1, <2>6, <1>s
<1>2. ASSUME NEW e \in Members, Provision(e) PROVE WarmInductive' /\ SweptIsUnclaimedStep
  <2> DEFINE m == [member[e] EXCEPT !.inputs = templates[Gen].inputs]
  <2>1. /\ InPool(member[e]) /\ member' = [member EXCEPT ![e] = m] /\ held' = held \ {e}
        /\ UNCHANGED <<templates, ready, warmPool, claimer, returned>>
    BY Zenon, <1>2 DEF Provision, Write
  <2>2. templates[Gen].inputs \in Nat
    BY Zenon, <1>l DEF TemplateRecords
  <2>3. m \in MemberRecords /\ m.life = member[e].life /\ m.claimed = member[e].claimed
    BY Zenon, <2>2, <1>t DEF MemberRecords
  <2> HIDE DEF m
  <2> QED
    BY Zenon, <2>1, <2>3, <1>t, <1>c, <1>w DEF InPool, Countable
<1>3. ASSUME NEW e \in Members, Health(e) PROVE WarmInductive' /\ SweptIsUnclaimedStep
  <2>1. PICK fit \in {"ready", "unusable"} : member' = [member EXCEPT ![e] = [member[e] EXCEPT !.fit = fit]]
    BY Zenon, <1>3 DEF Health, Write
  <2>2. /\ InPool(member[e]) /\ held' = held \ {e} /\ UNCHANGED <<templates, ready, warmPool, claimer, returned>>
    BY Zenon, <1>3 DEF Health, Write
  <2> DEFINE m == [member[e] EXCEPT !.fit = fit]
  <2>3. m \in MemberRecords /\ m.life = member[e].life /\ m.claimed = member[e].claimed
    BY Zenon, <1>t DEF MemberRecords
  <2>4. member' = [member EXCEPT ![e] = m]
    BY Zenon, <2>1
  <2> HIDE DEF m
  <2> QED
    BY Zenon, <2>2, <2>3, <2>4, <1>t, <1>c, <1>w DEF InPool, Countable
<1>4. ASSUME NEW e \in Members, GraceEnds(e) PROVE WarmInductive' /\ SweptIsUnclaimedStep
  <2> DEFINE m == [member[e] EXCEPT !.mark = "due"]
  <2>1. /\ InPool(member[e]) /\ member' = [member EXCEPT ![e] = m] /\ held' = held
        /\ UNCHANGED <<templates, ready, warmPool, claimer, returned>>
    BY Zenon, <1>4 DEF GraceEnds
  <2>3. m \in MemberRecords /\ m.life = member[e].life /\ m.claimed = member[e].claimed
    BY Zenon, <1>t DEF MemberRecords
  <2> HIDE DEF m
  <2> QED
    BY Zenon, <2>1, <2>3, <1>t, <1>c, <1>w DEF InPool, Countable
<1>5. ASSUME NEW c \in Claimers, NEW e \in Members, Claim(c, e) PROVE WarmInductive' /\ SweptIsUnclaimedStep
  <2> DEFINE m == [member[e] EXCEPT !.claimed = c]
             r == [step |-> "confirm", on |-> e]
  <2>1. /\ Countable(member[e]) /\ member' = [member EXCEPT ![e] = m] /\ held' = held \ {e}
        /\ claimer' = [claimer EXCEPT ![c] = r] /\ UNCHANGED <<templates, ready, warmPool, returned>>
    BY Zenon, <1>5 DEF Claim, Write
  <2>2. m \in MemberRecords /\ m.life = member[e].life
    BY Zenon, <1>t DEF MemberRecords
  <2>3. r \in ClaimerRecords /\ r.on = e
    BY Zenon DEF ClaimerRecords
  <2> HIDE DEF m, r
  <2>4. claimer' \in [Claimers -> ClaimerRecords] /\ claimer'[c] = r /\ \A d \in Claimers \ {c} : claimer'[d] = claimer[d]
    BY Zenon, <2>1, <2>3, <1>t
  <2> QED
    BY <2>1, <2>2, <2>3, <2>4, <1>t, <1>c, <1>w DEF InPool, Countable
<1>6. ASSUME NEW c \in Claimers, NEW s \in {"promote", "return"}, claimer[c].step = "confirm", claimer' = [claimer EXCEPT ![c].step = s],
             UNCHANGED <<templates, ready, member, held, warmPool, returned>>
      PROVE WarmInductive' /\ SweptIsUnclaimedStep
  <2> DEFINE r == [claimer[c] EXCEPT !.step = s]
  <2>1. r \in ClaimerRecords /\ r.on = claimer[c].on /\ claimer' = [claimer EXCEPT ![c] = r]
    BY Zenon, <1>6, <1>t DEF ClaimerRecords
  <2> HIDE DEF r
  <2>2. claimer' \in [Claimers -> ClaimerRecords] /\ claimer'[c] = r /\ \A d \in Claimers \ {c} : claimer'[d] = claimer[d]
    BY Zenon, <2>1, <1>t
  <2>3. \A d \in Claimers : claimer'[d].step \in {"confirm", "promote", "return"} => claimer'[d].on \in Members
    BY Zenon, <2>1, <2>2, <1>6, <1>c
  <2>4. WarmTyped' /\ Unclaimed' = Unclaimed /\ Gen' = Gen
    BY Zenon, <2>2, <2>3, <1>6, <1>t DEF WarmTyped, Gen, Unclaimed
  <2>5. WarmInductive'
    BY <2>4, <1>6, <1>t, <1>n, OutsideKeeps
  <2> QED
    BY Zenon, <2>5, <1>6, <1>s
<1>7. ASSUME NEW c \in Claimers, Confirm(c) PROVE WarmInductive' /\ SweptIsUnclaimedStep
  <2>1. PICK s \in {"promote", "return"} : claimer' = [claimer EXCEPT ![c].step = s]
    BY Zenon, <1>7 DEF Confirm
  <2> QED
    BY Zenon, <2>1, <1>6, <1>7 DEF Confirm
<1>8. ASSUME NEW c \in Claimers, Promote(c) PROVE WarmInductive' /\ SweptIsUnclaimedStep
  <2> DEFINE e == claimer[c].on
             m == [member[e] EXCEPT !.life = "promoted"]
             r == [claimer[c] EXCEPT !.step = "done"]
  <2>1. /\ e \in Members /\ claimer' = [claimer EXCEPT ![c] = r]
        /\ UNCHANGED <<templates, ready, warmPool, returned>>
    BY Zenon, <1>8, <1>c, <1>t DEF Promote
  <2>2. m \in MemberRecords /\ m.life = "promoted" /\ r \in ClaimerRecords /\ r.step = "done"
    <3>1. member[e] \in MemberRecords /\ claimer[c] \in ClaimerRecords
      BY Zenon, <2>1, <1>t
    <3> HIDE DEF e
    <3>2. m \in MemberRecords /\ m.life = "promoted"
      BY Zenon, <3>1 DEF MemberRecords
    <3>3. r \in ClaimerRecords /\ r.step = "done"
      BY Zenon, <3>1 DEF ClaimerRecords
    <3> QED
      BY Zenon, <3>2, <3>3
  <2>3. /\ member' = [member EXCEPT ![e] = m] /\ held' = held \ {e}
        \/ UNCHANGED <<member, held>>
    BY Zenon, <1>8 DEF Promote, Write
  <2> HIDE DEF m, r, e
  <2>4. claimer' \in [Claimers -> ClaimerRecords] /\ claimer'[c] = r /\ \A d \in Claimers \ {c} : claimer'[d] = claimer[d]
    BY Zenon, <2>1, <2>2, <1>t
  <2>5. \A d \in Claimers : claimer'[d].step \in {"confirm", "promote", "return"} => claimer'[d].on \in Members
    BY Zenon, <2>2, <2>4, <1>c
  <2>6. CASE UNCHANGED <<member, held>>
    <3>1. WarmTyped' /\ Unclaimed' = Unclaimed /\ Gen' = Gen
      BY Zenon, <2>1, <2>4, <2>5, <2>6, <1>t DEF WarmTyped, Gen, Unclaimed
    <3>2. WarmInductive'
      BY <2>1, <2>6, <3>1, <1>t, <1>n, OutsideKeeps
    <3> QED
      BY Zenon, <2>6, <3>2, <1>s
  <2>7. CASE member' = [member EXCEPT ![e] = m] /\ held' = held \ {e}
    BY Zenon, <2>1, <2>2, <2>4, <2>5, <2>7, <1>w DEF Countable, InPool
  <2> QED
    BY Zenon, <2>3, <2>6, <2>7
<1>9. ASSUME NEW c \in Claimers, Return(c) PROVE WarmInductive' /\ SweptIsUnclaimedStep
  <2> DEFINE e == claimer[c].on
             m == [member[e] EXCEPT !.claimed = "none"]
             r == [step |-> "idle", on |-> "none"]
  <2>1. /\ e \in Members /\ claimer' = [claimer EXCEPT ![c] = r]
        /\ UNCHANGED <<templates, ready, warmPool>>
    BY Zenon, <1>9, <1>c, <1>t DEF Return
  <2>2. m \in MemberRecords /\ m.life = member[e].life /\ r \in ClaimerRecords /\ r.step = "idle"
    <3>1. member[e] \in MemberRecords
      BY Zenon, <2>1, <1>t
    <3> HIDE DEF e
    <3>2. m \in MemberRecords /\ m.life = member[e].life
      BY Zenon, <3>1 DEF MemberRecords
    <3>3. r \in ClaimerRecords /\ r.step = "idle"
      BY Zenon DEF ClaimerRecords
    <3> QED
      BY Zenon, <3>2, <3>3
  <2>3. \/ /\ member' = [member EXCEPT ![e] = m] /\ held' = held \ {e} /\ returned' = returned + 1
        \/ UNCHANGED <<member, held, returned>>
    BY Zenon, <1>9 DEF Return, Write
  <2> HIDE DEF m, r, e
  <2>4. claimer' \in [Claimers -> ClaimerRecords] /\ claimer'[c] = r /\ \A d \in Claimers \ {c} : claimer'[d] = claimer[d]
    BY Zenon, <2>1, <2>2, <1>t
  <2>5. \A d \in Claimers : claimer'[d].step \in {"confirm", "promote", "return"} => claimer'[d].on \in Members
    BY Zenon, <2>2, <2>4, <1>c
  <2>6. CASE UNCHANGED <<member, held, returned>>
    <3>1. WarmTyped' /\ Unclaimed' = Unclaimed /\ Gen' = Gen
      BY Zenon, <2>1, <2>4, <2>5, <2>6, <1>t DEF WarmTyped, Gen, Unclaimed
    <3>2. WarmInductive'
      BY <2>1, <2>6, <3>1, <1>t, <1>n, OutsideKeeps
    <3> QED
      BY Zenon, <2>6, <3>2, <1>s
  <2>7. CASE member' = [member EXCEPT ![e] = m] /\ held' = held \ {e} /\ returned' = returned + 1
    <3>1. /\ member' \in [Members -> MemberRecords] /\ member'[e] = m /\ \A f \in Members \ {e} : member'[f] = member[f]
          /\ Unclaimed' \subseteq Unclaimed \cup {e}
      <4>1. /\ member' \in [Members -> MemberRecords] /\ member'[e] = m /\ \A f \in Members \ {e} : member'[f] = member[f]
            /\ Unclaimed' = Unclaimed \cup {e} \/ Unclaimed' = Unclaimed \ {e}
        BY Zenon, <2>1, <2>2, <2>7, <1>t, MemberWritten
      <4> QED
        BY Zenon, <4>1
    <3>2. Cardinality(Unclaimed') <= Cardinality(Unclaimed) + 1
      <4>1. CASE e \in Unclaimed
        <5>1. Unclaimed' \subseteq Unclaimed
          BY Zenon, <3>1, <4>1
        <5> QED
          BY <5>1, <1>n, MembersFinite
      <4>2. CASE e \notin Unclaimed
        <5>1. Cardinality(Unclaimed \cup {e}) = Cardinality(Unclaimed) + 1 /\ Unclaimed \cup {e} \in SUBSET Members
          BY Zenon, <4>2, <2>1, MembersFinite
        <5> QED
          BY Zenon, <5>1, <3>1, <1>n, MembersFinite
      <4> QED
        BY Zenon, <4>1, <4>2
    <3>a. \A f \in Members : member'[f].life = "absent" => member'[f] = Absent
      <4>1. member[e] = Absent => m = Absent
        BY DEF m, Absent
      <4> QED
        BY Zenon, <2>1, <2>2, <3>1, <4>1, <1>t DEF WarmTyped
    <3>3. WarmTyped' /\ Gen' = Gen
      BY <2>1, <2>4, <2>5, <2>7, <3>1, <3>a, <1>t DEF WarmTyped, Gen
    <3>4. held' \subseteq held /\ \A f \in held' : member'[f].life = member[f].life /\ member'[f].claimed = member[f].claimed
      BY Zenon, <2>7, <3>1, <1>t DEF WarmTyped
    <3>5. Cardinality(Unclaimed') + returned <= Cardinality(Unclaimed) + returned'
      BY <2>7, <3>2, <1>t, <1>n
    <3>6. WarmInductive'
      BY <2>1, <3>3, <3>4, <3>5, <1>t, OutsideKeeps
    <3>8. SweptIsUnclaimedStep
      <4> SUFFICES ASSUME warmPool.step = "write", NEW f \in Members, member'[f] = Absent
                   PROVE  member[f] = Absent \/ Countable(member[f])
        BY Zenon DEF SweptIsUnclaimedStep
      <4>1. f # e => member[f] = Absent
        BY Zenon, <3>1
      <4>2. f = e => member[f] = Absent
        BY Zenon, <2>1, <2>2, <3>1, <1>t, WarmRecords DEF WarmTyped
      <4> QED
        BY Zenon, <4>1, <4>2
    <3> QED
      BY Zenon, <3>6, <3>8
  <2> QED
    BY Zenon, <2>3, <2>6, <2>7
<1> QED
  BY Zenon, <1>1, <1>2, <1>3, <1>4, <1>5, <1>7, <1>8, <1>9

\* A step of a pass that writes no member: what it must establish.
LEMMA PassKeeps ==
    ASSUME WarmInductive, UNCHANGED <<templates, member, claimer, returned>>, ready' \in 0 .. Cardinality(Members),
           held' \subseteq Members, warmPool' \in PoolPasses, WriteStanding', HeldStanding', CountStanding'
    PROVE  WarmInductive' /\ SweptIsUnclaimedStep
<1>1. WarmTyped' /\ Unclaimed' = Unclaimed
  BY Zenon DEF WarmInductive, WarmTyped, Gen, Unclaimed
<1>2. SurgeBounded'
  BY Zenon, <1>1 DEF WarmInductive, SurgeBounded
<1>3. SweptIsUnclaimedStep
  BY Zenon DEF SweptIsUnclaimedStep
<1> QED
  BY Zenon, <1>1, <1>2, <1>3 DEF WarmInductive

\* A pass that stops without writing a member.
LEMMA PassStopsQuietly ==
    ASSUME WarmInductive, Stop, UNCHANGED <<templates, ready, member, claimer, returned>>
    PROVE  WarmInductive' /\ SweptIsUnclaimedStep
<1>1. member \in [Members -> MemberRecords] /\ (\A e \in Members : member[e].life = "absent" => member[e] = Absent)
      /\ ready \in 0 .. Cardinality(Members) /\ Unclaimed' = Unclaimed
  BY Zenon DEF WarmInductive, WarmTyped, Unclaimed
<1>2. WarmInductive'
  BY Zenon, <1>1, PassStops
<1> QED
  BY Zenon, <1>2 DEF SweptIsUnclaimedStep

\* The Template was proved current: the pass goes on to its write, or stops.
LEMMA TemplateChecked ==
    ASSUME WarmInductive, NEW p \in PoolPasses, CheckTemplate(p), UNCHANGED <<templates, ready, member, claimer, returned>>,
           warmPool.step = "sweep", p.seen = warmPool.seen, p.on \in Members,
           p.act = "create" => NeedsMore /\ p.on \notin p.active /\ p.active = warmPool.active,
           p.quarantined = warmPool.quarantined,
           LET a == Cardinality(p.active) + (IF p.act = "trim" THEN 1 ELSE 0)
           IN  Cardinality(warmPool.active) <= a,
           Cardinality({e \in Members : <<e, "delete">> \in p.todo}) + (IF p.act = "delete" THEN 1 ELSE 0) <= p.quarantined
    PROVE  WarmInductive' /\ SweptIsUnclaimedStep
<1>1. CASE Stop
  BY Zenon, <1>1, PassStopsQuietly
<1>2. CASE warmPool' = [p EXCEPT !.step = "write"] /\ UNCHANGED held
  <2>t. /\ WarmTyped /\ WriteStanding /\ HeldStanding /\ CountStanding
        /\ ready \in 0 .. Cardinality(Members) /\ held \subseteq Members /\ returned \in Nat
    BY Zenon DEF WarmInductive, WarmTyped
  <2>1. /\ warmPool' \in PoolPasses /\ warmPool'.step = "write" /\ warmPool'.seen = p.seen /\ warmPool'.todo = p.todo
        /\ warmPool'.active = p.active /\ warmPool'.quarantined = p.quarantined /\ warmPool'.act = p.act /\ warmPool'.on = p.on
    BY Zenon, <1>2 DEF PoolPasses
  <2>2. SeenTemplate' = SeenTemplate /\ Gen' = Gen
    BY Zenon, <2>1 DEF SeenTemplate, Gen
  <2>3. warmPool.seen \in 1 .. Gen
    BY Zenon, <2>t DEF WriteStanding
  <2>4. WriteStanding'
    BY Zenon, <2>1, <2>2, <2>3 DEF WriteStanding, NeedsMore
  <2>5. HeldStanding'
    BY Zenon, <1>2, <2>1, <2>t DEF HeldStanding, Unclaimed
  <2>6. Unclaimed' = Unclaimed
    BY Zenon DEF Unclaimed
  <2>7. /\ Cardinality(p.active) \in Nat /\ Cardinality(warmPool.active) \in Nat /\ Cardinality(Unclaimed) \in Nat
        /\ p.quarantined \in Nat
    BY Zenon, <2>t, MembersFinite DEF PoolPasses, WarmTyped
  <2>8. Cardinality(Unclaimed) <= Cardinality(warmPool.active) + warmPool.quarantined + returned
    <3>1. InFlight = 0
      BY Zenon DEF InFlight
    <3> QED
      BY <2>t, <2>7, <3>1 DEF CountStanding
  <2>9. CountStanding'
    <3>1. InFlight' = IF p.act = "trim" THEN 1 ELSE 0
      BY Zenon, <2>1 DEF InFlight
    <3>2. Deleting' = IF p.act = "delete" THEN 1 ELSE 0
      BY Zenon, <2>1 DEF Deleting
    <3>3. Doomed' = {e \in Members : <<e, "delete">> \in p.todo}
      BY Zenon, <2>1 DEF Doomed
    <3>4. Cardinality(Unclaimed') <= Cardinality(warmPool'.active) + InFlight' + warmPool'.quarantined + returned'
      BY <2>1, <2>6, <2>7, <2>8, <2>t, <3>1
    <3>5. Cardinality(Doomed') + Deleting' <= warmPool'.quarantined
      BY Zenon, <2>1, <3>2, <3>3
    <3> QED
      BY Zenon, <3>4, <3>5 DEF CountStanding
  <2> QED
    BY Zenon, <1>2, <2>1, <2>4, <2>5, <2>9, <2>t, PassKeeps
<1> QED
  BY Zenon, <1>1, <1>2 DEF CheckTemplate

\* A step that changes nothing keeps the invariant.
LEMMA PoolStutters ==
    ASSUME WarmInductive, UNCHANGED warmVars
    PROVE  WarmInductive' /\ SweptIsUnclaimedStep
<1>1. UNCHANGED <<templates, ready, member, held, warmPool, claimer, returned>>
  BY Zenon DEF warmVars
<1>2. /\ WarmTyped' /\ Unclaimed' = Unclaimed /\ Gen' = Gen /\ Gen \in Nat
      /\ Cardinality(Unclaimed) \in Nat /\ returned \in Nat
  BY <1>1, MembersFinite, WarmAssumption DEF WarmInductive, WarmTyped, Unclaimed, Gen
<1>3. WarmInductive'
  BY <1>1, <1>2, OutsideKeeps
<1> QED
  BY Zenon, <1>1, <1>3 DEF SweptIsUnclaimedStep

\* What a pass reads: the usable members and the quarantined ones are all there is
\* (WarmPoolReconciler.Reconcile).
LEMMA ReadKeeps ==
    ASSUME WarmInductive, ReadPool
    PROVE  WarmInductive' /\ SweptIsUnclaimedStep
<1>t. WarmTyped /\ Gen \in 1 .. MaxTemplates /\ returned \in Nat /\ member \in [Members -> MemberRecords]
  BY Zenon DEF WarmInductive, WarmTyped
<1> DEFINE unusable(t) == {e \in Unclaimed : Unusable(member[e], t)}
           count(t) == Cardinality({e \in Unclaimed \ unusable(t) : member[e].fit = "ready"})
           todo(t) == {<<e, Needs(member[e], t)>> : e \in {x \in Unclaimed : Needs(member[x], t) # "none"}}
<1>1. PICK k \in 1 .. Gen :
        IF ready # count(templates[k]) /\ k # Gen
        THEN UNCHANGED <<warmPool, held, ready>>
        ELSE /\ ready' = count(templates[k])
             /\ warmPool' = [NoPass EXCEPT !.step = "sweep", !.seen = k, !.active = Unclaimed \ unusable(templates[k]),
                                           !.quarantined = Cardinality(unusable(templates[k])), !.todo = todo(templates[k])]
             /\ held' = Unclaimed
  BY Zenon DEF ReadPool, Unclaimed
<1>u. UNCHANGED <<templates, member, claimer, returned>>
  BY Zenon DEF ReadPool
<1>2. CASE UNCHANGED <<warmPool, held, ready>>
  BY Zenon, <1>2, <1>u, PoolStutters DEF warmVars
<1>3. CASE /\ ready' = count(templates[k])
           /\ warmPool' = [NoPass EXCEPT !.step = "sweep", !.seen = k, !.active = Unclaimed \ unusable(templates[k]),
                                         !.quarantined = Cardinality(unusable(templates[k])), !.todo = todo(templates[k])]
           /\ held' = Unclaimed
  <2> DEFINE t == templates[k]
             A == Unclaimed \ unusable(t)
             Q == unusable(t)
             T == todo(t)
  <2>1. Unclaimed \in SUBSET Members /\ Q \in SUBSET Unclaimed /\ A \in SUBSET Unclaimed
    BY Zenon, MembersFinite
  <2>2. warmPool' = [step |-> "sweep", seen |-> k, todo |-> T, active |-> A, quarantined |-> Cardinality(Q),
                     act |-> "none", on |-> "none"]
    BY Zenon, <1>3 DEF NoPass
  <2>3. T \in SUBSET (Members \X {"mark", "delete", "clear"})
    <3>1. \A e \in Unclaimed : Needs(member[e], t) \in {"mark", "delete", "clear", "none"}
      BY Zenon DEF Needs
    <3> QED
      BY <2>1, <3>1
  <2>4. {e \in Members : <<e, "delete">> \in T} \subseteq Q
    <3>1. \A e \in Unclaimed : Needs(member[e], t) = "delete" => Unusable(member[e], t)
      BY Zenon DEF Needs
    <3> QED
      BY Zenon, <3>1
  <2>5. ready' \in 0 .. Cardinality(Members)
    <3>1. {e \in A : member[e].fit = "ready"} \in SUBSET Members /\ Members \in SUBSET Members
      BY Zenon, <2>1
    <3>2. /\ Cardinality({e \in A : member[e].fit = "ready"}) <= Cardinality(Members)
          /\ Cardinality({e \in A : member[e].fit = "ready"}) \in Nat /\ Cardinality(Members) \in Nat
      BY Zenon, <3>1, MembersFinite
    <3> QED
      BY <3>2, <1>3
  <2>6. Cardinality(Unclaimed) = Cardinality(A) + Cardinality(Q) /\ Cardinality(Q) \in Nat /\ Cardinality(A) \in Nat
    <3>1. Unclaimed \cap Q = Q
      BY Zenon, <2>1
    <3>2. IsFiniteSet(Unclaimed) /\ Cardinality(Unclaimed) \in Nat /\ Cardinality(Q) \in Nat /\ Cardinality(A) \in Nat
      BY Zenon, <2>1, MembersFinite
    <3>3. Cardinality(A) = Cardinality(Unclaimed) - Cardinality(Unclaimed \cap Q)
      BY Zenon, <3>2, FS_Difference
    <3> QED
      BY <3>1, <3>2, <3>3
  <2>7. Cardinality({e \in Members : <<e, "delete">> \in T}) <= Cardinality(Q)
    BY Zenon, <2>1, <2>4, MembersFinite
  <2>8. k \in Nat
    BY <1>t
  <2>9. A \in SUBSET Members
    BY Zenon, <2>1
  <2> HIDE DEF A, Q, T
  <2>10. /\ warmPool' \in PoolPasses /\ warmPool'.step = "sweep" /\ warmPool'.seen = k /\ warmPool'.active = A
         /\ warmPool'.quarantined = Cardinality(Q) /\ warmPool'.todo = T
    BY Zenon, <2>2, <2>3, <2>6, <2>8, <2>9 DEF PoolPasses
  <2>11. WriteStanding'
    BY Zenon, <2>10, <1>u DEF WriteStanding, Gen
  <2>12. HeldStanding' /\ held' \subseteq Members /\ Unclaimed' = Unclaimed
    BY Zenon, <1>3, <1>u, <2>1 DEF HeldStanding, Unclaimed
  <2>13. CountStanding'
    <3>1. InFlight' = 0 /\ Deleting' = 0 /\ Doomed' = {e \in Members : <<e, "delete">> \in T}
      BY Zenon, <2>10 DEF InFlight, Deleting, Doomed
    <3>2. Cardinality(Unclaimed') <= Cardinality(warmPool'.active) + InFlight' + warmPool'.quarantined + returned'
      BY <2>6, <2>10, <2>12, <3>1, <1>t, <1>u
    <3>3. Cardinality({e \in Members : <<e, "delete">> \in T}) \in Nat
      BY Zenon, MembersFinite
    <3>4. Cardinality(Doomed') + Deleting' <= warmPool'.quarantined
      BY <2>6, <2>7, <2>10, <3>1, <3>3
    <3> QED
      BY Zenon, <3>2, <3>4 DEF CountStanding
  <2> QED
    BY Zenon, <1>u, <2>5, <2>10, <2>11, <2>12, <2>13, PassKeeps
<1> QED
  BY Zenon, <1>1, <1>2, <1>3

\* The sweep takes up one write after the other, and the balance one more or one less.
LEMMA SweepKeeps ==
    ASSUME WarmInductive, Sweep \/ Balance
    PROVE  WarmInductive' /\ SweptIsUnclaimedStep
<1>t. /\ WarmTyped /\ warmPool \in PoolPasses /\ CountStanding /\ WriteStanding
      /\ warmPool.todo \in SUBSET (Members \X {"mark", "delete", "clear"}) /\ warmPool.active \in SUBSET Members
      /\ warmPool.quarantined \in Nat
  BY Zenon DEF WarmInductive, WarmTyped, PoolPasses
<1>s. warmPool.step = "sweep" /\ UNCHANGED <<templates, ready, member, claimer, returned>>
  BY Zenon DEF Sweep, Balance
<1>n. Cardinality(warmPool.active) \in Nat /\ Cardinality(Doomed) \in Nat
  BY Zenon, <1>t, MembersFinite DEF Doomed
<1>d. Cardinality(Doomed) <= warmPool.quarantined
  BY <1>t, <1>s, <1>n DEF CountStanding, Deleting
<1>1. CASE Sweep
  <2>1. PICK w \in warmPool.todo : CheckTemplate([warmPool EXCEPT !.todo = @ \ {w}, !.act = w[2], !.on = w[1]])
    BY Zenon, <1>1 DEF Sweep
  <2>2. w[1] \in Members /\ w[2] \in {"mark", "delete", "clear"} /\ w = <<w[1], w[2]>>
    BY <1>t, <2>1
  <2> DEFINE p == [warmPool EXCEPT !.todo = warmPool.todo \ {w}, !.act = w[2], !.on = w[1]]
             D == {e \in Members : <<e, "delete">> \in warmPool.todo \ {w}}
  <2>3. warmPool.todo \ {w} \in SUBSET (Members \X {"mark", "delete", "clear"})
    BY Zenon, <1>t
  <2>4. /\ p \in PoolPasses /\ p.seen = warmPool.seen /\ p.on = w[1] /\ p.act = w[2] /\ p.active = warmPool.active
        /\ p.quarantined = warmPool.quarantined /\ p.todo = warmPool.todo \ {w}
    BY Zenon, <1>t, <2>2, <2>3 DEF PoolPasses
  <2>5. CheckTemplate(p)
    BY Zenon, <2>1
  <2>6. Cardinality(D) + (IF w[2] = "delete" THEN 1 ELSE 0) <= warmPool.quarantined
    <3>1. CASE w[2] = "delete"
      <4>1. w[1] \in Doomed /\ D = Doomed \ {w[1]} /\ Doomed \in SUBSET Members
        BY <2>1, <2>2, <3>1 DEF Doomed
      <4>2. Cardinality(D) = Cardinality(Doomed) - 1
        BY Zenon, <4>1, MembersFinite
      <4> QED
        BY <4>2, <1>d, <1>n, <1>t, <3>1
    <3>2. CASE w[2] # "delete"
      <4>1. D \in SUBSET Doomed /\ Doomed \in SUBSET Members
        BY Zenon DEF Doomed
      <4>2. Cardinality(D) <= Cardinality(Doomed) /\ Cardinality(D) \in Nat
        BY Zenon, <4>1, MembersFinite
      <4> QED
        BY <4>2, <1>d, <1>n, <1>t, <3>2
    <3> QED
      BY Zenon, <3>1, <3>2
  <2> HIDE DEF p
  <2>7. Cardinality({e \in Members : <<e, "delete">> \in p.todo}) + (IF p.act = "delete" THEN 1 ELSE 0) <= p.quarantined
    BY Zenon, <2>4, <2>6
  <2>8. p.act \notin {"create", "trim"} /\ p.on \in Members
    BY Zenon, <2>2, <2>4
  <2>9. LET a == Cardinality(p.active) + (IF p.act = "trim" THEN 1 ELSE 0) IN Cardinality(warmPool.active) <= a
    BY <2>4, <2>8, <1>n
  <2> QED
    BY Zenon, <1>s, <2>4, <2>5, <2>7, <2>8, <2>9, TemplateChecked
<1>2. CASE Balance
  <2>t. warmPool.todo = {}
    BY Zenon, <1>2 DEF Balance
  <2>d. \A T : T = {} => Cardinality({e \in Members : <<e, "delete">> \in T}) = 0
    BY Zenon, FS_EmptySet
  <2>1. CASE NeedsMore /\ \E e \in Members : /\ member[e].life = "absent" /\ e \notin warmPool.active
                                             /\ CheckTemplate([warmPool EXCEPT !.act = "create", !.on = e])
    <3>1. PICK e \in Members : e \notin warmPool.active /\ CheckTemplate([warmPool EXCEPT !.act = "create", !.on = e])
      BY Zenon, <2>1
    <3> DEFINE p == [warmPool EXCEPT !.act = "create", !.on = e]
    <3>2. /\ p \in PoolPasses /\ p.seen = warmPool.seen /\ p.on = e /\ p.act = "create" /\ p.active = warmPool.active
          /\ p.quarantined = warmPool.quarantined /\ p.todo = warmPool.todo
      BY Zenon, <1>t DEF PoolPasses
    <3>3. CheckTemplate(p)
      BY Zenon, <3>1
    <3> HIDE DEF p
    <3>4. Cardinality({f \in Members : <<f, "delete">> \in p.todo}) + (IF p.act = "delete" THEN 1 ELSE 0) <= p.quarantined
      BY <3>2, <2>t, <2>d, <1>t
    <3>5. LET a == Cardinality(p.active) + (IF p.act = "trim" THEN 1 ELSE 0) IN Cardinality(warmPool.active) <= a
      BY <3>2, <1>n
    <3> QED
      BY Zenon, <1>s, <2>1, <3>1, <3>2, <3>3, <3>4, <3>5, TemplateChecked
  <2>2. CASE \E e \in warmPool.active : CheckTemplate([warmPool EXCEPT !.act = "trim", !.on = e, !.active = @ \ {e}])
    <3>1. PICK e \in warmPool.active : CheckTemplate([warmPool EXCEPT !.act = "trim", !.on = e, !.active = @ \ {e}])
      BY Zenon, <2>2
    <3> DEFINE p == [warmPool EXCEPT !.act = "trim", !.on = e, !.active = warmPool.active \ {e}]
    <3>e. e \in Members /\ warmPool.active \ {e} \in SUBSET Members
      BY Zenon, <1>t, <3>1
    <3>2. /\ p \in PoolPasses /\ p.seen = warmPool.seen /\ p.on = e /\ p.act = "trim" /\ p.active = warmPool.active \ {e}
          /\ p.quarantined = warmPool.quarantined /\ p.todo = warmPool.todo
      BY Zenon, <1>t, <3>e DEF PoolPasses
    <3>3. CheckTemplate(p)
      BY Zenon, <3>1
    <3> HIDE DEF p
    <3>4. Cardinality({f \in Members : <<f, "delete">> \in p.todo}) + (IF p.act = "delete" THEN 1 ELSE 0) <= p.quarantined
      BY <3>2, <2>t, <2>d, <1>t
    <3>5. LET a == Cardinality(p.active) + (IF p.act = "trim" THEN 1 ELSE 0) IN Cardinality(warmPool.active) <= a
      <4>1. Cardinality(warmPool.active \ {e}) = Cardinality(warmPool.active) - 1
        BY Zenon, <3>1, <1>t, MembersFinite
      <4> QED
        BY <4>1, <3>2, <1>n
    <3> QED
      BY Zenon, <1>s, <3>e, <3>2, <3>3, <3>4, <3>5, TemplateChecked
  <2>3. CASE Stop
    BY Zenon, <2>3, <1>s, PassStopsQuietly
  <2> QED
    BY Zenon, <1>2, <2>1, <2>2, <2>3 DEF Balance
<1> QED
  BY Zenon, <1>1, <1>2

\* A write of a pass: a member more only where the surge allows it, a member less only
\* where it is still as it was read.
LEMMA WriteKeeps ==
    ASSUME WarmInductive, WritePool
    PROVE  WarmInductive' /\ SweptIsUnclaimedStep
<1> DEFINE e == warmPool.on
           q == warmPool.quarantined
           go == [warmPool EXCEPT !.step = "sweep", !.act = "none", !.on = "none"]
<1>t. /\ WarmTyped /\ WriteStanding /\ HeldStanding /\ CountStanding /\ SurgeBounded /\ warmPool \in PoolPasses
      /\ member \in [Members -> MemberRecords] /\ returned \in Nat /\ q \in Nat
      /\ templates \in Seq(TemplateRecords) /\ warmPool.active \in SUBSET Members
  BY Zenon DEF WarmInductive, WarmTyped, PoolPasses
<1>s. /\ warmPool.step = "write" /\ UNCHANGED <<templates, ready, claimer, returned>> /\ e \in Members
      /\ held \subseteq Unclaimed /\ warmPool.seen \in 1 .. Gen
  BY Zenon, <1>t DEF WritePool, WriteStanding, HeldStanding
<1>n. /\ Cardinality(Unclaimed) \in Nat /\ Cardinality(Unclaimed') \in Nat /\ Cardinality(warmPool.active) \in Nat
      /\ Cardinality(Doomed) \in Nat /\ LargestMin \in Nat /\ q \in Nat /\ returned \in Nat /\ returned' = returned
  BY Zenon, <1>t, <1>s, MembersFinite, LargestMinBounds DEF Doomed
<1>c. /\ Cardinality(Unclaimed) <= Cardinality(warmPool.active) + InFlight + q + returned
      /\ Cardinality(Doomed) + Deleting <= q /\ Cardinality(Unclaimed) <= 2 * LargestMin + returned
  BY Zenon, <1>t, <1>s DEF CountStanding, SurgeBounded
<1>a. \A f \in Members : member[f].life = "absent" => member[f] = Absent
  BY Zenon, <1>t DEF WarmTyped
<1>g. /\ go \in PoolPasses /\ go.step = "sweep" /\ go.seen = warmPool.seen /\ go.active = warmPool.active
      /\ go.quarantined = q /\ go.todo = warmPool.todo
  BY Zenon, <1>t DEF PoolPasses
<1>k. ASSUME NEW p \in PoolPasses, warmPool' = p, p.step = "sweep", p.seen = warmPool.seen, p.active = warmPool.active,
             p.todo = warmPool.todo, held' \subseteq Unclaimed', member' \in [Members -> MemberRecords],
             \A f \in Members : member'[f].life = "absent" => member'[f] = Absent,
             Cardinality(Unclaimed') <= Cardinality(Unclaimed),
             Cardinality(Unclaimed') <= Cardinality(warmPool.active) + p.quarantined + returned,
             Cardinality(Doomed) <= p.quarantined
      PROVE  WarmInductive'
  <2>1. Unclaimed' \in SUBSET Members
    BY Zenon, MembersFinite
  <2>2. WarmTyped'
    BY Zenon, <1>k, <1>s, <1>t, <2>1 DEF WarmTyped, Gen
  <2>3. WriteStanding'
    BY Zenon, <1>k, <1>s DEF WriteStanding, Gen
  <2>4. HeldStanding'
    BY Zenon, <1>k DEF HeldStanding
  <2>5. CountStanding'
    <3>1. InFlight' = 0 /\ Deleting' = 0 /\ Doomed' = Doomed /\ p.quarantined \in Nat
      BY Zenon, <1>k DEF InFlight, Deleting, Doomed, PoolPasses
    <3>2. Cardinality(Unclaimed') <= Cardinality(warmPool'.active) + InFlight' + warmPool'.quarantined + returned'
      BY <1>k, <1>n, <3>1
    <3>3. Cardinality(Doomed') + Deleting' <= warmPool'.quarantined
      BY <1>k, <1>n, <3>1
    <3> QED
      BY Zenon, <3>2, <3>3 DEF CountStanding
  <2>6. Cardinality(Unclaimed') <= 2 * LargestMin + returned'
    BY <1>k, <1>c, <1>n
  <2>7. SurgeBounded'
    BY Zenon, <2>6 DEF SurgeBounded
  <2> QED
    BY Zenon, <2>2, <2>3, <2>4, <2>5, <2>7 DEF WarmInductive
<1>1. CASE warmPool.act = "create"
  <2>1. /\ member[e].life = "absent" /\ member' = [member EXCEPT ![e] = Created] /\ held' = held \ {e}
        /\ warmPool' = [warmPool EXCEPT !.step = "created"]
    BY Zenon, <1>1, <1>s DEF WritePool, Write
  <2>2. Countable(Created) /\ Created.life # "absent"
    BY Zenon, WarmRecords DEF Countable, InPool
  <2>3. /\ member' \in [Members -> MemberRecords] /\ member'[e] = Created /\ (\A f \in Members \ {e} : member'[f] = member[f])
        /\ Unclaimed' = Unclaimed \cup {e}
    BY Zenon, <2>1, <2>2, <1>s, <1>t, WarmRecords, MemberWritten
  <2>4. e \notin Unclaimed
    BY Zenon, <2>1 DEF Unclaimed, Countable, InPool
  <2>5. Cardinality(Unclaimed') = Cardinality(Unclaimed) + 1
    BY Zenon, <2>3, <2>4, <1>s, MembersFinite
  <2>6. /\ warmPool' \in PoolPasses /\ warmPool'.step = "created" /\ warmPool'.seen = warmPool.seen
        /\ warmPool'.active = warmPool.active /\ warmPool'.quarantined = q /\ warmPool'.todo = warmPool.todo /\ warmPool'.on = e
    BY Zenon, <2>1, <1>t DEF PoolPasses
  <2>7. \A f \in Members : member'[f].life = "absent" => member'[f] = Absent
    BY Zenon, <2>2, <2>3, <1>a
  <2>8. WarmTyped'
    BY Zenon, <2>1, <2>3, <2>6, <2>7, <1>s, <1>t DEF WarmTyped, Gen
  <2>9. WriteStanding'
    BY Zenon, <2>6, <1>1, <1>s, <1>t DEF WriteStanding, Gen
  <2>10. HeldStanding'
    BY Zenon, <2>1, <2>3, <1>s DEF HeldStanding
  <2>11. InFlight = 0 /\ Deleting = 0 /\ InFlight' = 1 /\ Deleting' = 0 /\ Doomed' = Doomed
    BY Zenon, <1>1, <1>s, <2>6 DEF InFlight, Deleting, Doomed
  <2>12. CountStanding'
    <3>1. Cardinality(Unclaimed') <= Cardinality(warmPool'.active) + InFlight' + warmPool'.quarantined + returned'
      <4>1. warmPool'.active = warmPool.active /\ warmPool'.quarantined = q /\ InFlight = 0 /\ InFlight' = 1
        BY Zenon, <2>6, <2>11
      <4> HIDE DEF q
      <4> QED
        BY <4>1, <2>5, <1>c, <1>n
    <3>2. Cardinality(Doomed') + Deleting' <= warmPool'.quarantined
      BY Zenon, <2>6, <2>11, <1>c
    <3> QED
      BY Zenon, <3>1, <3>2 DEF CountStanding
  <2>13. SurgeBounded'
    <3>1. SeenTemplate.min \in Minimums
      <4>1. warmPool.seen \in 1 .. Len(templates)
        BY Zenon, <1>s DEF Gen
      <4>2. templates[warmPool.seen] \in TemplateRecords
        BY <4>1, <1>t
      <4> QED
        BY Zenon, <4>2 DEF TemplateRecords, SeenTemplate
    <3>2. SeenTemplate.min \in Nat /\ SeenTemplate.min <= LargestMin
      BY Zenon, <3>1, LargestMinBounds, WarmAssumption
    <3>3. Cardinality(warmPool.active) + q < SeenTemplate.min + SeenTemplate.min
      BY Zenon, <1>1, <1>s, <1>t DEF WriteStanding, NeedsMore
    <3>4. Cardinality(Unclaimed') <= 2 * LargestMin + returned'
      <4>1. InFlight = 0
        BY Zenon, <2>11
      <4> HIDE DEF q
      <4> QED
        BY <4>1, <2>5, <3>2, <3>3, <1>c, <1>n
    <3> QED
      BY Zenon, <3>4 DEF SurgeBounded
  <2>14. SweptIsUnclaimedStep
    BY Zenon, <2>2, <2>3, WarmRecords DEF SweptIsUnclaimedStep
  <2> QED
    BY Zenon, <2>8, <2>9, <2>10, <2>12, <2>13, <2>14 DEF WarmInductive
<1>2. CASE warmPool.act \in {"mark", "clear"} /\ e \in held
  <2>1. PICK k \in {"grace", "none"} : member' = [member EXCEPT ![e].mark = k]
    BY Zenon, <1>2, <1>s DEF WritePool
  <2>2. warmPool' = go /\ held' = held
    BY Zenon, <1>2, <1>s DEF WritePool
  <2> DEFINE m == [member[e] EXCEPT !.mark = k]
  <2>3. /\ m \in MemberRecords /\ m.life = member[e].life /\ m.claimed = member[e].claimed
        /\ member' = [member EXCEPT ![e] = m]
    <3>1. m \in MemberRecords /\ m.life = member[e].life /\ m.claimed = member[e].claimed
      <4>1. member[e] \in MemberRecords /\ k \in {"none", "grace", "due"}
        BY <1>s, <1>t
      <4> HIDE DEF e
      <4> QED
        BY Zenon, <4>1 DEF MemberRecords
    <3>2. member' = [member EXCEPT ![e] = m]
      BY <2>1
    <3> QED
      BY Zenon, <3>1, <3>2
  <2>4. e \in Unclaimed /\ Countable(member[e])
    BY Zenon, <1>2, <1>s DEF Unclaimed
  <2> HIDE DEF m, go
  <2>5. Countable(m) /\ m.life # "absent"
    BY Zenon, <2>3, <2>4 DEF Countable, InPool
  <2>6. /\ member' \in [Members -> MemberRecords] /\ member'[e] = m /\ (\A f \in Members \ {e} : member'[f] = member[f])
        /\ Unclaimed' = Unclaimed
    <3>1. WarmTyped /\ e \in Members /\ m \in MemberRecords /\ member' = [member EXCEPT ![e] = m]
      BY Zenon, <2>3, <1>s, <1>t
    <3> HIDE DEF e
    <3>2. /\ member' \in [Members -> MemberRecords] /\ member'[e] = m /\ (\A f \in Members \ {e} : member'[f] = member[f])
          /\ Countable(m) => Unclaimed' = Unclaimed \cup {e}
      BY Zenon, <3>1, MemberWritten
    <3> QED
      BY Zenon, <3>2, <2>4, <2>5
  <2>7. \A f \in Members : member'[f].life = "absent" => member'[f] = Absent
    BY Zenon, <2>5, <2>6, <1>a
  <2>8. InFlight = 0 /\ Deleting = 0
    BY Zenon, <1>2, <1>s DEF InFlight, Deleting
  <2>9. /\ Cardinality(Unclaimed') <= Cardinality(warmPool.active) + go.quarantined + returned
        /\ Cardinality(Doomed) <= go.quarantined
    <3>1. go.quarantined = q /\ Unclaimed' = Unclaimed
      BY Zenon, <2>6, <1>g
    <3> HIDE DEF q
    <3> QED
      BY <3>1, <2>8, <1>c, <1>n
  <2>10. WarmInductive'
    <3>1. Cardinality(Unclaimed') <= Cardinality(Unclaimed) /\ held' \subseteq Unclaimed'
      BY <2>2, <2>6, <1>n, <1>s
    <3> QED
      BY Zenon, <3>1, <2>2, <2>6, <2>7, <2>9, <1>g, <1>k
  <2>11. SweptIsUnclaimedStep
    BY Zenon, <2>5, <2>6, WarmRecords DEF SweptIsUnclaimedStep
  <2> QED
    BY Zenon, <2>10, <2>11
<1>3. CASE warmPool.act \in {"delete", "trim"} /\ DeleteAllowed(e)
  <2> DEFINE p == IF warmPool.act = "delete" THEN [go EXCEPT !.quarantined = @ - 1] ELSE go
  <2>1. member' = [member EXCEPT ![e] = Absent] /\ held' = held \ {e} /\ warmPool' = p
    BY Zenon, <1>3, <1>s DEF WritePool, Write
  <2>2. e \in Unclaimed /\ ~Countable(Absent)
    BY Zenon, <1>3, <1>s, WarmRecords DEF DeleteAllowed, Countable, InPool
  <2>3. /\ member' \in [Members -> MemberRecords] /\ member'[e] = Absent /\ (\A f \in Members \ {e} : member'[f] = member[f])
        /\ Unclaimed' = Unclaimed \ {e}
    BY Zenon, <2>1, <2>2, <1>s, <1>t, WarmRecords, MemberWritten
  <2>4. Cardinality(Unclaimed') = Cardinality(Unclaimed) - 1
    BY Zenon, <2>2, <2>3, MembersFinite
  <2> HIDE DEF go
  <2>5. /\ p \in PoolPasses /\ p.step = "sweep" /\ p.seen = warmPool.seen /\ p.active = warmPool.active
        /\ p.todo = warmPool.todo
        /\ Cardinality(Unclaimed') <= Cardinality(warmPool.active) + p.quarantined + returned
        /\ Cardinality(Doomed) <= p.quarantined
    <3>1. CASE warmPool.act = "delete"
      <4>1. InFlight = 0 /\ Deleting = 1
        BY Zenon, <3>1, <1>s DEF InFlight, Deleting
      <4>2. q - 1 \in Nat /\ p = [go EXCEPT !.quarantined = q - 1]
        <5>1. q - 1 \in Nat
          <6> HIDE DEF q
          <6> QED
            BY <4>1, <1>c, <1>n
        <5>2. p = [go EXCEPT !.quarantined = go.quarantined - 1]
          BY Zenon, <3>1
        <5> QED
          BY Zenon, <5>1, <5>2, <1>g
      <4>3. /\ p \in PoolPasses /\ p.step = "sweep" /\ p.seen = warmPool.seen /\ p.active = warmPool.active
            /\ p.todo = warmPool.todo /\ p.quarantined = q - 1
        BY Zenon, <4>2, <1>g DEF PoolPasses
      <4> HIDE DEF p
      <4>4. /\ Cardinality(Unclaimed') <= Cardinality(warmPool.active) + (q - 1) + returned
            /\ Cardinality(Doomed) <= q - 1
        <5> HIDE DEF q
        <5> QED
          BY <4>1, <2>4, <1>c, <1>n
      <4> QED
        BY Zenon, <4>3, <4>4
    <3>2. CASE warmPool.act = "trim"
      <4>1. InFlight = 1 /\ Deleting = 0
        BY Zenon, <3>2, <1>s DEF InFlight, Deleting
      <4>2. p = go
        BY Zenon, <3>2
      <4>3. /\ Cardinality(Unclaimed') <= Cardinality(warmPool.active) + q + returned
            /\ Cardinality(Doomed) <= q
        <5> HIDE DEF q
        <5> QED
          BY <4>1, <2>4, <1>c, <1>n
      <4> QED
        BY Zenon, <4>2, <4>3, <1>g
    <3> QED
      BY Zenon, <1>3, <3>1, <3>2
  <2>6. \A f \in Members : member'[f].life = "absent" => member'[f] = Absent
    BY Zenon, <2>3, <1>a
  <2>7. held' \subseteq Unclaimed' /\ Cardinality(Unclaimed') <= Cardinality(Unclaimed)
    BY <2>1, <2>3, <2>4, <1>n, <1>s
  <2>8. WarmInductive'
    BY Zenon, <2>1, <2>3, <2>5, <2>6, <2>7, <1>k
  <2>9. SweptIsUnclaimedStep
    BY Zenon, <2>2, <2>3 DEF SweptIsUnclaimedStep, Unclaimed
  <2> QED
    BY Zenon, <2>8, <2>9
<1>4. CASE Stop /\ UNCHANGED member
  BY Zenon, <1>4, <1>s, PassStopsQuietly
<1> QED
  BY Zenon, <1>1, <1>2, <1>3, <1>4, <1>s DEF WritePool

\* The check after a create counts the member in, or takes it back.
LEMMA CreatedKeeps ==
    ASSUME WarmInductive, CheckCreated \/ UndoCreate \/ RestartPool
    PROVE  WarmInductive' /\ SweptIsUnclaimedStep
<1>t. /\ WarmTyped /\ WriteStanding /\ HeldStanding /\ CountStanding /\ warmPool \in PoolPasses
      /\ member \in [Members -> MemberRecords] /\ returned \in Nat /\ warmPool.quarantined \in Nat
      /\ warmPool.active \in SUBSET Members /\ held \subseteq Members /\ ready \in 0 .. Cardinality(Members)
  BY Zenon DEF WarmInductive, WarmTyped, PoolPasses
<1>1. CASE Stop /\ UNCHANGED <<templates, ready, member, claimer, returned>>
  BY Zenon, <1>1, PassStopsQuietly
<1>2. CASE CheckCreated
  <2>s. /\ warmPool.step = "created" /\ UNCHANGED <<templates, ready, member, claimer, returned>>
        /\ warmPool.on \in Members /\ warmPool.on \notin warmPool.active /\ warmPool.seen \in 1 .. Gen
    BY Zenon, <1>2, <1>t DEF CheckCreated, WriteStanding
  <2>u. Unclaimed' = Unclaimed /\ Gen' = Gen
    BY Zenon, <2>s DEF Unclaimed, Gen
  <2>1. CASE warmPool.seen = Gen
    <3> DEFINE A == warmPool.active \cup {warmPool.on}
    <3>1. warmPool' = [warmPool EXCEPT !.step = "sweep", !.active = A, !.act = "none", !.on = "none"] /\ held' = held
      BY Zenon, <1>2, <2>1 DEF CheckCreated
    <3>2. A \in SUBSET Members /\ Cardinality(A) = Cardinality(warmPool.active) + 1
      BY Zenon, <1>t, <2>s, MembersFinite
    <3> HIDE DEF A
    <3>3. /\ warmPool' \in PoolPasses /\ warmPool'.step = "sweep" /\ warmPool'.seen = warmPool.seen /\ warmPool'.active = A
          /\ warmPool'.quarantined = warmPool.quarantined /\ warmPool'.todo = warmPool.todo
      BY Zenon, <3>1, <3>2, <1>t DEF PoolPasses
    <3>4. WriteStanding' /\ HeldStanding'
      BY Zenon, <3>1, <3>3, <2>s, <2>u, <1>t DEF WriteStanding, HeldStanding
    <3>5. CountStanding'
      <4>1. InFlight = 1 /\ InFlight' = 0 /\ Deleting = 0 /\ Deleting' = 0 /\ Doomed' = Doomed
        BY Zenon, <2>s, <3>3 DEF InFlight, Deleting, Doomed
      <4>2. /\ Cardinality(Unclaimed) <= Cardinality(warmPool.active) + InFlight + warmPool.quarantined + returned
            /\ Cardinality(Doomed) + Deleting <= warmPool.quarantined
        BY Zenon, <1>t, <2>s DEF CountStanding
      <4>3. Cardinality(warmPool.active) \in Nat /\ Cardinality(Unclaimed) \in Nat
        BY Zenon, <1>t, MembersFinite
      <4>4. Cardinality(Unclaimed') <= Cardinality(warmPool'.active) + InFlight' + warmPool'.quarantined + returned'
        BY <4>1, <4>2, <4>3, <3>2, <3>3, <2>s, <2>u, <1>t
      <4>5. Cardinality(Doomed') + Deleting' <= warmPool'.quarantined
        BY Zenon, <4>1, <4>2, <3>3
      <4> QED
        BY Zenon, <4>4, <4>5 DEF CountStanding
    <3> QED
      BY Zenon, <3>1, <3>3, <3>4, <3>5, <2>s, <1>t, PassKeeps
  <2>2. CASE warmPool' = [warmPool EXCEPT !.step = "undo"] /\ held' = held \cup {warmPool.on}
    <3>1. /\ warmPool' \in PoolPasses /\ warmPool'.step = "undo" /\ warmPool'.seen = warmPool.seen /\ warmPool'.on = warmPool.on
      BY Zenon, <2>2, <1>t DEF PoolPasses
    <3>2. WriteStanding' /\ HeldStanding' /\ CountStanding' /\ held' \subseteq Members
      BY Zenon, <3>1, <2>2, <2>s, <2>u, <1>t DEF WriteStanding, HeldStanding, CountStanding
    <3> QED
      BY Zenon, <3>1, <3>2, <2>s, <1>t, PassKeeps
  <2> QED
    BY Zenon, <1>1, <1>2, <2>1, <2>2 DEF CheckCreated
<1>3. CASE UndoCreate
  <2>s. warmPool.step = "undo" /\ Stop /\ UNCHANGED <<templates, ready, claimer, returned>> /\ warmPool.on \in Members
    BY Zenon, <1>3, <1>t DEF UndoCreate, WriteStanding
  <2>1. CASE UNCHANGED member
    BY Zenon, <1>1, <2>1, <2>s
  <2>2. CASE member' = [member EXCEPT ![warmPool.on] = Absent]
    <3>1. /\ member' \in [Members -> MemberRecords] /\ member'[warmPool.on] = Absent
          /\ (\A f \in Members \ {warmPool.on} : member'[f] = member[f]) /\ Unclaimed' \subseteq Unclaimed
      <4>1. ~Countable(Absent) /\ Absent \in MemberRecords
        BY Zenon, WarmRecords DEF Countable, InPool
      <4> QED
        <5> DEFINE e == warmPool.on
        <5>1. WarmTyped /\ e \in Members /\ Absent \in MemberRecords /\ member' = [member EXCEPT ![e] = Absent]
          BY Zenon, <4>1, <2>2, <2>s, <1>t
        <5> HIDE DEF e
        <5>2. /\ member' \in [Members -> MemberRecords] /\ member'[e] = Absent /\ (\A f \in Members \ {e} : member'[f] = member[f])
              /\ ~Countable(Absent) => Unclaimed' = Unclaimed \ {e}
          BY Zenon, <5>1, MemberWritten
        <5> QED
          BY Zenon, <5>2, <4>1 DEF e
    <3>2. \A f \in Members : member'[f].life = "absent" => member'[f] = Absent
      BY Zenon, <3>1, <1>t DEF WarmTyped
    <3>3. WarmInductive'
      BY Zenon, <3>1, <3>2, <2>s, <1>t, PassStops
    <3> QED
      BY Zenon, <3>3, <2>s DEF SweptIsUnclaimedStep
  <2> QED
    BY Zenon, <1>3, <2>1, <2>2 DEF UndoCreate
<1>4. CASE RestartPool
  BY Zenon, <1>1, <1>4 DEF RestartPool
<1> QED
  BY Zenon, <1>2, <1>3, <1>4

\* The warm pool's inductive invariant holds in every reachable state, whatever the members,
\* the Runs, the minimums and the edits of the Template.
THEOREM WarmPoolIsInductive == WarmSpec => []WarmInductive
<1>1. WarmInit => WarmInductive
  <2> SUFFICES ASSUME WarmInit PROVE WarmInductive
    OBVIOUS
  <2>1. PICK m \in Minimums : templates = <<[inputs |-> 1, min |-> m]>>
    BY Zenon DEF WarmInit
  <2>2. /\ ready = 0 /\ member = [e \in Members |-> Absent] /\ held = {} /\ warmPool = NoPass /\ returned = 0
        /\ claimer = [c \in Claimers |-> [step |-> "idle", on |-> "none"]]
    BY Zenon DEF WarmInit
  <2>3. [inputs |-> 1, min |-> m] \in TemplateRecords /\ [step |-> "idle", on |-> "none"] \in ClaimerRecords
    BY Zenon DEF TemplateRecords, ClaimerRecords
  <2>4. templates \in Seq(TemplateRecords) /\ Gen = 1
    BY <2>1, <2>3 DEF Gen
  <2>5. Unclaimed = {}
    BY Zenon, <2>2, WarmRecords DEF Unclaimed, Countable, InPool
  <2>6. Cardinality(Members) \in Nat
    BY Zenon, MembersFinite
  <2>7. claimer \in [Claimers -> ClaimerRecords] /\ \A c \in Claimers : claimer[c].step = "idle"
    BY Zenon, <2>2, <2>3
  <2>8. member \in [Members -> MemberRecords] /\ \A e \in Members : member[e] = Absent
    BY Zenon, <2>2, WarmRecords
  <2>9. ready \in 0 .. Cardinality(Members) /\ 1 \in 1 .. MaxTemplates /\ returned \in Nat
    BY <2>2, <2>6, WarmAssumption
  <2>10. WarmTyped
    <3>1. held \subseteq Members
      BY Zenon, <2>2
    <3>2. warmPool \in PoolPasses
      BY Zenon, <2>2, WarmRecords
    <3> QED
      BY Zenon, <3>1, <3>2, <2>4, <2>7, <2>8, <2>9 DEF WarmTyped
  <2>11. WriteStanding /\ HeldStanding /\ CountStanding
    BY Zenon, <2>2, WarmRecords DEF WriteStanding, HeldStanding, CountStanding
  <2>12. SurgeBounded
    BY <2>2, <2>5, FS_EmptySet, LargestMinBounds DEF SurgeBounded
  <2> QED
    BY Zenon, <2>10, <2>11, <2>12 DEF WarmInductive
<1>2. WarmInductive /\ [WarmNext]_warmVars => WarmInductive'
  BY Zenon, OutsideStep, ReadKeeps, SweepKeeps, WriteKeeps, CreatedKeeps, PoolStutters DEF WarmNext
<1> QED
  BY <1>1, <1>2, PTL DEF WarmSpec

\* For every set of members and Runs and every minimum: the pool holds at most twice its
\* largest minimum beside what was given back, and a sweep deletes no member that a Run has
\* claimed (WarmPoolReconciler.Reconcile).
THEOREM WarmPoolIsCorrect == WarmSpec => WarmCorrect
<1>1. WarmInductive => WarmTypeOK /\ SurgeBounded
  BY Zenon DEF WarmInductive, WarmTyped, WarmTypeOK, MemberRecords, PoolPasses
<1>2. WarmInductive /\ [WarmNext]_warmVars => [SweptIsUnclaimedStep]_warmVars
  BY Zenon, OutsideStep, ReadKeeps, SweepKeeps, WriteKeeps, CreatedKeeps, PoolStutters DEF WarmNext
<1> QED
  BY <1>1, <1>2, WarmPoolIsInductive, PTL DEF WarmSpec, WarmCorrect, SweptIsUnclaimed
=============================================================================
