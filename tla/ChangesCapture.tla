-------------------------- MODULE ChangesCapture --------------------------
(***************************************************************************)
(* The retained workspace changes of one Run: the operator asks the        *)
(* control plane for a baseline before the agent starts, for observations  *)
(* while it works and for a final one; the control plane has sandboxd scan *)
(* the workspace, proves the execution again and saves the record under    *)
(* its revision. Requests time out and are retried while the first one is  *)
(* still running, and the workspace is edited all along.                   *)
(***************************************************************************)
EXTENDS Integers, FiniteSets, TLC

CONSTANTS CaptureSlots,  \* concurrent capture requests (changesRequestSlots)
          Paths,         \* files of the workspace
          MaxEdits,      \* bound on edits; an edit gives its file a new version
          MaxExecs,      \* bound on executions of the Environment
          MaxRevision    \* bound on saved revisions

VARIABLES phase,     \* the Run: "new", "accepting", "working", "terminal", "deleting"
          ten,       \* tenancy of the namespace: "active", "fenced"
          execution, \* the Environment's current execution
          accepted,  \* the execution that accepted the Run, 0 before
          ws,        \* version of every file, 0 when absent
          edits,
          record,    \* the stored ChangesRecord
          caps,      \* capture requests of the control plane
          ask,       \* what the operator waits for
          baseDone, finalDone  \* the two conditions of the Run

changesVars == <<phase, ten, execution, accepted, ws, edits, record, caps, ask, baseDone, finalDone>>

Unavailable == [state |-> "unavailable"]
NoChanges == [rev |-> 0, base |-> Unavailable, cur |-> Unavailable, final |-> FALSE, stale |-> FALSE]
NoCapture == [step |-> "idle"]

ChangesInit ==
    /\ phase = "new" /\ ten = "active" /\ execution = 1 /\ accepted = 0
    /\ ws = [p \in Paths |-> 0] /\ edits = 0
    /\ record = NoChanges
    /\ caps = [q \in CaptureSlots |-> NoCapture]
    /\ ask = "none" /\ baseDone = FALSE /\ finalDone = FALSE

(* ---- the operator ----------------------------------------------------- *)

Wanted == IF phase = "new" /\ ~baseDone THEN "baseline"
          ELSE IF phase = "working" THEN "poll"
          ELSE IF phase = "terminal" /\ ~finalDone THEN "final" ELSE "none"

\* captureChanges: one request per reconciliation, its fence read from the
\* Environment, answered 204 or retried.
Ask(q) ==
    /\ ask = "none" /\ Wanted # "none" /\ ten = "active" /\ caps[q].step = "idle"
    /\ ask' = Wanted
    /\ caps' = [caps EXCEPT ![q] = [step |-> "load", kind |-> Wanted, fence |-> execution, waited |-> TRUE]]
    /\ UNCHANGED <<phase, ten, execution, accepted, ws, edits, record, baseDone, finalDone>>

\* The request times out at the operator and goes on at the control plane.
AskTimesOut(q) ==
    /\ ask # "none" /\ caps[q].step # "idle" /\ caps[q].waited
    /\ ask' = "none"
    /\ caps' = [caps EXCEPT ![q].waited = FALSE]
    /\ UNCHANGED <<phase, ten, execution, accepted, ws, edits, record, baseDone, finalDone>>

\* Offboarding withdraws the authority to capture: the condition is set with
\* the last observation retained.
SkipFinal ==
    /\ ask = "none" /\ phase = "terminal" /\ ten # "active" /\ ~finalDone
    /\ finalDone' = TRUE
    /\ UNCHANGED <<phase, ten, execution, accepted, ws, edits, record, caps, ask, baseDone>>

\* The adapter is asked to accept the Run only after the baseline condition;
\* the agent then works, and the Run ends.
BeginAcceptance ==
    /\ phase = "new" /\ baseDone /\ ask = "none"
    /\ phase' = "accepting"
    /\ UNCHANGED <<ten, execution, accepted, ws, edits, record, caps, ask, baseDone, finalDone>>

RunAccepted ==
    /\ phase = "accepting" /\ phase' = "working" /\ accepted' = execution
    /\ UNCHANGED <<ten, execution, ws, edits, record, caps, ask, baseDone, finalDone>>

RunEnded ==
    /\ phase \in {"new", "accepting", "working"} /\ ask = "none" /\ phase' = "terminal"
    /\ UNCHANGED <<ten, execution, accepted, ws, edits, record, caps, ask, baseDone, finalDone>>

DeleteRun ==
    /\ phase # "deleting" /\ phase' = "deleting"
    /\ UNCHANGED <<ten, execution, accepted, ws, edits, record, caps, ask, baseDone, finalDone>>

(* ---- the capture request ---------------------------------------------- *)

\* The answer ends the request; the operator that still waits sets its
\* condition on success.
Answer(q, success) ==
    /\ caps' = [caps EXCEPT ![q] = NoCapture]
    /\ IF caps[q].waited
       THEN /\ ask' = "none"
            /\ baseDone' = (baseDone \/ (success /\ caps[q].kind = "baseline"))
            /\ finalDone' = (finalDone \/ (success /\ caps[q].kind = "final"))
       ELSE UNCHANGED <<ask, baseDone, finalDone>>

Refuse(q) == Answer(q, FALSE) /\ UNCHANGED record

\* Baselines and terminal results are immutable and retry-safe.
Retained(q) == record.final \/ (caps[q].kind = "baseline" /\ record.rev > 0)

\* handleChanges resolves the Run and loads the record.
LoadRecord(q) ==
    /\ caps[q].step = "load"
    /\ IF phase = "deleting" THEN Refuse(q)
       ELSE IF Retained(q) THEN Answer(q, TRUE) /\ UNCHANGED record
       ELSE /\ caps' = [caps EXCEPT ![q] = [step |-> "capture", old |-> record] @@ caps[q]]
            /\ UNCHANGED <<record, ask, baseDone, finalDone>>
    /\ UNCHANGED <<phase, ten, execution, accepted, ws, edits>>

\* The kind of a request must fit the Run's state.
Fits(q) == /\ phase # "deleting"
           /\ (caps[q].kind = "final") = (phase = "terminal")
           /\ caps[q].kind = "baseline" => phase = "new"

\* A result about another execution than the accepted one is unavailable.
AnotherExecution(q) == caps[q].kind # "baseline" /\ accepted # execution

Listed(q) == {p \in Paths : ws[p] # 0} \cup
             (IF caps[q].old.base.state = "available" THEN DOMAIN caps[q].old.base.files ELSE {})

\* Capture reads Run, Environment and fence; sandboxd lists the workspace.
BeginCapture(q) ==
    /\ caps[q].step = "capture"
    /\ IF ~Fits(q) \/ (~AnotherExecution(q) /\ caps[q].fence # execution) THEN Refuse(q)
       ELSE IF AnotherExecution(q)
       THEN /\ caps' = [caps EXCEPT ![q] = [step |-> "save", snap |-> Unavailable, proof |-> FALSE] @@ caps[q]]
            /\ UNCHANGED <<record, ask, baseDone, finalDone>>
       ELSE /\ caps' = [caps EXCEPT ![q] = [step |-> "scan", listed |-> Listed(q), files |-> [p \in {} |-> 0]] @@ caps[q]]
            /\ UNCHANGED <<record, ask, baseDone, finalDone>>
    /\ UNCHANGED <<phase, ten, execution, accepted, ws, edits>>

\* One file is opened and read; a file that changes meanwhile fails the scan.
ScanFile(q, p) ==
    /\ caps[q].step = "scan" /\ p \in caps[q].listed \ DOMAIN caps[q].files
    /\ caps' = [caps EXCEPT ![q].files = [x \in DOMAIN @ \cup {p} |-> IF x = p THEN ws[p] ELSE @[x]]]
    /\ UNCHANGED <<phase, ten, execution, accepted, ws, edits, record, ask, baseDone, finalDone>>

Failed(q) == caps' = [caps EXCEPT ![q] = [step |-> "save", snap |-> Unavailable, proof |-> TRUE] @@ caps[q]]

\* The listing is repeated: a file that came or went fails the scan.
Relist(q) ==
    /\ caps[q].step = "scan" /\ DOMAIN caps[q].files = caps[q].listed
    /\ IF Listed(q) # caps[q].listed THEN Failed(q)
       ELSE caps' = [caps EXCEPT ![q] = [step |-> "verify", left |-> caps[q].listed,
                                         at |-> ws, early |-> phase = "new"] @@ caps[q]]
    /\ UNCHANGED <<phase, ten, execution, accepted, ws, edits, record, ask, baseDone, finalDone>>

\* Mutant: files are not looked at again after the scan.
Unmodified_Unchecked(q, p) == TRUE

\* Identity, size, mode and modification time of a file are as first seen.
Unmodified(q, p) == ws[p] = caps[q].files[p]

VerifyFile(q, p) ==
    /\ caps[q].step = "verify" /\ p \in caps[q].left
    /\ IF Unmodified(q, p) THEN caps' = [caps EXCEPT ![q].left = @ \ {p}] ELSE Failed(q)
    /\ UNCHANGED <<phase, ten, execution, accepted, ws, edits, record, ask, baseDone, finalDone>>

Present(files) == [p \in {x \in DOMAIN files : files[x] # 0} |-> files[p]]

\* SnapshotChanges proves the credential and the execution after the call.
EndScan(q) ==
    /\ caps[q].step = "verify" /\ caps[q].left = {}
    /\ LET snap == [state |-> "available", files |-> Present(caps[q].files), at |-> caps[q].at,
                    early |-> caps[q].early, by |-> caps[q].fence]
       IN  caps' = [caps EXCEPT ![q] = [step |-> "save", snap |-> snap, proof |-> TRUE] @@ caps[q]]
    /\ UNCHANGED <<phase, ten, execution, accepted, ws, edits, record, ask, baseDone, finalDone>>

\* Another execution: the call fails. A baseline fails with it, anything else
\* is an unavailable observation.
ScanBreaks(q) ==
    /\ caps[q].step \in {"scan", "verify"} /\ caps[q].fence # execution
    /\ IF caps[q].kind = "baseline" THEN Refuse(q) ELSE Failed(q) /\ UNCHANGED <<record, ask, baseDone, finalDone>>
    /\ UNCHANGED <<phase, ten, execution, accepted, ws, edits>>

\* The Run is resolved again, and the captured proof repeated.
Current(q) == Fits(q) /\ (caps[q].proof => caps[q].fence = execution)

NextRecord(q) ==
    LET old == caps[q].old
        snap == caps[q].snap
        up == snap.state = "available"
    IN  [rev |-> old.rev + 1,
         base |-> IF old.rev = 0 /\ caps[q].kind = "baseline" THEN snap ELSE old.base,
         cur |-> IF up THEN snap ELSE old.cur,
         final |-> caps[q].kind = "final",
         stale |-> ~up]

\* An identical observation keeps its revision.
Unchanged(q) ==
    LET old == caps[q].old
        snap == caps[q].snap
    IN  /\ old.rev > 0 /\ caps[q].kind # "final" /\ ~old.stale
        /\ snap.state = "available" /\ old.cur.state = "available" /\ snap.files = old.cur.files

PublishChecked(q) ==
    /\ caps[q].step = "save"
    /\ IF ~Current(q) THEN Refuse(q)
       ELSE IF Unchanged(q) THEN Answer(q, TRUE) /\ UNCHANGED record
       ELSE /\ caps' = [caps EXCEPT ![q].step = "write"]
            /\ UNCHANGED <<record, ask, baseDone, finalDone>>
    /\ UNCHANGED <<phase, ten, execution, accepted, ws, edits>>

\* Save: the stored revision is the loaded one and is not final.
SaveAccepts(q) == record.rev = caps[q].old.rev /\ ~record.final

SaveRecord(q) ==
    /\ caps[q].step = "write" /\ caps[q].old.rev < MaxRevision
    /\ IF SaveAccepts(q) THEN Answer(q, TRUE) /\ record' = NextRecord(q) ELSE Refuse(q)
    /\ UNCHANGED <<phase, ten, execution, accepted, ws, edits>>

(* ---- the environment -------------------------------------------------- *)

EditWorkspace(p) ==
    /\ edits < MaxEdits /\ edits' = edits + 1
    /\ \/ ws' = [ws EXCEPT ![p] = edits + 1]
       \/ ws[p] # 0 /\ ws' = [ws EXCEPT ![p] = 0]
    /\ UNCHANGED <<phase, ten, execution, accepted, record, caps, ask, baseDone, finalDone>>

NewExecution ==
    /\ execution < MaxExecs /\ execution' = execution + 1
    /\ UNCHANGED <<phase, ten, accepted, ws, edits, record, caps, ask, baseDone, finalDone>>

FenceTenancy ==
    /\ ten = "active" /\ ten' = "fenced"
    /\ UNCHANGED <<phase, execution, accepted, ws, edits, record, caps, ask, baseDone, finalDone>>

ChangesNext ==
    \/ SkipFinal \/ BeginAcceptance \/ RunAccepted \/ RunEnded \/ DeleteRun \/ NewExecution \/ FenceTenancy
    \/ \E q \in CaptureSlots :
         \/ Ask(q) \/ AskTimesOut(q) \/ LoadRecord(q) \/ BeginCapture(q) \/ Relist(q)
         \/ EndScan(q) \/ ScanBreaks(q) \/ PublishChecked(q) \/ SaveRecord(q)
         \/ \E p \in Paths : ScanFile(q, p) \/ VerifyFile(q, p)
    \/ \E p \in Paths : EditWorkspace(p)

ChangesSpec == ChangesInit /\ [][ChangesNext]_changesVars

(* ---- properties ------------------------------------------------------- *)

\* Types of the Run, the record and the requests.
ChangesTypeOK ==
    /\ phase \in {"new", "accepting", "working", "terminal", "deleting"} /\ ten \in {"active", "fenced"}
    /\ record.rev \in 0 .. MaxRevision /\ record.final \in BOOLEAN
    /\ ask \in {"none", "baseline", "poll", "final"}
    /\ \A q \in CaptureSlots : caps[q].step \in {"idle", "load", "capture", "scan", "verify", "save", "write"}

\* A retained snapshot shows the workspace at one instant, that of the second
\* listing, although files are read one by one while they are edited
\* (ChangesServer.capture).
SnapshotIsAnInstant ==
    \A s \in {record.base, record.cur} : s.state = "available" =>
        \A p \in DOMAIN s.files : s.files[p] = s.at[p]

\* The retained baseline was scanned before the adapter was asked to accept
\* the Run, whichever of the retried requests stored it (captureChanges,
\* Save's revision).
BaselineIsPreStart == record.base.state = "available" => record.base.early

\* The conditions on the Run are true of the store: a baseline outcome is
\* retained, and a final one unless tenancy was withdrawn.
ConditionsAreTrue ==
    /\ baseDone => record.rev > 0
    /\ finalDone /\ ten = "active" => record.final

\* A final observation that is not stale is of the execution that accepted the
\* Run.
FinalIsOfAccepted == record.final /\ ~record.stale => record.cur.by = accepted

\* A revision names one content for good, revisions go up by one, and a final
\* record never changes (Save).
RevisionNamesContent ==
    [][record' # record => record'.rev = record.rev + 1 /\ ~record.final /\ (record.rev > 0 => record'.base = record.base)]_changesVars

\* The retained changes: their states, and how a record may be replaced (ChangesStore).
ChangesCorrect ==
    /\ [](ChangesTypeOK /\ SnapshotIsAnInstant /\ BaselineIsPreStart /\ ConditionsAreTrue /\ FinalIsOfAccepted)
    /\ RevisionNamesContent
=============================================================================
