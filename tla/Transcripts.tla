---------------------------- MODULE Transcripts ----------------------------
(***************************************************************************)
(* The transcript of one Run: the event store (PostgreSQL or memory), the  *)
(* control-plane requests that append to it, stream it and delete it, the  *)
(* process-local gate between them, and a client that follows the stream   *)
(* and reconnects with the id of the last event it received.               *)
(* One action is one section under the gate's or the store's lock, one     *)
(* database transaction, or one event written to the stream.               *)
(***************************************************************************)
EXTENDS Integers, FiniteSets, Sequences, TLC

CONSTANTS Appenders,     \* concurrent append requests
          Deleters,      \* concurrent delete requests
          Keys,          \* idempotency keys, each with one fixed body
          MaxSeq,        \* bound on the sequence numbers explored
          MaxRetained,   \* events retained per Run
          MaxReplay,     \* events one subscription may replay
          Buffer,        \* capacity of a subscriber's channel
          MaxRestart,    \* bound on control-plane restarts
          MaxFault       \* bound on failing requests

VARIABLES durable,   \* TRUE: PostgreSQL; FALSE: the memory store
          trun,      \* the Run: "live", "deleting", "gone"
          store,     \* generation, high-water mark and retained events
          gate,      \* the gate's current entry and every entry's flags
          app,       \* the append requests
          del,       \* the delete requests
          rd,        \* the stream handler and its client
          next,      \* the event the client expects, by what it was told
          cleaned,   \* a delete request has answered success
          storeRestarts, faults

transcriptVars == <<durable, trun, store, gate, app, del, rd, next, cleaned, storeRestarts, faults>>

Entries == 1 .. (Cardinality(Appenders) + Cardinality(Deleters) + 2)
NoRequest == [step |-> "idle", entry |-> 0]
NoStream == [queue |-> <<>>, chan |-> <<>>, batch |-> <<>>, after |-> 0, dropped |-> FALSE]
NoReader == [step |-> "idle", entry |-> 0, cur |-> 0, gen |-> 0] @@ NoStream

TranscriptsInit ==
    /\ durable \in BOOLEAN
    /\ trun = "live"
    /\ store = [gen |-> 1, high |-> 0, events |-> <<>>]
    /\ gate = [cur |-> 0, cut |-> {}, done |-> {}, cleaning |-> {}]
    /\ app = [a \in Appenders |-> NoRequest]
    /\ del = [d \in Deleters |-> NoRequest]
    /\ rd = NoReader
    /\ next = 1
    /\ cleaned = FALSE
    /\ storeRestarts = 0 /\ faults = 0

(* ---- the gate --------------------------------------------------------- *)

GateHeld == {app[a].entry : a \in Appenders} \cup {del[d].entry : d \in Deleters} \cup {rd.entry}

\* The entry a request finds for the Run, or a new one.
EntryOf == IF gate.cur # 0 THEN gate.cur ELSE CHOOSE e \in Entries : e \notin GateHeld

\* A new entry has no flag; flags of an existing one are kept.
Opened(e) ==
    IF gate.cur = e THEN gate
    ELSE [cur |-> e, cut |-> gate.cut \ {e}, done |-> gate.done \ {e}, cleaning |-> gate.cleaning \ {e}]

\* transcriptGate.admit refuses a Run that is cut off.
AdmitRefused == gate.cur # 0 /\ gate.cur \in gate.cut

\* The admissions still held on entry e: its appends and its stream.
AppendAdmitted(e) == {a \in Appenders : app[a].entry = e}
Streaming(e) == rd.entry = e

\* removeIdle: an entry that is not cut off leaves the map with its last
\* admission.
RemoveIdle(g, e, last) == IF e \notin g.cut /\ last /\ g.cur = e THEN [g EXCEPT !.cur = 0] ELSE g

ReleaseAppend(a) ==
    LET e == app[a].entry
    IN  /\ app' = [app EXCEPT ![a] = NoRequest]
        /\ gate' = RemoveIdle(gate, e, AppendAdmitted(e) = {a} /\ ~Streaming(e))

ReleaseStream == gate' = RemoveIdle(gate, rd.entry, AppendAdmitted(rd.entry) = {})

\* Mutant: the cleanup waits for the stream alone.
GateDrained_AppendsLeft(e) == ~Streaming(e)

\* beginCleanup proceeds once no append and no stream is admitted.
GateDrained(e) == AppendAdmitted(e) = {} /\ ~Streaming(e)

\* finish: a failed cleanup keeps the cutoff, a completed one lifts it.
Finish(d, success) ==
    LET e == del[d].entry
        g == [gate EXCEPT !.cleaning = @ \ {e},
                          !.cut = IF success THEN @ \ {e} ELSE @,
                          !.done = IF success THEN @ \cup {e} ELSE @]
    IN  gate' = IF success THEN RemoveIdle(g, e, GateDrained(e)) ELSE g

(* ---- the store -------------------------------------------------------- *)

Earliest == IF store.events = <<>> THEN store.high + 1 ELSE Head(store.events).seq

\* A retained event with the same key is answered again and stored once.
Replayed(k) == \E i \in DOMAIN store.events : store.events[i].key = k

Stored(k) ==
    LET kept == IF Len(store.events) = MaxRetained THEN Tail(store.events) ELSE store.events
    IN  [store EXCEPT !.high = @ + 1, !.events = Append(kept, [seq |-> store.high + 1, key |-> k])]

\* A full channel drops the subscriber instead of skipping the event.
Pushed(r, e) ==
    IF r.dropped THEN r
    ELSE IF Len(r.chan) < Buffer THEN [r EXCEPT !.chan = Append(@, e)]
    ELSE [r EXCEPT !.dropped = TRUE]

(* ---- append requests -------------------------------------------------- *)

\* handleTranscript admits an append before it resolves the Run.
AppendAdmit(a) ==
    /\ app[a].step = "idle" /\ ~AdmitRefused
    /\ app' = [app EXCEPT ![a] = [step |-> "resolve", entry |-> EntryOf]]
    /\ gate' = Opened(EntryOf)
    /\ UNCHANGED <<durable, trun, store, del, rd, next, cleaned, storeRestarts, faults>>

AppendResolve(a) ==
    /\ app[a].step = "resolve"
    /\ \/ /\ trun = "live"
          /\ app' = [app EXCEPT ![a].step = "store"]
          /\ UNCHANGED gate
       \/ trun # "live" /\ ReleaseAppend(a)
    /\ UNCHANGED <<durable, trun, store, del, rd, next, cleaned, storeRestarts, faults>>

\* The store's Append commits the event, or answers the retained one, and the
\* memory store publishes it to the subscriber.
AppendCommit(a, k) ==
    /\ app[a].step = "store"
    /\ \/ Replayed(k) /\ UNCHANGED <<store, rd>>
       \/ /\ ~Replayed(k) /\ store.high < MaxSeq
          /\ store' = Stored(k)
          /\ rd' = IF ~durable /\ rd.step = "stream" THEN Pushed(rd, [seq |-> store.high + 1, key |-> k]) ELSE rd
    /\ ReleaseAppend(a)
    /\ UNCHANGED <<durable, trun, del, next, cleaned, storeRestarts, faults>>

\* The append fails and stores nothing: capacity, a conflict, a lost database.
AppendFails(a) ==
    /\ app[a].step = "store" /\ ReleaseAppend(a)
    /\ UNCHANGED <<durable, trun, store, del, rd, next, cleaned, storeRestarts, faults>>

(* ---- the stream and its client ---------------------------------------- *)

\* The client gives up on a definite refusal: expired or invalid cursor,
\* replay limit, cutoff.
AppendRefused == rd' = [rd EXCEPT !.step = "failed", !.entry = 0]

ReadAdmit ==
    /\ rd.step = "idle"
    /\ \/ AdmitRefused /\ AppendRefused /\ UNCHANGED gate
       \/ /\ ~AdmitRefused
          /\ rd' = [rd EXCEPT !.step = "resolve", !.entry = EntryOf]
          /\ gate' = Opened(EntryOf)
    /\ UNCHANGED <<durable, trun, store, app, del, next, cleaned, storeRestarts, faults>>

ReadResolve ==
    /\ rd.step = "resolve"
    /\ \/ trun = "live" /\ rd' = [rd EXCEPT !.step = "subscribe"] /\ UNCHANGED gate
       \/ trun # "live" /\ ReleaseStream /\ AppendRefused
    /\ UNCHANGED <<durable, trun, store, app, del, next, cleaned, storeRestarts, faults>>

\* A cursor of another store generation, ahead of the high-water mark, or
\* older than what is retained.
CursorRefused ==
    rd.cur > 0 /\ (rd.gen # store.gen \/ rd.cur > store.high \/ rd.cur + 1 < Earliest)

HistoryAfter(n) == SelectSeq(store.events, LAMBDA e : e.seq > n)

Gap == [seq |-> 0, key |-> Earliest]

\* Subscribe: replay and live position are cut at one point. A client without
\* a cursor starts from the beginning and is told of the events that expired before it came.
ReadSubscribe ==
    /\ rd.step = "subscribe"
    /\ LET history == HistoryAfter(rd.cur)
           refused == CursorRefused \/ Len(history) > MaxReplay
       IN  \/ refused /\ ReleaseStream /\ AppendRefused
           \/ /\ ~refused
              /\ rd' = [rd EXCEPT !.step = "stream", !.chan = <<>>, !.batch = <<>>, !.dropped = FALSE,
                                  !.queue = IF rd.cur = 0 /\ Earliest > 1 THEN <<Gap>> \o history ELSE history,
                                  !.after = store.high]
              /\ UNCHANGED gate
    /\ next' = IF rd.cur = 0 THEN 1 ELSE next
    /\ UNCHANGED <<durable, trun, store, app, del, cleaned, storeRestarts, faults>>

\* The PostgreSQL subscriber's poller reads one batch in one snapshot.
PollRead ==
    /\ durable /\ rd.step = "stream" /\ ~rd.dropped /\ rd.batch = <<>>
    /\ store.high > rd.after
    /\ rd' = IF Earliest > rd.after + 1 THEN [rd EXCEPT !.dropped = TRUE]
             ELSE [rd EXCEPT !.batch = SubSeq(HistoryAfter(rd.after), 1, Buffer)]
    /\ UNCHANGED <<durable, trun, store, gate, app, del, next, cleaned, storeRestarts, faults>>

\* ... and offers its events to the channel one by one.
PollPush ==
    /\ rd.step = "stream" /\ ~rd.dropped /\ rd.batch # <<>>
    /\ LET e == Head(rd.batch)
           pushed == Pushed(rd, e)
       IN  rd' = IF pushed.dropped THEN [pushed EXCEPT !.batch = <<>>]
                 ELSE [pushed EXCEPT !.batch = Tail(@), !.after = e.seq]
    /\ UNCHANGED <<durable, trun, store, gate, app, del, next, cleaned, storeRestarts, faults>>

\* The client receives the next block: its cursor moves with every event, and
\* never with the gap notice, which has no id.
Receive(e) ==
    /\ next' = IF e.seq = 0 THEN e.key ELSE e.seq + 1
    /\ rd' = [rd EXCEPT !.cur = IF e.seq = 0 THEN @ ELSE e.seq,
                        !.gen = IF e.seq = 0 THEN @ ELSE store.gen,
                        !.queue = IF rd.queue # <<>> THEN Tail(@) ELSE @,
                        !.chan = IF rd.queue # <<>> THEN @ ELSE Tail(@)]

StreamReplays ==
    /\ rd.step = "stream" /\ rd.queue # <<>>
    /\ Receive(Head(rd.queue))
    /\ UNCHANGED <<durable, trun, store, gate, app, del, cleaned, storeRestarts, faults>>

StreamSends ==
    /\ rd.step = "stream" /\ rd.queue = <<>> /\ rd.chan # <<>>
    /\ Receive(Head(rd.chan))
    /\ UNCHANGED <<durable, trun, store, gate, app, del, cleaned, storeRestarts, faults>>

\* The client comes back with its cursor; nothing of the stream survives.
Disconnected == rd' = [rd EXCEPT !.step = "idle", !.entry = 0, !.queue = <<>>, !.chan = <<>>, !.batch = <<>>]

\* Mutant: the cutoff does not end a stream.
StreamMustEnd_Dropped == rd.dropped

\* The handler returns: the subscriber was dropped, the stream was cancelled
\* by the cutoff, or the periodic authorization found the Run deleting.
StreamMustEnd == rd.dropped \/ rd.entry \in gate.cut \/ trun # "live"

TranscriptStreamEnds ==
    /\ rd.step = "stream" /\ StreamMustEnd
    /\ ReleaseStream /\ Disconnected
    /\ UNCHANGED <<durable, trun, store, app, del, next, cleaned, storeRestarts, faults>>

\* The connection breaks.
StreamBreaks ==
    /\ rd.step = "stream" /\ faults < MaxFault
    /\ faults' = faults + 1
    /\ ReleaseStream /\ Disconnected
    /\ UNCHANGED <<durable, trun, store, app, del, next, cleaned, storeRestarts>>

(* ---- delete requests -------------------------------------------------- *)

\* The operator's finalizer asks for the deletion of a deleting Run.
DeleteResolve(d) ==
    /\ del[d].step = "idle" /\ trun = "deleting" /\ ~cleaned
    /\ del' = [del EXCEPT ![d].step = "cut"]
    /\ UNCHANGED <<durable, trun, store, gate, app, rd, next, cleaned, storeRestarts, faults>>

DeleteCutoff(d) ==
    /\ del[d].step = "cut"
    /\ del' = [del EXCEPT ![d] = [step |-> "wait", entry |-> EntryOf]]
    /\ gate' = [Opened(EntryOf) EXCEPT !.cut = @ \cup {EntryOf}]
    /\ UNCHANGED <<durable, trun, store, app, rd, next, cleaned, storeRestarts, faults>>

\* beginCleanup: another request already completed, or the drain is over and
\* no other cleanup is running.
DeleteBegin(d) ==
    /\ del[d].step = "wait"
    /\ LET e == del[d].entry
       IN  \/ /\ e \in gate.done
              /\ del' = [del EXCEPT ![d] = NoRequest]
              /\ cleaned' = TRUE
              /\ UNCHANGED gate
           \/ /\ e \notin gate.done /\ e \notin gate.cleaning /\ GateDrained(e)
              /\ del' = [del EXCEPT ![d].step = "verify"]
              /\ gate' = [gate EXCEPT !.cleaning = @ \cup {e}]
              /\ UNCHANGED cleaned
    /\ UNCHANGED <<durable, trun, store, app, rd, next, storeRestarts, faults>>

\* The drain took too long.
DeleteGivesUp(d) ==
    /\ del[d].step = "wait" /\ faults < MaxFault
    /\ faults' = faults + 1
    /\ del' = [del EXCEPT ![d] = NoRequest]
    /\ UNCHANGED <<durable, trun, store, gate, app, rd, next, cleaned, storeRestarts>>

\* Authorization, Namespace and Run are proved again after the drain, then the
\* rows and the live subscriber go in one store operation.
DeleteStore(d) ==
    /\ del[d].step = "verify" /\ trun = "deleting"
    /\ store' = [store EXCEPT !.high = 0, !.events = <<>>]
    /\ rd' = IF ~durable /\ rd.step = "stream" THEN [rd EXCEPT !.dropped = TRUE] ELSE rd
    /\ del' = [del EXCEPT ![d].step = "finish"]
    /\ UNCHANGED <<durable, trun, gate, app, next, cleaned, storeRestarts, faults>>

DeleteFails(d) ==
    /\ del[d].step = "verify" /\ (trun # "deleting" \/ faults < MaxFault)
    /\ faults' = IF trun = "deleting" THEN faults + 1 ELSE faults
    /\ del' = [del EXCEPT ![d] = NoRequest]
    /\ Finish(d, FALSE)
    /\ UNCHANGED <<durable, trun, store, app, rd, next, cleaned, storeRestarts>>

DeleteFinish(d) ==
    /\ del[d].step = "finish"
    /\ del' = [del EXCEPT ![d] = NoRequest]
    /\ cleaned' = TRUE
    /\ Finish(d, TRUE)
    /\ UNCHANGED <<durable, trun, store, app, rd, next, storeRestarts, faults>>

(* ---- the Run and the process ------------------------------------------ *)

\* The Run is deleted by its owner.
RunDeleted ==
    /\ trun = "live" /\ trun' = "deleting"
    /\ UNCHANGED <<durable, store, gate, app, del, rd, next, cleaned, storeRestarts, faults>>

\* The finalizer goes only after a successful answer.
RunGone ==
    /\ trun = "deleting" /\ cleaned /\ trun' = "gone"
    /\ UNCHANGED <<durable, store, gate, app, del, rd, next, cleaned, storeRestarts, faults>>

\* The control plane restarts: requests and gate are gone, and a memory store
\* comes back empty under another generation.
Restart ==
    /\ storeRestarts < MaxRestart /\ storeRestarts' = storeRestarts + 1
    /\ store' = IF durable THEN store ELSE [gen |-> store.gen + 1, high |-> 0, events |-> <<>>]
    /\ gate' = [cur |-> 0, cut |-> {}, done |-> {}, cleaning |-> {}]
    /\ app' = [a \in Appenders |-> NoRequest]
    /\ del' = [d \in Deleters |-> NoRequest]
    /\ IF rd.step = "failed" THEN UNCHANGED rd ELSE Disconnected
    /\ UNCHANGED <<durable, trun, next, cleaned, faults>>

AppendNext == \E a \in Appenders :
    AppendAdmit(a) \/ AppendResolve(a) \/ AppendFails(a) \/ \E k \in Keys : AppendCommit(a, k)
ReadNext == ReadAdmit \/ ReadResolve \/ ReadSubscribe \/ PollRead \/ PollPush
            \/ StreamReplays \/ StreamSends \/ TranscriptStreamEnds \/ StreamBreaks
DeleteNext == \E d \in Deleters :
    DeleteResolve(d) \/ DeleteCutoff(d) \/ DeleteBegin(d) \/ DeleteGivesUp(d)
    \/ DeleteStore(d) \/ DeleteFails(d) \/ DeleteFinish(d)

TranscriptsNext == AppendNext \/ ReadNext \/ DeleteNext \/ RunDeleted \/ RunGone \/ Restart

TranscriptsSpec == TranscriptsInit /\ [][TranscriptsNext]_transcriptVars

\* Handlers that can run do run, and the finalizer retries.
TranscriptsFairness ==
    /\ \A a \in Appenders : WF_transcriptVars(AppendResolve(a) \/ AppendFails(a))
    /\ WF_transcriptVars(ReadResolve \/ ReadSubscribe \/ TranscriptStreamEnds)
    /\ \A d \in Deleters : WF_transcriptVars(DeleteResolve(d) \/ DeleteCutoff(d) \/ DeleteBegin(d)
                                            \/ DeleteStore(d) \/ DeleteFinish(d))

(* ---- properties ------------------------------------------------------- *)

\* Types of the variables, one transcript's store and gate (transcript.go,
\* transcript_gate.go).
TranscriptsTypeOK ==
    /\ durable \in BOOLEAN /\ trun \in {"live", "deleting", "gone"} /\ cleaned \in BOOLEAN
    /\ store.high \in 0 .. MaxSeq /\ Len(store.events) <= MaxRetained
    /\ gate.cur \in Entries \cup {0} /\ gate.cut \cup gate.done \cup gate.cleaning \subseteq Entries
    /\ \A a \in Appenders : app[a].step \in {"idle", "resolve", "store"} /\ app[a].entry \in Entries \cup {0}
    /\ \A d \in Deleters : del[d].step \in {"idle", "cut", "wait", "verify", "finish"}
    /\ rd.step \in {"idle", "resolve", "subscribe", "stream", "failed"} /\ Len(rd.chan) <= Buffer

\* Once a delete request has answered success, the transcript is empty and no
\* admitted append can still write to it: the gate's cutoff and drain, and the
\* admission taken before the Run is resolved, leave no late append behind.
NothingAfterCleanup == cleaned => store.events = <<>> /\ \A a \in Appenders : app[a].step # "store"

\* While a cleanup removes the rows, no append and no stream of this Run is
\* inside the store (transcriptGate.beginCleanup).
CleanupIsAlone ==
    \A d \in Deleters : del[d].step \in {"verify", "finish"} =>
        /\ \A a \in Appenders : app[a].step # "store"
        /\ rd.step # "stream"
        /\ \A x \in Deleters \ {d} : del[x].step \notin {"verify", "finish"}

\* The client never misses or repeats an event unnoticed: what it receives is
\* the event after the last one, or the first one after an announced gap
\* (Subscribe's replay/live cut, the dropped subscriber, the SSE cursor).
NoSilentGap == [][rd'.cur # rd.cur => rd'.cur = next]_transcriptVars

\* The deletion of a Run's transcript completes: streams are cancelled, admitted
\* appends end, and the retried request finds the store drained.
CleanupCompletes == trun = "deleting" ~> cleaned

\* A transcript: its states, and what a client may receive (TranscriptStore).
TranscriptCorrect == [](TranscriptsTypeOK /\ NothingAfterCleanup /\ CleanupIsAlone) /\ NoSilentGap
=============================================================================
