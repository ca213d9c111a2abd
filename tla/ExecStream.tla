----------------------------- MODULE ExecStream -----------------------------
(***************************************************************************)
(* sandboxd's Exec RPC (sandboxd/internal/server/server.go): one command   *)
(* bound to one stream.  The handler reaps the command; four kinds of      *)
(* goroutine run beside it: the receiver of the client's messages, the     *)
(* watcher for its disconnection, a pump per output pipe and the           *)
(* dispatcher that sends what the pumps queue.  A pump never waits for the *)
(* client: a chunk that finds the queue full is dropped, and the client is *)
(* told how many bytes it missed.                                          *)
(***************************************************************************)
EXTENDS Integers, Sequences

CONSTANTS
    QueueSize,   \* execQueueSize
    ChunkSizes,  \* bytes one read of a pipe returns
    MaxBytes     \* bound: bytes produced on both streams

ASSUME ExecAssumption ==
    /\ QueueSize \in Nat \ {0} /\ MaxBytes \in Nat /\ ChunkSizes \subseteq 1 .. MaxBytes

Streams == {1, 2}   \* stdout, stderr
Controls == {"INTERRUPTED", "TERMINATED", "FORCED"}   \* by the reason they leave

VARIABLES
    xcmd,    \* the command, its process group and the handler
    xconn,   \* the stream: client, receiver and watcher
    xout,    \* each output stream: its pump, and what the client knows of it
    xqueue   \* the queue and the dispatcher

execVars == <<xcmd, xconn, xout, xqueue>>

\* others: descendants run; killed: SIGKILL sent; badControl: controlErr is filled.
CmdType ==
    [step : {"new", "running", "reaped", "fenced", "closing", "done"}, exit : BOOLEAN,
     cause : Controls \cup {"none", "EXITED", "TIMEOUT", "DISCONNECTED", "DAEMON_CLOSED"},
     leader : BOOLEAN, others : BOOLEAN, killed : BOOLEAN, timed : BOOLEAN, badControl : BOOLEAN]
\* told: what recvDone holds.
ConnType ==
    [client : {"open", "half", "gone"}, receiver : {"reading", "writing", "returned"},
     told : {"none", "eof", "error"}, watching : BOOLEAN]
\* next: the dispatcher's count; got and lost: bytes the client received and was told of.
OutType == [open : BOOLEAN, produced : Nat, next : Nat, got : Nat, lost : Nat]

ExecTypeOK ==
    /\ xcmd \in CmdType /\ xconn \in ConnType /\ xout \in [Streams -> OutType]
    /\ xqueue.dispatcher \in {"running", "failed", "done"}
    /\ Len(xqueue.chunks) <= QueueSize
    /\ \A k \in DOMAIN xqueue.chunks :
        xqueue.chunks[k] \in [stream : Streams, offset : Nat, size : ChunkSizes]

ExecInit ==
    /\ xcmd \in [step : {"new"}, exit : {FALSE}, cause : {"none"}, leader : {FALSE},
                 others : {FALSE}, killed : {FALSE}, timed : BOOLEAN, badControl : {FALSE}]
    /\ xconn = [client |-> "open", receiver |-> "reading", told |-> "none", watching |-> TRUE]
    /\ xout = [i \in Streams |-> [open |-> TRUE, produced |-> 0, next |-> 0, got |-> 0, lost |-> 0]]
    /\ xqueue = [dispatcher |-> "running", chunks |-> <<>>]

ExecActive == xcmd.step \notin {"new", "done"}

-----------------------------------------------------------------------------
(* The command.                                                            *)

\* Up to the launch; a refused or a failed one ends the call.
ExecStart ==
    /\ xcmd.step = "new"
    /\ xcmd' \in {[xcmd EXCEPT !.step = "running", !.leader = TRUE], [xcmd EXCEPT !.step = "done"]}
    /\ UNCHANGED <<xconn, xout, xqueue>>

\* deliverCause: the first cause is delivered, later ones are not.
DeliverCause(cause, force) ==
    xcmd' = IF xcmd.cause # "none" THEN xcmd
            ELSE [xcmd EXCEPT !.cause = cause, !.killed = @ \/ force]
KillFor(cause) == DeliverCause(cause, TRUE)

ExecTimeout ==
    /\ xcmd.step = "running" /\ xcmd.timed
    /\ IF xcmd.cause = "none" THEN KillFor("TIMEOUT") ELSE xcmd' = [xcmd EXCEPT !.timed = FALSE]
    /\ UNCHANGED <<xconn, xout, xqueue>>

\* The Supervisor's Close: the callback, and the kill of the domain.
ExecDaemonCloses ==
    /\ ExecActive /\ xcmd.leader
    /\ xcmd' = [xcmd EXCEPT !.cause = IF @ = "none" THEN "DAEMON_CLOSED" ELSE @, !.killed = TRUE]
    /\ UNCHANGED <<xconn, xout, xqueue>>

\* Mutant: the descendants are not killed once the leader is reaped.
ExecReap_LeaderOnly ==
    /\ xcmd.step = "running" /\ ~xcmd.leader
    /\ xcmd' = [xcmd EXCEPT !.step = "reaped", !.cause = IF @ = "none" THEN "EXITED" ELSE @,
                            !.timed = FALSE]
    /\ UNCHANGED <<xconn, xout, xqueue>>
\* wait returns; then force and close, which waits for the group to be gone.
ExecReap ==
    /\ xcmd.step = "running" /\ ~xcmd.leader
    /\ xcmd' = [xcmd EXCEPT !.step = "reaped", !.cause = IF @ = "none" THEN "EXITED" ELSE @,
                            !.timed = FALSE, !.killed = TRUE]
    /\ UNCHANGED <<xconn, xout, xqueue>>
ExecFence ==
    /\ xcmd.step = "reaped" /\ ~xcmd.others
    /\ xcmd' = [xcmd EXCEPT !.step = "fenced"]
    /\ UNCHANGED <<xconn, xout, xqueue>>
\* wg.Wait and close(q).
ExecDrained ==
    /\ xcmd.step = "fenced" /\ \A i \in Streams : ~xout[i].open
    /\ xcmd' = [xcmd EXCEPT !.step = "closing"]
    /\ UNCHANGED <<xconn, xout, xqueue>>

\* The end of the handler: an error of a control or of a send, or the final gap chunks
\* and the exit.
ExecFinish ==
    /\ xcmd.step = "closing"
    /\ \/ /\ xcmd.badControl \/ xqueue.dispatcher = "failed"
          /\ xcmd' = [xcmd EXCEPT !.step = "done"] /\ UNCHANGED xout
       \/ /\ ~xcmd.badControl /\ xqueue.dispatcher = "done" /\ xconn.client = "gone"
          /\ xcmd' = [xcmd EXCEPT !.step = "done"] /\ UNCHANGED xout
       \/ /\ ~xcmd.badControl /\ xqueue.dispatcher = "done" /\ xconn.client # "gone"
          /\ xcmd' = [xcmd EXCEPT !.step = "done", !.exit = TRUE]
          /\ xout' = [i \in Streams |->
                        [xout[i] EXCEPT !.lost = @ + (xout[i].produced - xout[i].next)]]
    /\ UNCHANGED <<xconn, xqueue>>

-----------------------------------------------------------------------------
(* The client and the goroutines that listen to it.                        *)

\* A message of standard input.  The write may block, and fails once the pipe is closed.
RecvStdin ==
    /\ ExecActive /\ xconn.receiver = "reading" /\ xconn.client = "open"
    /\ xconn' = [xconn EXCEPT !.receiver = "writing"]
    /\ UNCHANGED <<xcmd, xout, xqueue>>
StdinWritten ==
    /\ ExecActive /\ xconn.receiver = "writing"
    /\ xconn' \in {[xconn EXCEPT !.receiver = "reading"],
                   [xconn EXCEPT !.receiver = "returned", !.told = "error"]}
    /\ UNCHANGED <<xcmd, xout, xqueue>>

RecvControl(c) ==
    /\ ExecActive /\ xconn.receiver = "reading" /\ xconn.client = "open"
    /\ DeliverCause(c, c = "FORCED")
    /\ UNCHANGED <<xconn, xout, xqueue>>
\* An unknown control, or one that cannot be delivered.
RecvBadControl ==
    /\ ExecActive /\ xconn.receiver = "reading" /\ xconn.client = "open"
    /\ xcmd' = [xcmd EXCEPT !.killed = TRUE, !.badControl = TRUE]
    /\ xconn' = [xconn EXCEPT !.receiver = "returned"]
    /\ UNCHANGED <<xout, xqueue>>

ClientLeaves ==
    /\ ExecActive /\ xconn.client # "gone"
    /\ xconn' \in {[xconn EXCEPT !.client = "gone"], [xconn EXCEPT !.client = "half"]}
    /\ UNCHANGED <<xcmd, xout, xqueue>>
RecvEnds ==
    /\ ExecActive /\ xconn.receiver = "reading" /\ xconn.client # "open"
    /\ xconn' = [xconn EXCEPT !.receiver = "returned",
                              !.told = IF xconn.client = "half" THEN "eof" ELSE "error"]
    /\ UNCHANGED <<xcmd, xout, xqueue>>

\* The watcher waits once, for the receiver or for the stream's context.
Watch ==
    /\ ExecActive /\ xconn.watching
    /\ \/ xconn.told = "eof" /\ UNCHANGED xcmd
       \/ (xconn.told = "error" \/ xconn.client = "gone") /\ KillFor("DISCONNECTED")
    /\ xconn' = [xconn EXCEPT !.watching = FALSE]
    /\ UNCHANGED <<xout, xqueue>>

-----------------------------------------------------------------------------
(* Output.                                                                 *)

QueueFull == Len(xqueue.chunks) = QueueSize
\* A read of a pipe: what does not fit into the queue is dropped.
Pump(i, size) ==
    /\ ExecActive /\ xout[i].open /\ xout[1].produced + xout[2].produced + size <= MaxBytes
    /\ xout' = [xout EXCEPT ![i].produced = @ + size]
    /\ xqueue' = IF QueueFull THEN xqueue
                 ELSE [xqueue EXCEPT !.chunks = Append(@,
                         [stream |-> i, offset |-> xout[i].produced, size |-> size])]
    /\ UNCHANGED <<xcmd, xconn>>
\* The pipe ends, at the latest when nobody of the group is left to hold it.
PumpEnds(i) ==
    /\ ExecActive /\ xout[i].open
    /\ xout' = [xout EXCEPT ![i].open = FALSE]
    /\ UNCHANGED <<xcmd, xconn, xqueue>>

\* Mutant: the gap is counted from the start of the previous chunk.
Delivered_FromStart(o, c) ==
    [o EXCEPT !.next = c.offset, !.got = @ + c.size, !.lost = @ + (c.offset - o.next)]
\* What the client knows after a chunk.
Delivered(o, c) ==
    [o EXCEPT !.next = c.offset + c.size, !.got = @ + c.size, !.lost = @ + (c.offset - o.next)]
Dispatch ==
    /\ ExecActive /\ xqueue.dispatcher = "running" /\ xqueue.chunks # <<>>
    /\ LET c == Head(xqueue.chunks) IN
       IF xconn.client = "gone"
       THEN /\ KillFor("DISCONNECTED") /\ UNCHANGED xout
            /\ xqueue' = [dispatcher |-> "failed", chunks |-> Tail(xqueue.chunks)]
       ELSE /\ xout' = [xout EXCEPT ![c.stream] = Delivered(@, c)] /\ UNCHANGED xcmd
            /\ xqueue' = [xqueue EXCEPT !.chunks = Tail(@)]
    /\ UNCHANGED xconn
DispatchEnds ==
    /\ xcmd.step = "closing" /\ xqueue.dispatcher = "running" /\ xqueue.chunks = <<>>
    /\ xqueue' = [xqueue EXCEPT !.dispatcher = "done"]
    /\ UNCHANGED <<xcmd, xconn, xout>>

-----------------------------------------------------------------------------
\* The processes.
ExecLeaderExits ==
    xcmd.leader /\ xcmd' = [xcmd EXCEPT !.leader = FALSE] /\ UNCHANGED <<xconn, xout, xqueue>>
ExecForks ==
    /\ xcmd.leader /\ ~xcmd.others /\ ~xcmd.killed
    /\ xcmd' = [xcmd EXCEPT !.others = TRUE] /\ UNCHANGED <<xconn, xout, xqueue>>
ExecOthersExit ==
    xcmd.others /\ xcmd' = [xcmd EXCEPT !.others = FALSE] /\ UNCHANGED <<xconn, xout, xqueue>>

ExecNext ==
    \/ ExecStart \/ ExecTimeout \/ ExecDaemonCloses \/ ExecReap \/ ExecFence \/ ExecDrained
    \/ ExecFinish
    \/ RecvStdin \/ StdinWritten \/ RecvBadControl \/ ClientLeaves \/ RecvEnds \/ Watch
    \/ \E c \in Controls : RecvControl(c)
    \/ \E i \in Streams : PumpEnds(i) \/ \E size \in ChunkSizes : Pump(i, size)
    \/ Dispatch \/ DispatchEnds
    \/ ExecLeaderExits \/ ExecForks \/ ExecOthersExit

ExecSpec == ExecInit /\ [][ExecNext]_execVars

\* Goroutines run, the timeout fires, what is killed dies, and the client keeps reading
\* or goes away.
ExecFairness ==
    /\ WF_execVars(ExecTimeout)
    /\ WF_execVars(ExecReap \/ ExecFence \/ ExecDrained \/ ExecFinish)
    /\ WF_execVars(RecvEnds) /\ WF_execVars(Watch)
    /\ WF_execVars(Dispatch \/ DispatchEnds)
    /\ \A i \in Streams : WF_execVars(~xcmd.leader /\ ~xcmd.others /\ PumpEnds(i))
    /\ WF_execVars(xcmd.killed /\ (ExecLeaderExits \/ ExecOthersExit))

-----------------------------------------------------------------------------
\* "Exec output chunks likewise carry offsets and observable loss ... a discarded tail is
\* reported by a final zero-data gap chunk before exit": when the exit arrives the
\* client accounts for every byte of both streams.
ExecLossIsExact ==
    xcmd.exit => \A i \in Streams : xout[i].got + xout[i].lost = xout[i].produced

\* "Implementations fence descendants and drain output before terminal state".
ExecExitIsFenced ==
    xcmd.exit => ~xcmd.leader /\ ~xcmd.others /\ \A i \in Streams : ~xout[i].open

ExecCauseIsFirstStep == xcmd.cause # "none" => xcmd'.cause = xcmd.cause
\* A reported reason is the first accepted cause, whichever goroutines race for it.
ExecCauseIsFirst == [][ExecCauseIsFirstStep]_execVars

\* The call ends once the leader has, even if descendants hold the pipes or the queue was
\* full.
ExecEnds == xcmd.step = "running" /\ ~xcmd.leader ~> xcmd.step = "done"

\* An exec stream: its states, and the first cause for its end (Exec).
ExecCorrect == [](ExecTypeOK /\ ExecLossIsExact /\ ExecExitIsFenced) /\ ExecCauseIsFirst
=============================================================================
