--------------------------- MODULE WorkspaceFiles ---------------------------
(***************************************************************************)
(* sandboxd's FilesystemService (sandboxd/internal/server/filesystem.go):  *)
(* streamed writes to one workspace path, staged beside it and published   *)
(* by one link or rename, and the walks of a client through the pages of a *)
(* directory and the ranges of a file.                                     *)
(*                                                                         *)
(* A content stands for its SHA-256 version.  Processes of the workspace   *)
(* change the path whenever they like; commitMu keeps only the writers of  *)
(* this server apart.                                                      *)
(***************************************************************************)
EXTENDS Integers, Sequences, FiniteSets, FiniteSetsExt

CONSTANTS
    Writers, Contents,
    WriteSlots,   \* MaxConcurrentWrites
    Parts,        \* data messages of a complete stream
    Directories,  \* what a listed directory may hold: sequences of names
    PageSizes     \* page sizes and read sizes a client asks for

Staging == "staging"   \* any name beginning with .sandboxd-write-

ASSUME FileAssumption ==
    /\ Contents \cap {"absent", "other", "partial"} = {} /\ "none" \notin Writers \cup Contents
    /\ WriteSlots \in Nat /\ Parts \in Nat /\ PageSizes \subseteq Nat \ {0}
    /\ Directories \subseteq Seq(STRING)

VARIABLES
    dest,      \* what the destination is: a content, absent, or not a regular file
    writes,    \* the write streams
    staged,    \* the writers whose staging file exists
    commitMu,  \* the writer that holds it, or none
    meddled,   \* history: the workspace changed the path since commitMu was taken
    fsys,      \* BeginShutdown was called; the wait is over; the root is open
    walk       \* a client's walk through a directory and a file

fileVars == <<dest, writes, staged, commitMu, meddled, fsys, walk>>

WritePreconditions == {"ANY", "MUST_NOT_EXIST", "MATCH_VERSION"}
NoWrite == [step |-> "idle", pre |-> "none", expect |-> "none", content |-> "none", parts |-> 0]
WriteType ==
    [step : {"idle", "admitted", "header", "streaming", "flushed", "publishing"},
     pre : WritePreconditions \cup {"none"}, expect : Contents \cup {"none"},
     content : Contents \cup {"none"}, parts : 0 .. Parts]
WalkType ==
    [dir : Directories, page : PageSizes, listed : Nat, names : Seq(STRING), listDone : BOOLEAN,
     read : Nat, bytes : Nat, readDone : BOOLEAN]

FileTypeOK ==
    /\ dest \in Contents \cup {"absent", "other", "partial"}
    /\ writes \in [Writers -> WriteType] /\ staged \subseteq Writers
    /\ commitMu \in Writers \cup {"none"} /\ meddled \in BOOLEAN
    /\ fsys \in [closing : BOOLEAN, waited : BOOLEAN, root : BOOLEAN]
    /\ walk.listed \in 0 .. Len(walk.dir) /\ walk.read \in 0 .. Len(walk.dir)

FileInit ==
    /\ dest \in Contents \cup {"absent"}
    /\ writes = [w \in Writers |-> NoWrite] /\ staged = {} /\ commitMu = "none" /\ meddled = FALSE
    /\ fsys = [closing |-> FALSE, waited |-> FALSE, root |-> TRUE]
    /\ walk \in {[dir |-> d, page |-> p, listed |-> 0, names |-> <<>>, listDone |-> FALSE,
                  read |-> 0, bytes |-> 0, readDone |-> FALSE] : d \in Directories, p \in PageSizes}

-----------------------------------------------------------------------------
(* Write.                                                                  *)

Writing(w) == writes[w].step # "idle"
WriteAt(w, step) == writes[w].step = step
WriteGoto(w, step) == writes' = [writes EXCEPT ![w].step = step]

\* The deferred calls: remove the staging file, release the slot and the count of
\* active writes.
WriteReturn(w) == writes' = [writes EXCEPT ![w] = NoWrite] /\ staged' = staged \ {w}

MayBegin == fsys.root /\ ~fsys.closing
\* beginWrite and the slot; the stream is refused if all are taken.
BeginWrite(w) ==
    /\ WriteAt(w, "idle") /\ MayBegin
    /\ Cardinality({v \in Writers : Writing(v)}) < WriteSlots
    /\ WriteGoto(w, "admitted")
    /\ UNCHANGED <<dest, staged, commitMu, meddled, fsys, walk>>

RecvHeader(w, pre, expect, content) ==
    /\ WriteAt(w, "admitted") /\ (pre = "MATCH_VERSION") = (expect # "none")
    /\ writes' = [writes EXCEPT ![w] = [step |-> "header", pre |-> pre, expect |-> expect,
                                        content |-> content, parts |-> 0]]
    /\ UNCHANGED <<dest, staged, commitMu, meddled, fsys, walk>>

\* Under commitMu: the destination must not be anything but a regular file.
WriteStage(w) ==
    /\ WriteAt(w, "header") /\ commitMu = "none"
    /\ IF dest = "other" THEN WriteReturn(w)
       ELSE WriteGoto(w, "streaming") /\ staged' = staged \cup {w}
    /\ UNCHANGED <<dest, commitMu, meddled, fsys, walk>>
RecvPart(w) ==
    /\ WriteAt(w, "streaming") /\ writes[w].parts < Parts
    /\ writes' = [writes EXCEPT ![w].parts = @ + 1]
    /\ UNCHANGED <<dest, staged, commitMu, meddled, fsys, walk>>
\* The client closes the stream; the staged file is flushed and closed.
StreamEnds(w) ==
    /\ WriteAt(w, "streaming") /\ writes[w].parts = Parts /\ WriteGoto(w, "flushed")
    /\ UNCHANGED <<dest, staged, commitMu, meddled, fsys, walk>>
\* A bad message, a limit, a host error or a cancellation before the publication.
WriteAbort(w) ==
    /\ writes[w].step \in {"admitted", "header", "streaming", "flushed"}
    /\ WriteReturn(w)
    /\ UNCHANGED <<dest, commitMu, meddled, fsys, walk>>

\* checkWritePrecondition.
WriteAllowed(w) ==
    CASE writes[w].pre = "ANY" -> dest # "other"
      [] writes[w].pre = "MUST_NOT_EXIST" -> dest = "absent"
      [] writes[w].pre = "MATCH_VERSION" -> dest = writes[w].expect
\* Mutant: commitMu is taken for the publication only.
CheckPrecondition_Unlocked(w) ==
    /\ WriteAt(w, "flushed")
    /\ IF WriteAllowed(w) THEN WriteGoto(w, "publishing") /\ UNCHANGED staged ELSE WriteReturn(w)
    /\ UNCHANGED <<dest, commitMu, meddled, fsys, walk>>
CheckPrecondition(w) ==
    /\ WriteAt(w, "flushed") /\ commitMu = "none"
    /\ IF WriteAllowed(w)
       THEN WriteGoto(w, "publishing") /\ commitMu' = w /\ meddled' = FALSE /\ UNCHANGED staged
       ELSE WriteReturn(w) /\ UNCHANGED <<commitMu, meddled>>
    /\ UNCHANGED <<dest, fsys, walk>>

StagedData(w) == IF writes[w].parts = Parts THEN writes[w].content ELSE "partial"
\* link fails on anything that is there; rename replaces it.
Published(w) ==
    IF writes[w].pre = "MUST_NOT_EXIST" /\ dest # "absent" THEN dest ELSE StagedData(w)
WritePublish(w) ==
    /\ WriteAt(w, "publishing")
    /\ dest' \in {Published(w)} \cup ({dest} \cap {"other"})   \* a directory stays
    /\ WriteReturn(w) /\ commitMu' = "none"
    /\ UNCHANGED <<meddled, fsys, walk>>

WorkspaceChanges(d) ==
    /\ dest' = d /\ d # dest /\ meddled' = TRUE
    /\ UNCHANGED <<writes, staged, commitMu, fsys, walk>>

-----------------------------------------------------------------------------
(* Shutdown.                                                               *)

BeginFileShutdown ==
    /\ ~fsys.closing /\ fsys' = [fsys EXCEPT !.closing = TRUE]
    /\ UNCHANGED <<dest, writes, staged, commitMu, meddled, walk>>
\* CloseContext: the wait for active writes returns, then the root is closed.
AwaitWrites ==
    /\ fsys.closing /\ ~fsys.waited /\ \A w \in Writers : ~Writing(w)
    /\ fsys' = [fsys EXCEPT !.waited = TRUE]
    /\ UNCHANGED <<dest, writes, staged, commitMu, meddled, walk>>
CloseRoot ==
    /\ fsys.waited /\ fsys.root
    /\ fsys' = [fsys EXCEPT !.root = FALSE]
    /\ UNCHANGED <<dest, writes, staged, commitMu, meddled, walk>>

-----------------------------------------------------------------------------
(* List and Read.  One entry more than the page is read to see whether     *)
(* there is a next page; offsets count staging files, pages leave them out.*)

Visible(names) == SelectSeq(names, LAMBDA n : n # Staging)
HasMore(k) == k > walk.page
ListPage ==
    LET infos == SubSeq(walk.dir, walk.listed + 1, Min({Len(walk.dir), walk.listed + walk.page + 1}))
        page == IF HasMore(Len(infos)) THEN SubSeq(infos, 1, walk.page) ELSE infos
    IN
    /\ fsys.root /\ ~walk.listDone /\ commitMu = "none"
    /\ walk' = [walk EXCEPT !.names = @ \o Visible(page), !.listed = @ + Len(page),
                            !.listDone = ~HasMore(Len(infos))]
    /\ UNCHANGED <<dest, writes, staged, commitMu, meddled, fsys>>

ReadWant == Min({walk.page, Len(walk.dir) - walk.read})
\* A ranged read of a file as long as the directory: next_offset and eof.
ReadRange ==
    LET want == ReadWant IN
    /\ fsys.root /\ ~walk.readDone /\ commitMu = "none"
    /\ walk' = [walk EXCEPT !.bytes = @ + want, !.read = @ + want,
                            !.readDone = walk.read + want = Len(walk.dir)]
    /\ UNCHANGED <<dest, writes, staged, commitMu, meddled, fsys>>

WriteNext ==
    \/ \E w \in Writers :
        \/ BeginWrite(w) \/ WriteStage(w) \/ RecvPart(w) \/ StreamEnds(w) \/ WriteAbort(w)
        \/ CheckPrecondition(w) \/ WritePublish(w)
        \/ \E pre \in WritePreconditions, expect \in Contents \cup {"none"}, content \in Contents :
            RecvHeader(w, pre, expect, content)
    \/ \E d \in Contents \cup {"absent", "other"} : WorkspaceChanges(d)
    \/ BeginFileShutdown \/ AwaitWrites \/ CloseRoot
WalkNext == ListPage \/ ReadRange
FileNext == WriteNext \/ WalkNext

FileSpec == FileInit /\ [][FileNext]_fileVars

-----------------------------------------------------------------------------
\* "the destination never contains partially streamed data".
DestinationIsWhole == dest # "partial"

MatchIsExclusiveStep ==
    \A w \in Writers :
        WriteAt(w, "publishing") /\ writes[w].pre = "MATCH_VERSION" /\ writes'[w].step = "idle"
            => dest = writes[w].expect \/ meddled
\* "Hash checking and replacement are serialized with other writes in this server, so
\* concurrent RPC writers cannot both commit": a MATCH_VERSION write replaces the version
\* it names, unless the workspace itself changed the file after the check.
MatchIsExclusive == [][MatchIsExclusiveStep]_fileVars

CreateNeverReplacesStep ==
    \A w \in Writers :
        WriteAt(w, "publishing") /\ writes[w].pre = "MUST_NOT_EXIST" /\ writes'[w].step = "idle"
            => dest = "absent" \/ dest' = dest
\* "MUST_NOT_EXIST uses atomic no-replace publication": it replaces nothing even if the
\* workspace creates the file between the check and the publication.
CreateNeverReplaces == [][CreateNeverReplacesStep]_fileVars

\* "interrupted streams remove their staging file", and the shutdown "waits for active
\* writes to finish cleanup before closing the pinned workspace root": no staging file is
\* left when the root is closed, and no write is running then.
CleanAtClose == ~fsys.root => staged = {} /\ \A w \in Writers : ~Writing(w)

\* Walking an unchanged directory with page tokens returns every entry once, without the
\* staging files among them (ListDirectory).
EveryEntryIsListed == walk.listDone => walk.names = Visible(walk.dir)
\* Walking the ranges of an unchanged file returns every byte once (ReadFile).
EveryByteIsRead == walk.readDone => walk.bytes = Len(walk.dir)
\* A walk that has come to its end has returned everything.
WalkIsComplete == EveryEntryIsListed /\ EveryByteIsRead

\* What no write does: replace a version other than the one it was to match, or a file it
\* was to create.
FileSteps == MatchIsExclusive /\ CreateNeverReplaces

\* The workspace's files: their states, and what a write may replace (FilesystemServer).
FileCorrect == [](FileTypeOK /\ DestinationIsWhole /\ CleanAtClose /\ WalkIsComplete) /\ FileSteps
=============================================================================
