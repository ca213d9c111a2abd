--------------------------- MODULE MCControlPlane ---------------------------
(***************************************************************************)
(* The services around sandboxd on small instances: the connection pool,   *)
(* declared services, terminals, portals and one-time codes, transcripts,  *)
(* browser sessions and retained changes.  They hold no state in common,   *)
(* so one behaviour explores one of them: `service' names it.  Retained    *)
(* changes are explored twice, with two files and with two requests.       *)
(***************************************************************************)
EXTENDS ConnectionPool, DeclaredServices, Attachments, Transcripts,
        BrowserSessions, ChangesCapture

VARIABLE service

Focus == {"pool", "declared", "terminal", "portal", "codes", "transcript", "sessions",
          "files", "requests"}

ControlPlaneInit ==
    /\ service \in Focus
    /\ PoolInit /\ SvcInit /\ AttachInit /\ TranscriptsInit /\ SessionsInit /\ ChangesInit
    /\ service # "transcript" => durable
    /\ service # "sessions" => persistent /\ keyring = CHOOSE k \in Loadable : TRUE

\* One file, edited once in one execution; or one request.
OneFile == edits' <= 1 /\ execution' = 1 /\ \A p \in Paths \ {CHOOSE p \in Paths : TRUE} : ws'[p] = 0
OneRequest == \A q \in CaptureSlots \ {CHOOSE q \in CaptureSlots : TRUE} : caps'[q] = NoCapture

AccessNext == OwnersNext \/ (service = "terminal" /\ TermNext) \/ (service = "portal" /\ PortalNext)
              \/ (service = "codes" /\ HandoffNext)

ControlPlaneNext ==
    /\ UNCHANGED service
    /\ \/ /\ service = "pool" /\ PoolNext
          /\ UNCHANGED <<svcVars, attachVars, transcriptVars, sessionVars, changesVars>>
       \/ /\ service = "declared" /\ SvcNext
          /\ UNCHANGED <<poolVars, attachVars, transcriptVars, sessionVars, changesVars>>
       \/ /\ service \in {"terminal", "portal", "codes"} /\ AccessNext
          /\ UNCHANGED <<poolVars, svcVars, transcriptVars, sessionVars, changesVars>>
       \/ /\ service = "transcript" /\ TranscriptsNext
          /\ UNCHANGED <<poolVars, svcVars, attachVars, sessionVars, changesVars>>
       \/ /\ service = "sessions" /\ SessionsNext
          /\ UNCHANGED <<poolVars, svcVars, attachVars, transcriptVars, changesVars>>
       \/ /\ service \in {"files", "requests"} /\ ChangesNext
          /\ service = "files" => OneRequest
          /\ service = "requests" => OneFile
          /\ UNCHANGED <<poolVars, svcVars, attachVars, transcriptVars, sessionVars>>

ControlPlaneSpec ==
    /\ ControlPlaneInit
    /\ [][ControlPlaneNext]_<<service, poolVars, svcVars, attachVars, transcriptVars, sessionVars,
                              changesVars>>
=============================================================================
