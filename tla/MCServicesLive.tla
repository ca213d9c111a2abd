--------------------------- MODULE MCServicesLive ---------------------------
(***************************************************************************)
(* What the services must eventually do, on smaller instances and under    *)
(* the fairness of their modules.  As in MCNode, one behaviour explores    *)
(* one service, which `service' names.                                     *)
(***************************************************************************)
EXTENDS ConnectionPool, Attachments, Transcripts, EgressTunnels,
        InstallationIsolation, RepositoryCredentials, ProcessManager, ExecStream

VARIABLE service

NoRevisions == {<<1, 0>>}

LiveInit ==
    /\ service \in {"pool", "terminal", "portal", "transcript", "tunnels", "isolation",
                    "credentials", "processes", "exec"}
    /\ PoolInit /\ AttachInit /\ TranscriptsInit /\ EgressInit /\ IsoInit /\ CredInit
    /\ ProcInit /\ ExecInit
    /\ service # "transcript" => durable
    /\ service # "isolation" => install.sel = "none"
    /\ service # "exec" => ~xcmd.timed

\* Nobody wakes the Environment of a Run that ended.
NotWoken == credRun.state # "active" => credEnv.mode = "running" \/ credEnv'.mode # "running"

\* The command writes to one stream; its client sends nothing, and may go away.
OneStream == xconn'.receiver # "writing" /\ xcmd'.cause \notin Controls /\ xout'[2].produced = 0

LiveNext ==
    /\ UNCHANGED service
    /\ \/ /\ service = "pool" /\ PoolNext
          /\ UNCHANGED <<attachVars, transcriptVars, egressVars, isoVars, credVars, procVars, execVars>>
       \/ /\ service \in {"terminal", "portal"}
          /\ OwnersNext \/ (service = "terminal" /\ TermNext) \/ (service = "portal" /\ PortalNext)
          /\ UNCHANGED <<poolVars, transcriptVars, egressVars, isoVars, credVars, procVars, execVars>>
       \/ /\ service = "transcript" /\ TranscriptsNext /\ storeRestarts' + faults' <= 1
          /\ UNCHANGED <<poolVars, attachVars, egressVars, isoVars, credVars, procVars, execVars>>
       \/ /\ service = "tunnels" /\ TunnelNext
          /\ UNCHANGED <<poolVars, attachVars, transcriptVars, proofVars, isoVars, credVars, procVars, execVars>>
       \/ /\ service = "isolation" /\ IsoNext
          /\ UNCHANGED <<poolVars, attachVars, transcriptVars, egressVars, credVars, procVars, execVars>>
       \/ /\ service = "credentials" /\ CredNext /\ NotWoken
          /\ UNCHANGED <<poolVars, attachVars, transcriptVars, egressVars, isoVars, procVars, execVars>>
       \/ /\ service = "processes" /\ ProcNext
          /\ UNCHANGED <<poolVars, attachVars, transcriptVars, egressVars, isoVars, credVars, execVars>>
       \/ /\ service = "exec" /\ ExecNext /\ OneStream
          /\ UNCHANGED <<poolVars, attachVars, transcriptVars, egressVars, isoVars, credVars, procVars>>

\* IsoFairness and CredFairness: controllers are never at rest, so these are asked only of
\* the one explored.
ControllersFair ==
    /\ WF_isoVars(service = "isolation" /\ IsoStep)
    /\ \A e \in Envs : WF_isoVars(service = "isolation" /\ EnvStep(e))
    /\ WF_credVars(service = "credentials" /\ CredRunStep)
    /\ WF_credVars(service = "credentials" /\ CredEnvFences)
    /\ WF_credVars(service = "credentials" /\ credEnv.pod.dying /\ PodEnds)
    /\ WF_credVars(service = "credentials" /\ envPass.pc # "idle" /\ CredEnvStep)
    /\ SF_credVars(service = "credentials" /\ CacheFollows)

LiveSpec ==
    /\ LiveInit
    /\ [][LiveNext]_<<service, poolVars, attachVars, transcriptVars, egressVars, isoVars, credVars,
                      procVars, execVars>>
    /\ PoolFairness /\ AttachFairness /\ TranscriptsFairness /\ TunnelFairness
    /\ ProcFairness /\ ExecFairness /\ ControllersFair

\* A caller that waits for the dial of another is released by it (acquire).
WaitersReleased == service = "pool" => AcquireEnds
\* Terminals and portals close once what they rest on is gone (terminal.go, portal.go).
AccessCloses == service \in {"terminal", "portal"} => AccessEnds
\* The deletion of a transcript completes (handleTranscriptDelete).
TranscriptCleaned == service = "transcript" => CleanupCompletes
\* Tunnels that are not current are cut off (runCurrentnessLoop).
TunnelsCutOff == service = "tunnels" => StaleTunnelsEnd
\* Once the selection stays, isolation settles (InstallationIsolationReconciler).
IsolationDone == service = "isolation" => IsolationSettles
\* The credential of a Run that ended is cleaned up (cleanupTerminal).
CredentialCleaned == service = "credentials" => CredEnds
\* Graceful stops and the daemon's Close end (Stop, Supervisor.Close).
ProcessesEnd == service = "processes" => ProcEnds
\* An exec call ends once its command has (Exec).
ExecReturns == service = "exec" => ExecEnds
=============================================================================
