----------------------------- MODULE MCOperator -----------------------------
(***************************************************************************)
(* The operator's other controllers, the egress proxy and the onboarding   *)
(* commands on small instances.  They hold no state in common, so one      *)
(* behaviour explores one of them: `service' names it.  Some are explored  *)
(* twice, where the product of what can happen is too large.               *)
(***************************************************************************)
EXTENDS EgressTunnels, WarmPool, InstallationIsolation, ProjectTenancy, RepositoryCredentials

VARIABLE service

OperatorInit ==
    /\ service \in {"proof", "tunnels", "templates", "failures", "isolation", "jobs", "workers",
                    "credentials"}
    /\ EgressInit /\ WarmInit /\ IsoInit /\ TenancyInit /\ CredInit
    /\ service # "isolation" => install.sel = "none"

\* Three of the five sources of an egress proof change.
ThreeSources == Cardinality({x \in Sources : sources'[x].rv > 1}) <= 3

\* The names of a pool's members are interchangeable, so a new one takes the first.  And
\* members only go stale, and there is one until the Template is edited; or they only fail.
FirstFreeName ==
    \A e \in Members : member[e] = Absent /\ member'[e] # Absent =>
        e = CHOOSE f \in Members : member[f] = Absent
NoFailures == \A e \in Members : member'[e].fit # "unusable"
OneBeforeEdit == Gen = 1 => Cardinality({e \in Members : member'[e] # Absent}) <= 1

\* Rotation to a second token without faults, or within one execution with one; and one
\* token with every fault in every execution.
FewFaults ==
    \/ credFaults' = 0 \/ tok'[2] = "none"
    \/ credFaults' = 1 /\ credEnv'.exec <= 1

OperatorNext ==
    /\ UNCHANGED service
    /\ \/ /\ service = "proof" /\ ProofNext /\ ThreeSources
          /\ UNCHANGED <<tunnelVars, warmVars, isoVars, tenancyVars, credVars>>
       \/ /\ service = "tunnels" /\ TunnelNext
          /\ UNCHANGED <<proofVars, warmVars, isoVars, tenancyVars, credVars>>
       \/ /\ service = "templates" /\ WarmNext /\ FirstFreeName /\ NoFailures /\ OneBeforeEdit
          /\ UNCHANGED <<egressVars, isoVars, tenancyVars, credVars>>
       \/ /\ service = "failures" /\ WarmNext /\ FirstFreeName /\ templates' = templates
          /\ UNCHANGED <<egressVars, isoVars, tenancyVars, credVars>>
       \/ /\ service = "isolation" /\ IsoNext
          /\ UNCHANGED <<egressVars, warmVars, tenancyVars, credVars>>
       \/ /\ service = "jobs" /\ TenancyNext /\ UNCHANGED tenancyWorker
          /\ UNCHANGED <<egressVars, warmVars, isoVars, credVars>>
       \/ /\ service = "workers" /\ TenancyNext /\ UNCHANGED job /\ projects' <= 1
          /\ UNCHANGED <<egressVars, warmVars, isoVars, credVars>>
       \/ /\ service = "credentials" /\ CredNext /\ FewFaults
          /\ UNCHANGED <<egressVars, warmVars, isoVars, tenancyVars>>

OperatorSpec ==
    OperatorInit /\ [][OperatorNext]_<<service, egressVars, warmVars, isoVars, tenancyVars, credVars>>
=============================================================================
