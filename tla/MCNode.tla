------------------------------- MODULE MCNode -------------------------------
(***************************************************************************)
(* The services of sandboxd on small instances.  They share nothing but    *)
(* the Supervisor, which each module holds its part of, so one behaviour   *)
(* explores one of them: `service' names it.                               *)
(***************************************************************************)
EXTENDS ProcessManager, ExecStream, WorkspaceFiles

VARIABLE service

TwoRevisions == {<<1, 1>>, <<2, 0>>}
SomeLists == {<<>>, <<"a">>, <<"a", Staging>>, <<"a", "b", Staging>>, <<Staging, "a", "b", "c">>}

NodeInit ==
    /\ service \in {"processes", "exec", "files", "walk"}
    /\ ProcInit /\ ExecInit /\ FileInit
    /\ service # "exec" => ~xcmd.timed
    /\ service # "files" => dest = "absent"
    /\ service # "walk" => walk.dir = <<>> /\ walk.page = 1

NodeNext ==
    /\ UNCHANGED service
    /\ \/ service = "processes" /\ ProcNext /\ UNCHANGED <<execVars, fileVars>>
       \/ service = "exec" /\ ExecNext /\ UNCHANGED <<procVars, fileVars>>
       \/ service = "files" /\ WriteNext /\ UNCHANGED <<procVars, execVars>>
       \/ service = "walk" /\ WalkNext /\ UNCHANGED <<procVars, execVars>>
NodeSpec == NodeInit /\ [][NodeNext]_<<service, procVars, execVars, fileVars>>
=============================================================================
