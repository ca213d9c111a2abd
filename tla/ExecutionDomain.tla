--------------------------- MODULE ExecutionDomain ---------------------------
(***************************************************************************)
(* What the Environment lifecycle promises to everything that runs in an   *)
(* Environment or connects to it: executions never overlap and never share *)
(* a generation; a connection is published only to the latest execution,   *)
(* only while the Environment is not suspended; and suspension ends only   *)
(* once the execution and its connection are gone.                         *)
(*                                                                         *)
(* EnvironmentLifecycle implements it (ImplementsDomain there).            *)
(***************************************************************************)
EXTENDS Naturals

CONSTANT Gens  \* execution generations

VARIABLES
    live,   \* an execution exists
    gen,    \* the latest execution started; 0: none yet
    conn,   \* the execution the published connection reaches; 0: none
    susp    \* the Environment is suspended

domain == <<live, gen, conn, susp>>

Init == live = FALSE /\ gen = 0 /\ conn = 0 /\ susp = FALSE

\* A new execution starts on the retained workspace.
Start ==
    /\ ~live /\ ~susp /\ conn = 0
    /\ live' = TRUE
    /\ gen' \in Gens /\ gen' > gen
    /\ UNCHANGED <<conn, susp>>

\* An execution ends, asked to or not.  Its connection may outlive it.
Stop == live /\ live' = FALSE /\ UNCHANGED <<gen, conn, susp>>

Publish ==
    /\ ~susp /\ gen # 0
    /\ conn' = gen
    /\ UNCHANGED <<live, gen, susp>>

Withdraw == conn' = 0 /\ UNCHANGED <<live, gen, susp>>

Suspend == ~susp /\ susp' = TRUE /\ UNCHANGED <<live, gen, conn>>

\* The end of a suspension: nothing of the old execution is left to reuse.
Release == susp /\ ~live /\ conn = 0 /\ susp' = FALSE /\ UNCHANGED <<live, gen, conn>>

Next == Start \/ Stop \/ Publish \/ Withdraw \/ Suspend \/ Release

Spec == Init /\ [][Next]_domain
=============================================================================
