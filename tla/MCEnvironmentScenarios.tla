----------------------- MODULE MCEnvironmentScenarios -----------------------
EXTENDS EnvironmentLifecycle

\* Faults and user intents in two scenarios, because their product is too large: API
\* errors, crashes and lost Pods without holds; and holds with crashes alone.
VARIABLE scenario

PodsLast ==
    /\ pod'.run = "Terminal" => pod.run = "Terminal"
    /\ pod' = NoPod => pod.deleting \/ pod = NoPod
    /\ pc = "recheck" /\ CreationAuthorized => pc' # "idle"

ScenarioNext ==
    /\ UNCHANGED scenario
    /\ \/ scenario = "faults" /\ Next /\ revision' = 0
       \/ scenario = "intents" /\ (Publisher \/ Cluster \/ Reconcile \/ Crash) /\ PodsLast
ScenarioInit == Init /\ scenario \in {"faults", "intents"}
ScenarioSpec == ScenarioInit /\ [][ScenarioNext]_<<vars, scenario>>

\* Liveness in two scenarios of their own: sources that change and Pods stuck pulling, with
\* holds alone; and every intent with sound sources and Pods.
LiveNext ==
    /\ Next /\ UNCHANGED scenario
    /\ scenario = "sources" => wake' = NoWake /\ suspend' = suspend
    /\ scenario = "intents" => config' = "ok" /\ pod'.run # "Stuck"
LiveInit == Init /\ scenario \in {"sources", "intents"}
LiveScenarios == LiveInit /\ [][LiveNext]_<<vars, scenario>> /\ Fairness

\* With sound sources, what was asked of an Environment is carried out: a hold that stays
\* pauses it, an accepted suspend request is acknowledged, a wake is consumed.
SoundIntents == scenario = "intents" => IntentsCarriedOut
=============================================================================
