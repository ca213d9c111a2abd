--------------------------- MODULE MCRunScenarios ---------------------------
EXTENDS RunLifecycle

\* Faults and user intents in two scenarios, because their product is too large: what goes
\* wrong, without holds and idle suspensions; and what is asked for, without those faults.
VARIABLE scenario

Unasked == env'.rev = 0 /\ env'.reason # "Idle" /\ \A r \in Runs : ~run'[r].cancel

Faultless ==
    /\ env'.exists /\ env'.phase # "Failed"
    /\ env.conn # 0 /\ env'.conn = 0 /\ ~env'.susp => ~live
    /\ live /\ ~live' => env.susp /\ env.conn = 0
    /\ \A r \in Runs : result'[r] \notin {"Rejected", "Refused"} /\ ~run'[r].deleting /\ run'[r].exists

ScenarioNext ==
    /\ UNCHANGED scenario
    /\ Next
    /\ scenario = "faults" => Unasked
    /\ scenario = "intents" => Faultless
ScenarioInit ==
    /\ Init /\ scenario \in {"faults", "intents"}
    /\ scenario = "intents" => env.own = "Claimed"
ScenarioSpec == ScenarioInit /\ [][ScenarioNext]_<<vars, scenario>>

\* Liveness: an Environment that keeps failing is left out, since it may outlast any Run.
SteadyInit == Init /\ scenario = "intents"
SteadyNext == Next /\ env'.phase # "Failed" /\ UNCHANGED scenario
SteadySpec == SteadyInit /\ [][SteadyNext]_<<vars, scenario>> /\ Fairness
=============================================================================
