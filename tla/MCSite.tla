------------------------------- MODULE MCSite -------------------------------
(***************************************************************************)
(* Small instances of the parts of a site that share no state with each    *)
(* other.  A behaviour is one of machine, which is chosen at the start; the *)
(* variables that a machine does not use keep their values.                *)
(***************************************************************************)
EXTENDS Mission

CONSTANTS
  Machines,      \* the parts explored
  DemoLogFails   \* DemoServer's LogFails

VARIABLES machine,
  v1, v2, v3, v4, v5, v6, v7, v8, v9, v10, v11, v12, v13, v14, v15, v16, v17

\* The static map is free everywhere at home, and at the dock with a panel.
FreeAt == [p \in {"home", "carry"} |->
             [x \in {"dock", "gate"} |-> p = "home" \/ x = "dock"]]

\* The mission that the other parts leave where it starts.
Unused ==
  /\ lacking = {} /\ profile = "home" /\ sent = "home"
  /\ steps = <<[kind |-> "navigate", pose |-> "dock"]>>

Demo == INSTANCE DemoServer WITH
  Clients <- 2, Cap <- 1, MaxOut <- 2, HelloTimeout <- 1, MaxGoals <- 1,
  MaxLost <- 1, LogFails <- DemoLogFails, pc <- v1, client <- v2, came <- v3,
  inbox <- v4, controls <- v5, out <- v6, lost <- v7, quiet <- v8,
  greeted <- v9, running <- v10, hasRun <- v11, age <- v12, goals <- v13,
  goal <- v14, active <- v15, records <- v16, frames <- v17

Footprints == INSTANCE DynamicFootprint WITH
  Modes <- {"dynamic", "wholebody"}, Joints <- {"lift"}, Reaches <- {1, 3},
  Base <- 1, Padding <- 1, Threshold <- 1, ZoneMargin <- 1, StaleAfter <- 1,
  MotionHold <- 1, PlanFresh <- 1, Settle <- 1, Judge <- 1,
  Costmaps <- {"global"}, Launch <- 3, MaxMoves <- 1, mode <- v1, arm <- v2,
  joints <- v3, motion <- v4, plan <- v5, current <- v6, slowdown <- v7,
  zone <- v8, costmap <- v9, still <- v10, published <- v11, seen <- v12,
  drift <- v13, moves <- v14

Telemetry == INSTANCE NavTelemetry WITH
  Paths <- {"p", "q"}, Goals <- {"g", "h"},
  Statuses <- {"executing", "succeeded"}, Deviations <- {1, 2},
  Stamps <- {1, 3}, Threshold <- 1, Window <- 1, EventCap <- 1, MaxDrops <- 1,
  path <- v1, goal <- v2, worst <- v3, worstOf <- v4, monitor <- v5,
  events <- v6, stamps <- v7, longGaps <- v8, shown <- v9, connected <- v10,
  drops <- v11

\* The instances are ones the nodes accept.
ASSUME SiteParameters == Demo!Parameters /\ Footprints!Parameters /\ Telemetry!Parameters

-----------------------------------------------------------------------------
slots == <<v1, v2, v3, v4, v5, v6, v7, v8, v9, v10, v11, v12, v13, v14, v15,
           v16, v17>>

MCInit ==
  /\ machine \in Machines
  /\ \/ machine = "mission" /\ Init
        /\ v1 = 0 /\ v2 = 0 /\ v3 = 0 /\ v4 = 0 /\ v5 = 0 /\ v6 = 0 /\ v7 = 0
        /\ v8 = 0 /\ v9 = 0 /\ v10 = 0 /\ v11 = 0 /\ v12 = 0 /\ v13 = 0
        /\ v14 = 0 /\ v15 = 0 /\ v16 = 0 /\ v17 = 0
     \/ machine = "demo" /\ Unused /\ Init /\ Demo!Init
     \/ machine = "footprint" /\ Unused /\ Init /\ Footprints!Init
        /\ v15 = 0 /\ v16 = 0 /\ v17 = 0
     \/ machine = "telemetry" /\ Unused /\ Init /\ Telemetry!Init
        /\ v12 = 0 /\ v13 = 0 /\ v14 = 0 /\ v15 = 0 /\ v16 = 0 /\ v17 = 0

MCNext ==
  \/ machine = "mission" /\ Next /\ UNCHANGED <<machine, slots>>
  \/ machine = "demo" /\ Demo!Next /\ UNCHANGED <<machine, vars>>
  \/ machine = "footprint" /\ Footprints!Next /\ UNCHANGED <<machine, vars, v15, v16, v17>>
  \/ machine = "telemetry" /\ Telemetry!Next
     /\ UNCHANGED <<machine, vars, v12, v13, v14, v15, v16, v17>>

MCVars == <<machine, vars, slots>>
MCSpec == MCInit /\ [][MCNext]_MCVars

demoVars == Demo!vars
footprintVars == Footprints!vars
telemetryVars == Telemetry!vars

\* The fairness of each part's FairSpec.
MCFair ==
  /\ MCSpec
  /\ WF_vars(machine = "mission" /\ Main)
  /\ WF_vars(machine = "mission" /\ Nav2)
  /\ WF_demoVars(machine = "demo" /\ Demo!iterate)
  /\ WF_demoVars(machine = "demo" /\ Demo!Tick)
  /\ WF_footprintVars(machine = "footprint" /\ Footprints!Tick)
  /\ SF_footprintVars(machine = "footprint" /\ Footprints!OnJoints({"lift"}))
  /\ SF_footprintVars(machine = "footprint" /\ Footprints!OnOdom(TRUE))
  /\ SF_footprintVars(machine = "footprint" /\ Footprints!OnPublishedFootprint("global"))
  /\ WF_telemetryVars(machine = "telemetry" /\ Telemetry!ResendPath)
  /\ WF_telemetryVars(machine = "telemetry" /\ Telemetry!Reconnect)

-----------------------------------------------------------------------------
\* Every variable of every part keeps its range.
TypesOK ==
  /\ TypeOK
  /\ machine = "demo" => Demo!TypeOK
  /\ machine = "footprint" => Footprints!TypeOK
  /\ machine = "telemetry" => Telemetry!TypeOK

\* Every mission ends (mission_scenario_task).
MissionsEnd == <>(machine = "mission" => Ended)

\* A client without a hello loses the slot and one that lost frames learns of it
\* (demo_server); a Unity that connects again shows the path, and a deviation is
\* shown with the goal it was measured in (nav_telemetry).
ClientsLearn ==
  /\ [](machine = "telemetry" => Telemetry!WorstOfItsGoal)
  /\ \A c \in 1..2 : /\ []<>(machine = "demo" => ~Demo!Silent(c))
                     /\ []<>(machine = "demo" => ~Demo!Owed(c))
  /\ \A p \in {"p", "q"} : []<>(machine = "telemetry" => ~Telemetry!Missing(p))

\* The plant moves for a client that is there, which gets that run's frames
\* only (demo_server).
DemoServesItsClient ==
  [](machine = "demo" => Demo!OwnFramesOnly /\ Demo!RecordPerGoal)
    /\ [][machine = "demo" => Demo!MovesForIt]_demoVars

\* The footprint covers the robot, it shrinks at rest only, and costmaps that
\* restarted get it again once nothing moves and the slowdown zone has settled
\* (dynamic_footprint_node).
FootprintsCover ==
  /\ [][machine = "footprint" => Footprints!Covers /\ Footprints!Shrinks]_footprintVars
  /\ /\ <>[](machine = "footprint" => Footprints!Undisturbed)
     /\ <>[][machine = "footprint" => UNCHANGED v7]_footprintVars
     => <>[](machine = "footprint" => Footprints!Repaired)

\* "A failed reset leaves the previous run whole" (session.cpp:97-98).
FailedResetsKeepRuns == [][machine = "demo" => Demo!ResetKeepsRun]_demoVars
=============================================================================
