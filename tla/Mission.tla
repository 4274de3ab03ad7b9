------------------------------- MODULE Mission -------------------------------
(***************************************************************************)
(* mission_scenario_task.cpp: the steps of a mission, each a drive         *)
(* (run_navigate) or a reconfiguration, one after the other, with the      *)
(* checks of mission.cpp before and between them.                          *)
(*                                                                         *)
(* Nav2, the reconfiguration server and the two costmaps are external. A   *)
(* footprint is the name of its profile: how a polygon is padded, posed    *)
(* and compared is left out.                                               *)
(***************************************************************************)
EXTENDS Naturals, Sequences

CONSTANTS
  Costmaps,  \* the costmaps whose footprint is watched
  Profiles,  \* the footprint profiles
  Poses,     \* where drives end
  Free,      \* Free[p][x]: the static map is free at x for profile p
  Start,     \* the mission's start pose
  MaxSteps,  \* the most steps of a mission
  Settle     \* the rest required before a reconfiguration, ticks

ASSUME MissionConstants ==
  /\ MaxSteps \in Nat \ {0}
  /\ Settle \in Nat
  /\ "nothing" \notin Profiles  \* the mark of a costmap that was not heard

VARIABLES
  steps,     \* parse_mission's result
  i,         \* the step that runs
  pc,        \* where main is
  profile,   \* the profile the mission believes active
  status,    \* the mission's status
  lacking,   \* the preflight checks that find a problem
  nav,       \* NavigateToPose: the drive's goal at Nav2
  arm,       \* ReconfigurePanel: the goal at the server
  asked,     \* the profile the last reconfiguration asked for
  moving,    \* the base moves
  still,     \* Stillness: ticks of rest since the last moving sample
  sent,      \* the footprint its owner published last
  fp,        \* per costmap: the footprint it holds
  used,      \* per costmap: the footprint its running cycle began with
  inflated,  \* per costmap: the footprint of its last whole cycle
  wire,      \* per costmap: published footprints that were not received yet
  latest,    \* FootprintWatch::latest_
  newer,     \* per costmap: received at or after FootprintRefresh::since_
  shown      \* FootprintRefresh::shown_

plan == <<steps, lacking>>
maps == <<fp, used, inflated, wire>>
watch == <<latest, newer, shown>>
vars == <<plan, i, pc, profile, status, nav, arm, asked, moving, still, sent, maps, watch>>

-----------------------------------------------------------------------------
\* parse_mission and mission_problems.
Step == [kind : {"navigate"}, pose : Poses] \cup [kind : {"reconfigure"}, to : Profiles]

\* The profile before step n, and the pose the robot is at then.
ProfileBefore(first, s, n) ==
  LET before == {k \in 1..n - 1 : s[k].kind = "reconfigure"}
  IN IF before = {} THEN first ELSE s[CHOOSE k \in before : \A j \in before : j <= k].to
PoseBefore(s, n) ==
  LET before == {k \in 1..n - 1 : s[k].kind = "navigate"}
  IN IF before = {} THEN Start ELSE s[CHOOSE k \in before : \A j \in before : j <= k].pose

\* The steps mission_problems has something to say about.
Problems(first, s) ==
  {n \in 1..Len(s) :
     IF s[n].kind = "navigate" THEN ~Free[ProfileBefore(first, s, n)][s[n].pose]
     ELSE \/ ~Free[ProfileBefore(first, s, n)][PoseBefore(s, n)]
          \/ ~Free[s[n].to][PoseBefore(s, n)]}

Missions == UNION {[1..n -> Step] : n \in 1..MaxSteps}

\* What the preflight looks at besides the footprints: map, odometry, TF and
\* costmap are there and the base stands at the start; /cmd_vel has one
\* publisher; both servers answer; every monitor zone follows its topic; the
\* footprint mode's owner publishes every footprint topic.
NavigationPreflight == lacking \cap {"robot", "cmd_vel", "navigate_to_pose"} = {}
MonitorZoneProblems == lacking \cap {"zones"}
OwnershipProblems == lacking \cap {"owner"}
Checks == {"robot", "cmd_vel", "navigate_to_pose", "reconfigure_panel", "zones", "owner"}

Init ==
  /\ lacking \in {{}} \cup {{c} : c \in Checks}
  /\ profile \in Profiles
  /\ steps \in {s \in Missions : Problems(profile, s) = {} /\ \E n \in 1..Len(s) : s[n].kind = "navigate"}
  /\ i = 1 /\ pc = "preflight" /\ status = "succeeded"
  /\ nav = "none" /\ arm = "none" /\ asked = profile
  /\ moving = FALSE /\ still = 0 /\ sent \in Profiles
  /\ fp = [c \in Costmaps |-> sent] /\ used = fp /\ inflated = fp
  /\ wire = [c \in Costmaps |-> <<>>]
  /\ latest = [c \in Costmaps |-> "nothing"] /\ newer = [c \in Costmaps |-> FALSE]
  /\ shown = FALSE

-----------------------------------------------------------------------------
\* A costmap (external) takes a footprint at any time, ends a cycle by
\* publishing the one it holds, and begins the next with it.
TakeFootprint(c) ==
  /\ fp[c] # sent /\ fp' = [fp EXCEPT ![c] = sent]
  /\ UNCHANGED <<plan, i, pc, profile, status, nav, arm, asked, moving, still, sent, used, inflated, wire, watch>>

EndCycle(c) ==
  /\ wire[c] = <<>>
  /\ inflated' = [inflated EXCEPT ![c] = used[c]] /\ used' = [used EXCEPT ![c] = fp[c]]
  /\ wire' = [wire EXCEPT ![c] = Append(@, fp[c])]
  /\ UNCHANGED <<plan, i, pc, profile, status, nav, arm, asked, moving, still, sent, fp, watch>>

\* FootprintWatch's subscription.
Receive(c) ==
  /\ wire[c] # <<>>
  /\ latest' = [latest EXCEPT ![c] = Head(wire[c])] /\ newer' = [newer EXCEPT ![c] = TRUE]
  /\ wire' = [wire EXCEPT ![c] = Tail(@)]
  /\ UNCHANGED <<plan, i, pc, profile, status, nav, arm, asked, moving, still, sent, fp, used, inflated, shown>>

\* footprints_applied: every costmap shows p in a message that counts.
Applied(p) == \A c \in Costmaps : latest[c] = p /\ newer[c]

-----------------------------------------------------------------------------
Finish(how) == pc' = "ended" /\ status' = how /\ UNCHANGED i
NextStep ==
  IF i = Len(steps) THEN Finish("succeeded")
  ELSE i' = i + 1 /\ pc' = "begin" /\ UNCHANGED status

\* The preflight: the robot, the servers, the publishers and the monitor's
\* zones are as they must be (or one is not), and the start profile shows.
Preflight ==
  /\ pc = "preflight"
  /\ \/ /\ NavigationPreflight /\ "reconfigure_panel" \notin lacking
        /\ MonitorZoneProblems = {} /\ OwnershipProblems = {} /\ Applied(profile)
        /\ pc' = "begin" /\ UNCHANGED <<i, status>>
     \/ Finish("preflight_failed")
  /\ UNCHANGED <<plan, profile, nav, arm, asked, moving, still, sent, maps, watch>>

Begin ==
  /\ pc = "begin"
  /\ pc' = IF steps[i].kind = "navigate" THEN "send" ELSE "settle"
  /\ still' = 0
  /\ UNCHANGED <<plan, i, profile, status, nav, arm, asked, moving, sent, maps, watch>>

\* run_navigate: it waits for the goal's answer without a deadline.
SendDrive ==
  /\ pc = "send"
  /\ nav' = "sent" /\ pc' = "answer"
  /\ UNCHANGED <<plan, i, profile, status, arm, asked, moving, still, sent, maps, watch>>

DriveAnswered ==
  /\ pc = "answer" /\ nav # "sent"
  /\ IF nav = "rejected" THEN Finish("failed") ELSE pc' = "drive" /\ UNCHANGED <<i, status>>
  /\ UNCHANGED <<plan, profile, nav, arm, asked, moving, still, sent, maps, watch>>

\* The scenario's timeout, in simulation time; the cancel is waited for 10 s.
DriveTimesOut ==
  /\ pc = "drive" /\ nav = "running"
  /\ pc' = "canceling"
  /\ UNCHANGED <<plan, i, profile, status, nav, arm, asked, moving, still, sent, maps, watch>>

\* drive_status: Nav2's, unless the base ended off the goal.
DriveStatuses == IF nav = "succeeded" THEN {"succeeded", "off_goal"} ELSE {nav}
DriveEnds ==
  /\ pc \in {"drive", "canceling"}
  /\ \/ /\ nav \in {"succeeded", "failed"}
        /\ \E s \in DriveStatuses : IF s = "succeeded" THEN NextStep ELSE Finish("failed")
     \/ pc = "canceling" /\ nav = "running" /\ Finish("failed")
  /\ UNCHANGED <<plan, profile, nav, arm, asked, moving, still, sent, maps, watch>>

\* Mutant: rest is waited for without a deadline.
SendReconfigureAtRest(late) ==
  /\ pc = "settle" /\ ~late /\ still >= Settle
  /\ arm' = "sent" /\ asked' = steps[i].to /\ pc' = "reconfigure"
  /\ UNCHANGED <<plan, i, profile, status, nav, moving, still, sent, maps, watch>>

\* Rest before a reconfiguration, or 15 s, then the goal: a response within
\* 10 s and a result within 120 s, or the mission fails.
SendReconfigure(late) ==
  /\ pc = "settle" /\ (late \/ still >= Settle)
  /\ arm' = "sent" /\ asked' = steps[i].to /\ pc' = "reconfigure"
  /\ UNCHANGED <<plan, i, profile, status, nav, moving, still, sent, maps, watch>>

ReconfigureEnds ==
  /\ pc = "reconfigure"
  /\ IF arm = "succeeded"
     THEN /\ pc' = "refresh" /\ profile' = steps[i].to
          /\ newer' = [c \in Costmaps |-> FALSE] /\ shown' = FALSE
          /\ UNCHANGED <<i, status, latest>>
     ELSE Finish("failed") /\ UNCHANGED <<profile, watch>>
  /\ UNCHANGED <<plan, nav, arm, asked, moving, still, sent, maps>>

\* FootprintRefresh::observe: shown once, then shown again by messages that
\* were all received since.
Refreshed == shown
\* Mutant: messages of before the first match count again.
ShownCountingOld == shown' = TRUE /\ UNCHANGED newer
ShownFirst == shown' = TRUE /\ newer' = [c \in Costmaps |-> FALSE]
Observe ==
  /\ pc = "refresh" /\ Applied(profile)
  /\ IF Refreshed THEN NextStep /\ UNCHANGED <<newer, shown>>
     ELSE ShownFirst /\ UNCHANGED <<i, pc, status>>
  /\ UNCHANGED <<plan, profile, nav, arm, asked, moving, still, sent, maps, latest>>

RefreshTimesOut ==
  /\ pc = "refresh" /\ Finish("failed")
  /\ UNCHANGED <<plan, profile, nav, arm, asked, moving, still, sent, maps, watch>>

-----------------------------------------------------------------------------
\* Nav2 (external): it answers, drives, and may end after the mission gave up.
Nav2 ==
  /\ \/ nav = "sent" /\ nav' = "rejected" /\ UNCHANGED moving
     \/ nav = "sent" /\ nav' = "running" /\ moving' = TRUE
     \/ nav = "running" /\ nav' \in {"succeeded", "failed"} /\ UNCHANGED moving
  /\ UNCHANGED <<plan, i, pc, profile, status, arm, asked, still, sent, maps, watch>>

\* The base comes to rest after the drive, not with it.
ComeToRest ==
  /\ moving /\ nav # "running" /\ moving' = FALSE
  /\ UNCHANGED <<plan, i, pc, profile, status, nav, arm, asked, still, sent, maps, watch>>

\* Stillness::add and still_for, an /odom sample per tick.
Odometry ==
  /\ pc = "settle" /\ still < Settle
  /\ still' = IF moving THEN 0 ELSE still + 1
  /\ moving => still # 0
  /\ UNCHANGED <<plan, i, pc, profile, status, nav, arm, asked, moving, sent, maps, watch>>

\* The reconfiguration server (external here, module ReconfigureServer): it
\* publishes the footprint it was asked for before it reports a success.
Reconfigures ==
  /\ \/ arm = "sent" /\ arm' = "running" /\ UNCHANGED sent
     \/ arm \in {"sent", "running"} /\ arm' = "failed" /\ UNCHANGED sent
     \/ arm = "running" /\ sent # asked /\ sent' = asked /\ UNCHANGED arm
     \/ arm = "running" /\ sent = asked /\ arm' = "succeeded" /\ UNCHANGED sent
  /\ UNCHANGED <<plan, i, pc, profile, status, nav, asked, moving, still, maps, watch>>

-----------------------------------------------------------------------------
Main ==
  \/ Preflight \/ Begin \/ SendDrive \/ DriveAnswered \/ DriveTimesOut \/ DriveEnds
  \/ \E late \in BOOLEAN : SendReconfigure(late)
  \/ ReconfigureEnds \/ Observe \/ RefreshTimesOut

Next ==
  \/ Main
  \/ \E c \in Costmaps : TakeFootprint(c) \/ EndCycle(c) \/ Receive(c)
  \/ Nav2 \/ ComeToRest \/ Odometry \/ Reconfigures

Spec == Init /\ [][Next]_vars

\* Deadlines make main move on wherever it waits, except for Nav2's answer.
FairSpec == Spec /\ WF_vars(Main) /\ WF_vars(Nav2)

-----------------------------------------------------------------------------
\* Every variable keeps its range.
TypeOK ==
  /\ i \in 1..Len(steps) /\ profile \in Profiles /\ asked \in Profiles /\ sent \in Profiles
  /\ pc \in {"preflight", "begin", "send", "answer", "drive", "canceling", "settle",
             "reconfigure", "refresh", "ended"}
  /\ status \in {"succeeded", "failed", "preflight_failed"}
  /\ nav \in {"none", "sent", "rejected", "running", "succeeded", "failed"}
  /\ arm \in {"none", "sent", "running", "succeeded", "failed"}
  /\ moving \in BOOLEAN /\ still \in 0..Settle /\ shown \in BOOLEAN
  /\ {fp, used, inflated} \subseteq [Costmaps -> Profiles]
  /\ wire \in [Costmaps -> Seq(Profiles)]
  /\ latest \in [Costmaps -> Profiles \cup {"nothing"}] /\ newer \in [Costmaps -> BOOLEAN]

\* One motion at a time: Nav2 drives no goal of the mission while the server
\* still has one, whatever timed out, was refused or was answered late.
OneMotionAtATime == ~(nav \in {"sent", "running"} /\ arm \in {"sent", "running"})

\* A drive starts on costmaps whose last cycle ran wholly on the footprint of
\* the profile the mission checks the drive with ("a second matching message,
\* received after the first had arrived on every topic", mission.hpp).
DriveOnFreshInflation ==
  pc = "send" /\ (\E n \in 1..i - 1 : steps[n].kind = "reconfigure") =>
    \A c \in Costmaps : inflated[c] = profile

\* The profile a drive runs with is the one mission_problems checked its end
\* pose for.
DrivesAsChecked ==
  pc \in {"send", "answer", "drive", "canceling"} => Free[profile][steps[i].pose]

\* No motion of a mission overlaps another, on a footprint of the step before
\* or into a pose that was not checked.
MissionDrivesAsPlanned == OneMotionAtATime /\ DriveOnFreshInflation /\ DrivesAsChecked

\* Every mission ends: each wait has a deadline, or waits for Nav2's answer.
Ended == pc = "ended"
MissionEnds == <>Ended
=============================================================================
