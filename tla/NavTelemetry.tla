--------------------------- MODULE NavTelemetry ---------------------------
(***************************************************************************)
(* nav_telemetry_node.cpp with its helpers in telemetry.hpp: the callbacks *)
(* that gather what navigation does, the event log and the lidar's gaps,   *)
(* the telemetry message, and the path, sent when it changes and again by  *)
(* a timer for a Unity that has connected since.  The statuses, feedbacks  *)
(* and plans of Nav2 arrive on topics of their own, in any order.          *)
(***************************************************************************)
EXTENDS Integers, Sequences

CONSTANTS
  Paths, Goals,      \* /plan messages, goal ids
  Statuses,          \* of the latest goal of a status message
  Deviations,        \* distance of the base from the path
  Stamps, Threshold, \* lidar stamps, gap threshold
  Window, EventCap,  \* of the gap counter and the event log
  MaxDrops           \* bound on the times Unity disconnects

VARIABLES
  path,              \* path_ and last_path_, <<>> before the first
  goal,              \* goal_id_, goal_
  worst, worstOf,    \* cross_track_max_ and the goals it was measured on
  monitor, events, stamps, longGaps,
  shown,             \* the path Unity shows
  connected, drops

vars == <<path, goal, worst, worstOf, monitor, events, stamps, longGaps, shown, connected, drops>>
unity == <<connected, drops>>

\* The bounds of the event log and of the gap counter, and its threshold; a
\* deviation is a distance.
Parameters ==
  /\ EventCap \in Nat \ {0} /\ Window \in Nat \ {0} /\ Threshold \in Nat \ {0}
  /\ Deviations \subseteq Nat /\ MaxDrops \in Nat

-----------------------------------------------------------------------------
NoGoal == [id |-> <<>>, status |-> "idle", recoveries |-> 0]

Init ==
  /\ path = <<>> /\ goal = NoGoal /\ worst = 0 /\ worstOf = {}
  /\ monitor = "none" /\ events = <<>> /\ stamps = <<>> /\ longGaps = 0
  /\ shown = <<>> /\ connected = TRUE /\ drops = 0

\* Mutant: one entry too many is kept.
BoundedLate(s, x, cap) == Append(IF Len(s) > cap THEN Tail(s) ELSE s, x)

\* EventLog::add and GapCounter::add: the oldest goes when they are full.
Bounded(s, x, cap) == Append(IF Len(s) = cap THEN Tail(s) ELSE s, x)
Told(happened) == events' = happened
Logged(log, text) == Bounded(log, text, EventCap)
LoggedIf(condition, log, text) == IF condition THEN Logged(log, text) ELSE log

\* The path as far as Unity gets it.
SendPath(p) == shown' = IF connected THEN p ELSE shown

OnPlan(p) ==
  /\ <<p>> # path
  /\ path' = <<p>> /\ SendPath(<<p>>) /\ Told(Logged(events, "new plan"))
  /\ UNCHANGED <<goal, worst, worstOf, monitor, stamps, longGaps, unity>>

\* The latest goal of the list; a goal not seen before starts its own record.
OnStatus(id, status) ==
  LET new == goal.id # <<id>>
      known == IF new THEN [id |-> <<id>>, status |-> status, recoveries |-> 0] ELSE goal
  IN /\ goal' = [known EXCEPT !.status = status]
     /\ worst' = IF new THEN 0 ELSE worst
     /\ worstOf' = IF new THEN {} ELSE worstOf
     /\ Told(LoggedIf(known.status # status, LoggedIf(new, events, "goal received"), status))
     /\ UNCHANGED <<path, monitor, stamps, longGaps, shown, unity>>

OnFeedback(recoveries) ==
  /\ goal' = [goal EXCEPT !.recoveries = recoveries]
  /\ Told(LoggedIf(recoveries > goal.recoveries, events, "recovery"))
  /\ UNCHANGED <<path, worst, worstOf, monitor, stamps, longGaps, shown, unity>>

OnMonitor(action) ==
  /\ monitor' = action
  /\ Told(LoggedIf(action # monitor /\ action # "none", events, action))
  /\ UNCHANGED <<path, goal, worst, worstOf, stamps, longGaps, shown, unity>>

OnLidar(stamp) ==
  LET long == stamps # <<>> /\ stamp > stamps[Len(stamps)] + Threshold
  IN /\ stamps' = Bounded(stamps, stamp, Window)
     /\ longGaps' = IF long THEN longGaps + 1 ELSE longGaps
     /\ Told(LoggedIf(long, events, "lidar gap"))
     /\ UNCHANGED <<path, goal, worst, worstOf, monitor, shown, unity>>

\* The telemetry message: the deviation counts while the goal is executed.
Publish(deviation) ==
  /\ path # <<>> /\ goal.status = "executing" /\ deviation > worst
  /\ worst' = deviation /\ worstOf' = worstOf \cup {goal.id}
  /\ UNCHANGED <<path, goal, monitor, events, stamps, longGaps, shown, unity>>

\* The current path every 5 s, for whoever has connected since.
ResendPath ==
  /\ path # <<>>
  /\ SendPath(path)
  /\ UNCHANGED <<path, goal, worst, worstOf, monitor, events, stamps, longGaps, unity>>

\* Unity forgets what it showed when its connection is lost.
Disconnect ==
  /\ connected /\ drops < MaxDrops
  /\ connected' = FALSE /\ shown' = <<>> /\ drops' = drops + 1
  /\ UNCHANGED <<path, goal, worst, worstOf, monitor, events, stamps, longGaps>>

Reconnect ==
  /\ ~connected
  /\ connected' = TRUE
  /\ UNCHANGED <<path, goal, worst, worstOf, monitor, events, stamps, longGaps, shown, drops>>

Next ==
  \/ \E p \in Paths : OnPlan(p)
  \/ \E id \in Goals, status \in Statuses : OnStatus(id, status)
  \/ \E recoveries \in 0..1 : OnFeedback(recoveries)
  \/ \E action \in {"none", "stop"} : OnMonitor(action)
  \/ longGaps < 2 /\ \E stamp \in Stamps : OnLidar(stamp)
  \/ \E deviation \in Deviations : Publish(deviation)
  \/ ResendPath \/ Disconnect \/ Reconnect

\* The executor runs the timer again and again; Unity reconnects by itself.
FairSpec == Init /\ [][Next]_vars /\ WF_vars(ResendPath) /\ WF_vars(Reconnect)

-----------------------------------------------------------------------------
TypeOK ==
  /\ Len(events) <= EventCap /\ Len(stamps) <= Window
  /\ goal.recoveries \in Nat /\ worst \in Nat /\ longGaps \in 0..2
  /\ connected \in BOOLEAN /\ drops \in 0..MaxDrops

\* The largest deviation shown beside a goal was measured while that goal was
\* executed, never while an earlier one was.
WorstOfItsGoal == worstOf \subseteq {goal.id} /\ (worstOf = {} => worst = 0)

\* A Unity that reconnected shows the current path in the end, although the
\* endpoint subscribes without the latched history.
Missing(p) == path = <<p>> /\ shown # <<p>>
PathShown == \A p \in Paths : []<>~Missing(p)
=============================================================================
