---------------------------- MODULE BlockedBase ----------------------------
(***************************************************************************)
(* The base commands of the whole-body node on their way through the       *)
(* collision monitor, which passes, scales or stops them late: the         *)
(* executed command the node continues from (executed_command.cpp) and the *)
(* detector of a blocked base (blocked_detector.cpp), both called from     *)
(* run_cycle.  Times are in periods of the cycle; of the goals, only new   *)
(* starts and the ends that leave a ramp are here, the rest is in          *)
(* WholeBodyMpcNode.  The base turns like it drives: one component stands  *)
(* for both.                                                               *)
(***************************************************************************)
EXTENDS Integers, Sequences, FiniteSetsExt

CONSTANTS
  ExecutedFeedback,             \* parameter executed_feedback
  Kept, Stale,                  \* kSentKept, kExecutedStaleS
  Own,                          \* BlockedConfig::own_v, the breakaway
  Detect, Fail, Clear, ProgressM, Gap,  \* the rest of BlockedConfig, kCommandGapS
  VMax, Accel, Decel,           \* speeds: the most a cycle gains, what a period of braking takes
  Lag,                          \* bound: commands on their way through the monitor
  MaxTime                       \* bound: how long the runs are

Never == -1  \* NaN, or minus infinity

VARIABLES
  now,      \* the steady clock
  sent,     \* the last Kept commands sent, oldest first
  told,     \* ExecutedCommand::executed_ and executed_at_
  inbox,    \* commands the monitor has not handled yet
  posted,   \* whether the monitor's latest state is STOP
  stop,     \* monitor_stop_, the state the node has received
  rolled,   \* whether the base moved since the last cycle
  det,      \* BlockedDetector; gone is the distance from its anchor
  driving,  \* whether a goal is active
  scaled,   \* whether the monitor ever changed or lost a command
  steady,   \* commands sent since the executed command last changed, up to Kept
  seen      \* what an observer of the base and of the commands saw

vars == <<now, sent, told, inbox, posted, stop, rolled, det, driving, scaled, steady, seen>>

\* load_mpc_config refuses a blocked value that is not positive; of the commands
\* sent, at least the last is kept.
Parameters ==
  /\ {Detect, Fail, Clear, ProgressM, Kept} \subseteq Nat \ {0}
  /\ {Own, Gap, VMax, Decel} \subseteq Nat
  /\ ExecutedFeedback \in BOOLEAN

-----------------------------------------------------------------------------
Last == IF sent = <<>> THEN 0 ELSE sent[Len(sent)]

\* send_base and ExecutedCommand::on_sent.
SendBase(v) ==
  /\ sent' = IF Len(sent) < Kept THEN Append(sent, v) ELSE Append(Tail(sent), v)
  /\ inbox' = Append(inbox, v)
  /\ steady' = Min({Kept, steady + 1})

Fresh(t) == told.at # Never /\ t - told.at <= Stale
\* ExecutedCommand::executed.
Executed(t) == IF Fresh(t) THEN told.v ELSE 0

\* ExecutedCommand::previous, or the controller's own command.
Previous(t) ==
  IF ~ExecutedFeedback \/ (Fresh(t) /\ \E i \in DOMAIN sent : sent[i] = told.v)
    THEN Last ELSE Executed(t)

-----------------------------------------------------------------------------
\* BlockedDetector::restart.
Restarted ==
  [state |-> "Clear", since |-> Never, freeSince |-> Never, last |-> Never,
   askedAt |-> Never, blocked |-> 0, gone |-> Never]

\* The anchor, which the base leaves after ProgressM.
Anchored(d, moved) ==
  IF d.gone = Never \/ d.gone + moved >= ProgressM
    THEN [d EXCEPT !.gone = 0, !.blocked = IF d.state = "Failed" THEN @ ELSE 0]
    ELSE [d EXCEPT !.gone = @ + moved]

FailIfLong(d) == IF d.blocked >= Fail THEN [d EXCEPT !.state = "Failed"] ELSE d

\* A blocked base: its time runs, and it is free when the monitor has not
\* reported STOP for a while.
Holding(d, t, stopping) ==
  LET counted == FailIfLong([d EXCEPT !.blocked = @ + (t - d.last)])
      freed == [counted EXCEPT !.freeSince = IF stopping THEN Never ELSE IF @ = Never THEN t ELSE @]
  IN  IF counted.state = "Failed" THEN counted
      ELSE IF freed.freeSince # Never /\ t - freed.freeSince >= Clear
        THEN [freed EXCEPT !.state = "Clear", !.since = Never, !.freeSince = Never]
        ELSE freed

\* A base that is not blocked: commanded, with no pause longer than Gap, and
\* standing.
Watching(d, t, own, executed, rest) ==
  LET asked == [d EXCEPT !.askedAt = IF own >= Own THEN t ELSE @]
      commanding == asked.askedAt # Never /\ t - asked.askedAt <= Gap
      from == IF asked.since = Never THEN t ELSE asked.since
      window == [asked EXCEPT !.since = from]
  IN  IF ~(commanding /\ rest /\ executed < Own) THEN [asked EXCEPT !.since = Never]
      ELSE IF t - from < Detect THEN window
      ELSE FailIfLong([window EXCEPT !.state = "Blocked", !.freeSince = Never,
                                     !.blocked = @ + (t - from)])

\* BlockedDetector::update.
Updated(d, t, own, executed, stopping, moved, rest) ==
  LET timed == [d EXCEPT !.last = IF @ = Never THEN t ELSE @]
      a == Anchored(timed, moved)
      u == IF a.state = "Failed" THEN a
           ELSE IF a.state = "Blocked" THEN Holding(a, t, stopping)
           ELSE Watching(a, t, own, executed, rest)
  IN  [u EXCEPT !.last = t]

-----------------------------------------------------------------------------
\* What the observer notes at a cycle: since when the base has stood at every
\* cycle, has been asked to move without a long pause, and has made no progress:
\* the last it made is from after the previous cycle or, when it stood at that
\* cycle as at this one, from after it began to stand.
Seen(starting, t, moved, own, executed, rest) ==
  LET idle == IF ~rest \/ executed >= Own THEN Never
              ELSE IF starting \/ seen.idleSince = Never THEN t ELSE seen.idleSince
      gone == seen.gone + moved
  IN  [gone |-> IF starting \/ gone >= ProgressM THEN 0 ELSE gone,
       anchoredAt |-> IF ~starting /\ gone < ProgressM THEN seen.anchoredAt
                      ELSE IF starting THEN t
                      ELSE IF Never \in {idle, seen.idleSince} THEN det.last ELSE idle,
       idleSince |-> idle,
       askedAt |-> IF own >= Own THEN t ELSE IF starting THEN Never ELSE seen.askedAt,
       askedSince |-> IF own < Own /\ (starting \/ t - seen.askedAt > Gap) THEN Never
                      ELSE IF starting \/ seen.askedSince = Never THEN t ELSE seen.askedSince]

Init ==
  /\ now = 0 /\ sent = <<>> /\ inbox = <<>>
  /\ told = [v |-> 0, at |-> Never]
  /\ posted = FALSE /\ stop = FALSE /\ rolled = FALSE
  /\ det = Restarted /\ driving = FALSE /\ scaled = FALSE /\ steady = 0
  /\ seen = [gone |-> 0, anchoredAt |-> 0, idleSince |-> Never, askedAt |-> Never, askedSince |-> Never]

Rolling(t) == told.v >= Own /\ Fresh(t)

\* The commands the controller may send: held, it brakes; else the rate limits
\* around the previous command, and what does not start the base is not sent.
Sendable(held, previous, d) ==
  {v \in 0 .. VMax :
     /\ v = 0 \/ v >= Own
     /\ IF held THEN v = Max({0, previous - Decel * d})
        ELSE v <= Max({Own, previous + Accel}) /\ v >= previous - Decel * d}

\* run_cycle with a goal, starting one or not, after d periods.  A base that
\* was told to move may be found at rest or moving.
Cycle(starting, d, moved, rest) ==
  LET t == now + d
      own == Last
      before == IF starting THEN Restarted ELSE det
      after == Updated(before, t, own, Executed(t), stop, moved, rest)
  IN  /\ now + d <= MaxTime /\ (driving \/ starting) /\ ~(driving /\ starting)
      /\ Len(inbox) < Lag
      /\ moved > 0 => rolled
      /\ ~rolled => rest
      /\ now' = t /\ det' = after
      /\ rolled' = (~rest \/ Rolling(t))
      /\ seen' = Seen(starting, t, moved, own, Executed(t), rest)
      /\ IF after.state = "Failed"
           THEN SendBase(Max({0, Last - Decel})) /\ driving' = FALSE
           ELSE /\ \E v \in Sendable(after.state = "Blocked", Previous(t), d) : SendBase(v)
                /\ driving' = TRUE
      /\ UNCHANGED <<told, posted, stop, scaled>>

\* A cycle that finds its goal canceled ends it, with the ramp's first step
\* (end_goal).
Canceled ==
  /\ driving /\ now < MaxTime /\ Len(inbox) < Lag
  /\ SendBase(Max({0, Last - Decel}))
  /\ now' = now + 1 /\ driving' = FALSE
  /\ rolled' = (rolled \/ Rolling(now'))
  /\ UNCHANGED <<told, posted, stop, det, scaled, seen>>

\* run_cycle without a goal: the ramp, until the base was sent zero; a late tick
\* brakes more (tick_ramp).
TickRamp(d) ==
  /\ ~driving /\ Last > 0 /\ now + d <= MaxTime /\ Len(inbox) < Lag
  /\ SendBase(Max({0, Last - Decel * d}))
  /\ now' = now + d
  /\ rolled' = (rolled \/ Rolling(now'))
  /\ UNCHANGED <<told, posted, stop, det, driving, scaled, seen>>

\* The monitor handles its oldest command: it passes it, halves it, or stops it
\* and says so.  The base rolls with a command it can start with.
Monitor(does) ==
  /\ inbox # <<>>
  /\ LET v == CASE does = "pass" -> Head(inbox) [] does = "slow" -> Head(inbox) \div 2 [] OTHER -> 0
     IN  /\ told' = [v |-> v, at |-> now]
         /\ scaled' = (scaled \/ v # Head(inbox))
         /\ steady' = IF v = told.v THEN steady ELSE 0
         /\ rolled' = (rolled \/ v >= Own)
  /\ inbox' = Tail(inbox)
  /\ posted' = (does = "stop")
  /\ UNCHANGED <<now, sent, stop, det, driving, seen>>

\* A command is lost, or the monitor is silent after its stop.
Lose ==
  /\ inbox # <<>>
  /\ inbox' = Tail(inbox)
  /\ scaled' = TRUE
  /\ UNCHANGED <<now, sent, told, posted, stop, rolled, det, driving, steady, seen>>

\* The monitor's state reaches the node.
OnMonitorState ==
  /\ stop # posted
  /\ stop' = posted
  /\ UNCHANGED <<now, sent, told, inbox, posted, rolled, det, driving, scaled, steady, seen>>

Next ==
  \/ \E starting \in BOOLEAN, d \in 1 .. 2 : \E moved \in 0 .. d, rest \in BOOLEAN :
       Cycle(starting, d, moved, rest)
  \/ Canceled
  \/ \E d \in 1 .. 2 : TickRamp(d)
  \/ \E does \in {"pass", "slow", "stop"} : Monitor(does)
  \/ Lose
  \/ OnMonitorState

Spec == Init /\ [][Next]_vars

-----------------------------------------------------------------------------
\* Every variable holds a value of its kind.
Time == {Never} \cup (0 .. MaxTime)
TypeOK ==
  /\ now \in 0 .. MaxTime
  /\ \A s \in {sent, inbox} : \A i \in DOMAIN s : s[i] \in 0 .. VMax
  /\ Len(sent) <= Kept /\ Len(inbox) <= Lag
  /\ told \in [v : 0 .. VMax, at : Time]
  /\ {posted, stop, rolled, driving, scaled} \subseteq BOOLEAN /\ steady \in 0 .. Kept
  /\ det \in [state : {"Clear", "Blocked", "Failed"}, since : Time, freeSince : Time,
              last : Time, askedAt : Time, blocked : 0 .. 2 * MaxTime, gone : Never .. ProgressM - 1]
  /\ seen \in [gone : 0 .. ProgressM - 1, anchoredAt : Time, idleSince : Time, askedAt : Time, askedSince : Time]

\* A monitor that changes and loses nothing, and whose output lags by fewer
\* commands than are kept, never changes the command the controller continues
\* from: braking does not restart from an older, faster command
\* (executed_command.cpp, previous).
PassedThrough == ~scaled /\ Len(inbox) < Kept /\ Fresh(now) => Previous(now) = Last

\* While the monitor holds the base back, the command the controller continues
\* from runs ahead of the executed one, because zeros among the commands kept
\* look passed through, but by no more than those can gain: the base does not
\* leap when the way is free (executed_command.cpp, previous).
WindUpBounded ==
  ExecutedFeedback /\ steady = Kept => Previous(now) - Executed(now) <= (Kept - 1) * Accel

\* A goal fails as blocked only after it made no progress for the whole time, and
\* a time is counted once although the detection window, the holds and the
\* resumes between them are added up apart (blocked_detector.cpp, update).
BlockedTimeOnce == det.blocked <= now - seen.anchoredAt

\* A base is called blocked only when it stood at every cycle of the window and
\* was asked to move throughout, and the window counts as blocked time
\* (blocked_detector.cpp, update).
BlockedEarned ==
  det.state = "Clear" /\ det'.state # "Clear" =>
    /\ seen'.idleSince # Never /\ now' - seen'.idleSince >= Detect
    /\ seen'.askedSince # Never /\ now' - seen'.askedSince >= Detect
    /\ det'.blocked >= Detect
=============================================================================
