---------------------------- MODULE ArmExperiment ----------------------------
(***************************************************************************)
(* arm_experiment.cpp: one motion of the arm (with the base driven during  *)
(* it or after it), or a stream of overlapping segments, observed through  *)
(* feedback that may stop. The arm's action server is external: it may     *)
(* refuse a goal, and accept one after the client stopped waiting.         *)
(*                                                                         *)
(* Simulation time is in ticks of the base's schedule and of the stream;   *)
(* wall-clock deadlines expire at any time (the simulation may stand).     *)
(***************************************************************************)
EXTENDS Naturals, Sequences

CONSTANTS
  Schedule,   \* the disturbance: the base's motion in each tick, <<>> for none
  Hold,       \* hold_seconds asked for
  Period,     \* the stream's period
  StreamFor,  \* the stream's duration
  MaxStep     \* the most ticks one reading of the simulation clock advances

VARIABLES
  mode,      \* what the arguments ask for
  cancelAt,  \* --cancel-after: absent, a number, or no number
  pc,        \* where main is
  sim,       \* sim_now()
  origin,    \* drive_origin, hold_start, or the stream's t0
  base,      \* the last twist on /cmd_vel
  goal,      \* the arm's goal at the server
  canceled,  \* a cancel was sent
  holdFor,   \* hold_seconds as adjusted
  stream,    \* next_publish, segments
  outcome    \* how main ended

vars == <<mode, cancelAt, pc, sim, origin, base, goal, canceled, holdFor, stream, outcome>>

\* The arguments arm_experiment accepts: a hold that is not negative, a stream
\* that is longer than its period.
Parameters ==
  /\ Hold \in Nat /\ Period \in Nat \ {0} /\ StreamFor > Period
  /\ \A i \in DOMAIN Schedule : Schedule[i] \in {"moving", "still"}

NoTime == MaxStep + StreamFor + Len(Schedule) + Hold + 1
Total == Len(Schedule)

Init ==
  /\ mode \in {"move", "drive", "stream"} /\ (mode = "drive" => Schedule # <<>>)
  /\ cancelAt \in {"absent", "number", "word"} /\ (mode = "stream" => cancelAt = "absent")
  /\ pc = "wait" /\ sim = 0 /\ origin = NoTime
  /\ base = "still" /\ goal = "none" /\ canceled = FALSE /\ holdFor = Hold
  /\ stream = [next |-> 0, segments |-> 0] /\ outcome = "running"

Exit(how) == pc' = "exit" /\ outcome' = how
Unmoved == UNCHANGED <<mode, cancelAt, holdFor, stream>>

\* Ten seconds for a complete arm state, five for the server, then the limits.
Prepare ==
  /\ pc = "wait"
  /\ \/ Exit("failed") /\ UNCHANGED origin
     \/ mode = "stream" /\ pc' = "stream" /\ origin' = sim /\ UNCHANGED outcome
     \/ mode # "stream" /\ pc' = "send" /\ UNCHANGED <<origin, outcome>>
  /\ UNCHANGED <<sim, base, goal, canceled>> /\ Unmoved

-----------------------------------------------------------------------------
\* The stream: a segment per period on average, each with a braking tail; a
\* late reading is caught up with by at most one period.
Elapsed == sim - origin

PublishSegment ==
  /\ pc = "stream" /\ Elapsed < StreamFor /\ Elapsed >= stream.next
  /\ stream' = [next |-> IF stream.next + Period + Period >= Elapsed
                           THEN stream.next + Period ELSE Elapsed - Period,
                segments |-> stream.segments + 1]
  /\ UNCHANGED <<mode, cancelAt, pc, sim, origin, base, goal, canceled, holdFor, outcome>>

EndStream ==
  /\ pc = "stream"
  /\ \/ Elapsed >= StreamFor /\ Exit("reported")   \* settled and reported
     \/ Exit("failed")                             \* feedback lost
  /\ UNCHANGED <<sim, origin, base, goal, canceled>> /\ Unmoved

-----------------------------------------------------------------------------
\* drive: what it publishes at the given time of the schedule.
Twist(elapsed) == IF elapsed < Total THEN Schedule[elapsed + 1] ELSE "still"
Driven == IF Total = 0 \/ origin = NoTime THEN base ELSE Twist(sim - origin)
StopBase == base' = IF Total = 0 THEN base ELSE "still"

\* async_send_goal; the base's sequence starts with it for "drive".
SendGoal ==
  /\ pc = "send"
  /\ goal' = "sent" /\ pc' = "reply"
  /\ origin' = IF mode = "drive" THEN sim ELSE origin
  /\ UNCHANGED <<sim, base, canceled, outcome>> /\ Unmoved

\* The server (external) answers, also after the five seconds.
ServerAnswers ==
  /\ goal = "sent"
  /\ goal' \in {"running", "rejected"}
  /\ UNCHANGED <<mode, cancelAt, pc, sim, origin, base, canceled, holdFor, stream, outcome>>

ServerEnds ==
  /\ goal = "running"
  /\ goal' \in {"succeeded", "failed"} \cup (IF canceled THEN {"canceled"} ELSE {})
  /\ UNCHANGED <<mode, cancelAt, pc, sim, origin, base, canceled, holdFor, stream, outcome>>

Ended == {"succeeded", "failed", "canceled"}

ReplyArrives ==
  /\ pc = "reply"
  /\ \/ goal \in Ended \cup {"running"} /\ pc' = "motion" /\ UNCHANGED <<base, outcome>>
     \/ goal = "rejected" /\ StopBase /\ Exit("failed")
     \/ goal = "sent" /\ StopBase /\ Exit("unanswered")
  /\ UNCHANGED <<sim, origin, goal, canceled>> /\ Unmoved

\* The loop until the result: drive, and the cancel that was asked for. Two
\* exceptions leave it with the base as it is: reading an argument that is no
\* number, and async_cancel_goal once the result has arrived in the same round.
Motion ==
  /\ pc = "motion"
  /\ base' = Driven
  /\ \/ cancelAt # "word" /\ UNCHANGED <<canceled, pc, outcome>>
     \/ cancelAt = "number" /\ ~canceled /\ canceled' = TRUE /\ UNCHANGED <<pc, outcome>>
     \/ cancelAt = "number" /\ ~canceled /\ goal \in Ended /\ Exit("thrown") /\ UNCHANGED canceled
     \/ cancelAt = "word" /\ Exit("thrown") /\ UNCHANGED canceled
  /\ UNCHANGED <<sim, origin, goal>> /\ Unmoved

\* 120 s without a result; the cancel may still throw, the base stands by then.
TimesOut ==
  /\ pc = "motion"
  /\ StopBase /\ Exit("failed")
  /\ \/ canceled' = TRUE
     \/ goal \in Ended /\ UNCHANGED canceled
  /\ UNCHANGED <<sim, origin, goal>> /\ Unmoved

\* What is left of the sequence after the motion is held at the goal.
BeginHold ==
  /\ pc = "motion" /\ goal \in Ended
  /\ pc' = "hold"
  /\ LET start == IF origin = NoTime THEN sim ELSE origin
         left == IF Total > sim - start THEN Total - (sim - start) ELSE 0
         need == IF Hold > left THEN Hold ELSE left
     IN origin' = start /\ holdFor' = sim + need
  /\ UNCHANGED <<mode, cancelAt, sim, base, goal, canceled, stream, outcome>>

HoldStep ==
  /\ pc = "hold" /\ goal = "succeeded" /\ sim < holdFor
  /\ base' = Driven
  /\ UNCHANGED <<mode, cancelAt, pc, sim, origin, goal, canceled, holdFor, stream, outcome>>

EndHold ==
  /\ pc = "hold"
  /\ StopBase
  /\ \/ (goal # "succeeded" \/ sim >= holdFor) /\ Exit("reported")
     \/ goal = "succeeded" /\ sim < holdFor /\ Exit("failed")   \* feedback lost
  /\ UNCHANGED <<sim, origin, goal, canceled>> /\ Unmoved

-----------------------------------------------------------------------------
\* /clock arrives while main waits; nothing reads it after the end.
ClockTick ==
  /\ pc \in {"stream", "reply", "motion", "hold"}
  /\ \E n \in 1..MaxStep : sim + n < NoTime /\ sim' = sim + n
  /\ UNCHANGED <<mode, cancelAt, pc, origin, base, goal, canceled, holdFor, stream, outcome>>

Next ==
  \/ Prepare \/ PublishSegment \/ EndStream
  \/ SendGoal \/ ServerAnswers \/ ServerEnds \/ ReplyArrives
  \/ Motion \/ TimesOut \/ BeginHold \/ HoldStep \/ EndHold
  \/ ClockTick

Spec == Init /\ [][Next]_vars

-----------------------------------------------------------------------------
\* Every variable keeps its range.
TypeOK ==
  /\ mode \in {"move", "drive", "stream"} /\ cancelAt \in {"absent", "number", "word"}
  /\ pc \in {"wait", "stream", "send", "reply", "motion", "hold", "exit"}
  /\ {sim, origin} \subseteq 0..NoTime /\ base \in {"still", "moving"}
  /\ goal \in {"none", "sent", "running", "rejected"} \cup Ended
  /\ canceled \in BOOLEAN /\ holdFor \in 0..2 * NoTime
  /\ stream \in [next : Nat, segments : Nat]
  /\ outcome \in {"running", "reported", "failed", "unanswered", "thrown"}

\* Whatever ends an experiment, an exception out of the motion's loop aside, the
\* base was told to stop, and a goal that may still run was either canceled or
\* never answered in time.
EndsStopped ==
  pc = "exit" /\ outcome # "thrown" =>
    /\ base = "still"
    /\ goal = "running" => canceled \/ outcome = "unanswered"

\* A report of a motion that succeeded covers the whole of the base's sequence.
SequenceFinished ==
  outcome = "reported" /\ mode # "stream" /\ goal = "succeeded" => sim - origin >= Total

\* The stream never runs ahead of its rate, however late its readings are.
StreamKeepsRate ==
  stream.segments > 0 => (stream.segments - 1) * Period <= Elapsed
=============================================================================
