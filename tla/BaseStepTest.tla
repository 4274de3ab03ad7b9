--------------------------- MODULE BaseStepTest ---------------------------
(***************************************************************************)
(* base_step_test.cpp: the refusals before anything is commanded, the      *)
(* cases of drive and stop segments, the commands published while a        *)
(* segment lasts, the ground truth recorded meanwhile and the files        *)
(* written per case.  The process may be killed at any time and is run     *)
(* again with the same output directory.                                   *)
(*                                                                         *)
(* The base is the external plant: it follows the last command from the    *)
(* next tick on, its watchdog stops it Watchdog ticks after the last       *)
(* command.  A tick is one turn of spin_for's loop and one published       *)
(* command; velocities are signs, linear and yaw cases differ in name.     *)
(***************************************************************************)
EXTENDS Integers, FiniteSets, SequencesExt

CONSTANTS
  Drive, Brake,        \* seconds of a drive segment and of a stop segment, in ticks
  Settle,              \* the last spin_for of a case
  Watchdog,            \* ticks without a command before the base stops
  Probe, Samples,      \* ticks spun before the checks, samples they need
  Recent,              \* of these, the last ones the base must rest in
  Suites,              \* the kinds of cases a run may select, in order
  MaxRuns              \* bound on the runs in one output directory

VARIABLES
  phase,     \* "starting", "checking", "driving", "writing", "over"
  selected,  \* the run's cases
  case, segment, left,     \* the case, its segment and the ticks left of it
  samples,   \* ground-truth samples: base speed, commanded speed, publishing
  v, x,      \* the base: speed and place, relative to the case's start
  command,   \* the last command published, and the ticks since
  silent,
  others,    \* other publishers of /cmd_vel were running at the checks
  files,     \* csv files written: the case and the run
  summary,   \* the run that wrote the summary, 0 before any
  run

vars == <<phase, selected, case, segment, left, samples, v, x, command, silent,
          others, files, summary, run>>
process == <<phase, selected, case, segment, left>>
base == <<v, x, command, silent>>
disk == <<files, summary>>

-----------------------------------------------------------------------------
\* Out and back: every drive segment followed by a stop, published or by watchdog.
Segment(d, seconds, publish) == [v |-> d, seconds |-> seconds, publish |-> publish]
OutAndBack(d, publish) ==
  <<Segment(d, Drive, TRUE), Segment(0, Brake, publish), Segment(-d, Drive, TRUE), Segment(0, Brake, publish)>>
StepCases ==
  [forward |-> OutAndBack(1, TRUE), reverse |-> OutAndBack(-1, TRUE),
   watchdog |-> OutAndBack(1, FALSE), yaw |-> OutAndBack(1, TRUE)]
BreakawayCases == [breakaway |-> OutAndBack(1, TRUE)]
Segments(name) == IF name = "breakaway" THEN BreakawayCases[name] ELSE StepCases[name]

Init ==
  /\ phase = "starting" /\ selected = <<>> /\ case = 0 /\ segment = 0 /\ left = 0
  /\ samples = <<>> /\ v \in {0, 1} /\ x = 0 /\ command = v /\ silent = 0
  /\ others = FALSE /\ files = {} /\ summary = 0 /\ run = 1

\* The base one tick on.
Obeyed == IF silent >= Watchdog THEN 0 ELSE command
Move == v' = Obeyed /\ x' = x + Obeyed
Silence == silent' = IF silent < Watchdog THEN silent + 1 ELSE silent

\* on_tf and on_joints: a sample of the base with the segment's command, once the
\* wheels were seen.
Recorded(d, publish) ==
  IF Len(samples) < Samples + 4 * (Drive + Brake) + Settle
  THEN Append(samples, [v |-> v, cmd |-> d, publishing |-> publish]) ELSE samples

\* The first clock: nothing is commanded while the checks' samples are gathered.
Start(suite, busy) ==
  /\ phase = "starting"
  /\ selected' = suite /\ others' = busy
  /\ phase' = "checking" /\ case' = 0 /\ segment' = 0 /\ left' = Probe
  /\ samples' = <<>>
  /\ UNCHANGED <<base, disk, run>>

\* TF or the wheels may be missing.
Watch(tf) ==
  /\ phase = "checking" /\ left > 0
  /\ left' = left - 1
  /\ samples' = IF tf THEN Recorded(0, FALSE) ELSE samples
  /\ IF others THEN command' = 1 /\ silent' = 0 ELSE UNCHANGED command /\ Silence
  /\ Move
  /\ UNCHANGED <<phase, selected, case, segment, others, disk, run>>

Exit == phase' = "over" /\ UNCHANGED <<selected, case, segment, left, samples, base, others, disk, run>>

\* derive() takes centred differences over two samples each way, twice: the rows
\* are those of the samples but four at either end, none if too few are left.
Rows(s) == IF Len(s) < 8 THEN {} ELSE 5..Len(s) - 4
Speeding(s, i) == \E j \in i - 2..i + 2 : s[j].v # 0
Moving(s) ==
  LET last == SubSeq(s, Len(s) - Recent + 1, Len(s))
  IN Len(s) >= Recent /\ \E i \in Rows(last) : Speeding(last, i)
Refused == others \/ Len(samples) < Samples \/ Moving(samples)

Refuse == phase = "checking" /\ left = 0 /\ Refused /\ Exit

Taken(name) == \E f \in files : f.case = name

BeginCase(n) ==
  /\ case' = n /\ segment' = 1 /\ left' = Segments(selected[n])[1].seconds
  /\ samples' = <<>> /\ phase' = "driving" /\ x' = 0

Go ==
  /\ phase = "checking" /\ left = 0 /\ ~Refused /\ ~Taken(selected[1])
  /\ BeginCase(1)
  /\ UNCHANGED <<selected, v, command, silent, others, disk, run>>

\* The evidence of an earlier run is not overwritten.
Overwriting ==
  /\ \/ phase = "checking" /\ left = 0 /\ ~Refused /\ Taken(selected[1])
     \/ phase = "writing" /\ case < Len(selected) /\ Taken(selected[case + 1])
  /\ Exit

\* One turn of spin_for: publish while the segment says so, then take what arrived.
Current == IF segment > 4 THEN Segment(0, Settle, TRUE) ELSE Segments(selected[case])[segment]
Spin ==
  /\ phase = "driving" /\ left > 0
  /\ left' = left - 1
  /\ IF Current.publish THEN command' = Current.v /\ silent' = 0 ELSE UNCHANGED command /\ Silence
  /\ Move
  /\ samples' = Recorded(Current.v, Current.publish)
  /\ UNCHANGED <<phase, selected, case, segment, others, disk, run>>

NextSegment ==
  /\ phase = "driving" /\ left = 0 /\ segment <= 4
  /\ segment' = segment + 1
  /\ left' = IF segment = 4 THEN Settle ELSE Segments(selected[case])[segment + 1].seconds
  /\ UNCHANGED <<phase, selected, case, samples, base, others, disk, run>>

\* The case's csv.
WriteCsv ==
  /\ phase = "driving" /\ left = 0 /\ segment = 5
  /\ files' = {f \in files : f.case # selected[case]} \cup {[case |-> selected[case], run |-> run]}
  /\ phase' = "writing"
  /\ UNCHANGED <<selected, case, segment, left, samples, base, others, summary, run>>

NextCase ==
  /\ phase = "writing" /\ case < Len(selected) /\ ~Taken(selected[case + 1])
  /\ BeginCase(case + 1)
  /\ UNCHANGED <<selected, v, command, silent, others, disk, run>>

WriteSummary ==
  /\ phase = "writing" /\ case = Len(selected)
  /\ summary' = run /\ phase' = "over"
  /\ UNCHANGED <<selected, case, segment, left, samples, base, others, files, run>>

\* Without the process only the base goes on.
Kill ==
  /\ phase \in {"checking", "driving", "writing"}
  /\ phase' = "over"
  /\ UNCHANGED <<selected, case, segment, left, samples, base, others, disk, run>>

Coast ==
  /\ phase = "over" /\ (v # 0 \/ silent < Watchdog)
  /\ Move /\ Silence
  /\ UNCHANGED <<process, samples, command, others, disk, run>>

RunAgain ==
  /\ phase = "over" /\ run < MaxRuns
  /\ run' = run + 1 /\ phase' = "starting"
  /\ UNCHANGED <<selected, case, segment, left, samples, base, others, disk>>

Next ==
  \/ \E suite \in Suites, busy \in BOOLEAN : Start(suite, busy)
  \/ \E tf \in BOOLEAN : Watch(tf)
  \/ Refuse \/ Go \/ Overwriting \/ Spin \/ NextSegment \/ WriteCsv \/ NextCase
  \/ WriteSummary \/ Kill \/ Coast \/ RunAgain

Spec == Init /\ [][Next]_vars

-----------------------------------------------------------------------------
TypeOK ==
  /\ phase \in {"starting", "checking", "driving", "writing", "over"}
  /\ v \in -1..1 /\ command \in -1..1 /\ silent \in 0..Watchdog /\ left \in Nat
  /\ summary \in 0..MaxRuns /\ run \in 1..MaxRuns

\* Every case drives out and back so the robot ends near its start: when a case is
\* written the base is at rest, within Watchdog ticks of travel of where the case
\* began, whether its stops were braked or left to the watchdog, and whatever ran
\* before in this directory.
EndsNearItsStart ==
  phase = "writing" => v = 0 /\ x \in -Watchdog..Watchdog

\* A csv stays the evidence of the run that wrote it.
EvidenceKept == files \subseteq files'
=============================================================================
