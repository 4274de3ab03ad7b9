------------------------------ MODULE DemoServer ------------------------------
(***************************************************************************)
(* The plant's demo server: StreamServer (one TCP client at a time, frames *)
(* dropped behind a backlog cap), DemoServer (a poll, the client's         *)
(* commands, the cycles due, the frames out) and the Session it runs (the  *)
(* goals, their records, the frames it queues).                            *)
(*                                                                         *)
(* A pass of iterate is split where a socket call may lose the client. A   *)
(* frame is its kind and the client it was made for; the plant, the        *)
(* controllers and what the frames say are left out.                       *)
(***************************************************************************)
EXTENDS Naturals, SequencesExt

CONSTANTS
  Clients,       \* how many clients come, one after the other
  Cap,           \* StreamServer::cap_, in frames
  MaxOut,        \* the bound on a backlog of frames that are never dropped
  HelloTimeout,  \* DemoOptions::hello_timeout_s, ticks
  MaxGoals,      \* the goals of a recorded mission
  MaxLost,       \* counted drops saturate here
  LogFails       \* the run log's file may not open

VARIABLES
  pc,        \* where iterate is
  client,    \* StreamServer::client_: the client that is connected, 0 without
  came,      \* the clients accepted so far
  inbox,     \* the client's commands that were not read yet
  controls,  \* the commands taken from the stream
  out,       \* StreamServer::out_
  lost,      \* dropped() - reported_dropped_
  quiet,     \* the last report of dropped frames is a second old
  greeted, running, hasRun,
  age,       \* ticks since connected_at_
  goals,     \* Session::goals_: how many
  goal,      \* goal_index_, from 1
  active,    \* there is a stepper_
  records,   \* records_: how each goal ended
  frames     \* frames_

socket == <<client, came, inbox, out, lost>>
server == <<greeted, running, hasRun>>
clocks == <<quiet, age>>
session == <<goals, goal, active, records, frames>>
vars == <<pc, controls, socket, server, clocks, session>>

\* DemoOptions, and StreamServer's backlog: frames that are never dropped may
\* outgrow the cap of those that are.
Parameters == HelloTimeout \in Nat \ {0} /\ Cap \in Nat \ {0} /\ Cap <= MaxOut /\ LogFails \in BOOLEAN

Commands == {"hello", "old_hello", "list_scenarios", "reset", "set_goal", "run", "pause", "step"}
Outcomes == {"goal_reached", "stalled", "failed"}  \* a timeout ends a goal as a failure does

Init ==
  /\ pc = "poll" /\ client = 0 /\ came = 0 /\ inbox = <<>> /\ controls = <<>> /\ out = <<>>
  /\ lost = 0 /\ quiet = TRUE /\ age = 0
  /\ greeted = FALSE /\ running = FALSE /\ hasRun = FALSE
  /\ goals = 0 /\ goal = 1 /\ active = FALSE /\ records = <<>> /\ frames = <<>>

-----------------------------------------------------------------------------
\* StreamServer.
Frame(kind) == [kind |-> kind, for |-> client]
droppable(f) == f.kind = "state"

\* send, on a backlog and its count of dropped frames.
Send(b, f) ==
  IF client = 0 \/ (Len(b.out) >= Cap /\ droppable(f))
  THEN [b EXCEPT !.lost = IF @ < MaxLost THEN @ + 1 ELSE @]
  ELSE [b EXCEPT !.out = Append(@, f)]
Backlog == [out |-> out, lost |-> lost]
Queue(b) == out' = b.out /\ lost' = b.lost

drop_client == client' = 0 /\ inbox' = <<>> /\ out' = <<>> /\ UNCHANGED <<came, lost>>

\* The client: it sends a command (one waits at most), or reads.
Say(c) ==
  /\ client # 0 /\ inbox = <<>> /\ Len(out) < MaxOut /\ inbox' = <<c>>
  /\ UNCHANGED <<pc, controls, client, came, out, lost, server, clocks, session>>
flush ==
  /\ out # <<>> /\ out' = Tail(out)
  /\ UNCHANGED <<pc, controls, client, came, inbox, lost, server, clocks, session>>

\* poll: accepts, reads what came, or loses the client.
Accept ==
  /\ pc = "poll" /\ client = 0 /\ came < Clients
  /\ client' = came + 1 /\ came' = came + 1 /\ inbox' = <<>>
  /\ out' = <<[kind |-> "hello", for |-> came + 1]>> /\ lost' = 0
  /\ greeted' = FALSE /\ running' = FALSE /\ age' = 0
  /\ pc' = "handle" /\ controls' = <<>>
  /\ UNCHANGED <<hasRun, quiet, session>>

Read ==
  /\ pc = "poll" /\ pc' = "handle" /\ controls' = inbox /\ inbox' = <<>>
  /\ UNCHANGED <<client, came, out, lost, server, clocks, session>>

Loses ==
  /\ pc = "poll" /\ client # 0 /\ drop_client
  /\ pc' = "handle" /\ controls' = <<>> /\ UNCHANGED <<server, clocks, session>>

-----------------------------------------------------------------------------
\* Session.
start_next_goal(n, g) == active' = (g <= n)

\* Mutant: the last run's records are not cleared.
ResetKeepingRecords ==
  /\ \E n \in 1..MaxGoals :
       goals' = n /\ goal' = 1 /\ start_next_goal(n, 1) /\ UNCHANGED records
  /\ frames' = <<Frame("hello")>>

\* reset: what can throw is built first, then the run is replaced; the run log
\* is opened after that.
Reset ==
  /\ \E n \in 1..MaxGoals :
       goals' = n /\ records' = <<>> /\ goal' = 1 /\ start_next_goal(n, 1)
  /\ frames' = <<Frame("hello")>>
ResetWithoutLog ==
  /\ LogFails /\ \E n \in 1..MaxGoals : goals' = n
  /\ records' = <<>> /\ frames' = <<>> /\ active' = FALSE /\ UNCHANGED goal

SetGoal == goals' = 1 /\ goal' = 1 /\ records' = <<>> /\ start_next_goal(1, 1) /\ UNCHANGED frames

\* finish_goal.
Finish(how) ==
  /\ records' = Append(records, how)
  /\ IF how = "goal_reached" /\ goal < goals
     THEN goal' = goal + 1 /\ start_next_goal(goals, goal + 1)
     ELSE active' = FALSE /\ UNCHANGED goal
  /\ UNCHANGED goals

\* summary: the goals set last were all reached.
SummaryReached ==
  Len(records) = goals /\ ~active /\ \A n \in 1..Len(records) : records[n] = "goal_reached"

\* step_cycle: the stepper moves the plant, or ends the goal; a stall is seen
\* after a move.
step_cycle ==
  \/ /\ frames' = frames \o <<Frame("state")>> /\ UNCHANGED <<goals, goal, active, records>>
  \/ /\ frames' = frames \o <<Frame("state"), Frame("event")>>  \* a contact, a fallback
     /\ UNCHANGED <<goals, goal, active, records>>
  \/ \E how \in Outcomes :
       /\ frames' = frames \o (IF how = "stalled" THEN <<Frame("state")>> ELSE <<>>) \o <<Frame("event")>>
       /\ Finish(how)

-----------------------------------------------------------------------------
\* handle: a command of the client, answered with an error event if it throws.
Answer(kind) == Queue(Send(Backlog, Frame(kind)))
Fails == Answer("event") /\ UNCHANGED <<client, came, inbox, server, session>>

\* What a client may ask for that said hello; set_goal, run and step need a run.
Serve(c) ==
  \/ /\ c = "reset" /\ Reset /\ running' = FALSE /\ hasRun' = TRUE /\ UNCHANGED <<socket, greeted>>
  \/ /\ c = "reset" /\ ResetWithoutLog /\ Answer("event") /\ UNCHANGED <<client, came, inbox, server>>
  \/ c = "set_goal" /\ SetGoal /\ UNCHANGED <<socket, server>>
  \/ c = "run" /\ running' = TRUE /\ UNCHANGED <<socket, greeted, hasRun, session>>
  \/ c = "pause" /\ running' = FALSE /\ UNCHANGED <<socket, greeted, hasRun, session>>
  \/ /\ c = "step" /\ running' = FALSE /\ UNCHANGED <<socket, greeted, hasRun>>
     /\ IF active THEN step_cycle ELSE UNCHANGED session

Hellos == {"hello", "old_hello"}
Refused(c) == ~greeted \/ (c \in {"set_goal", "run", "step"} /\ ~hasRun)

Obey(c) ==
  \/ c = "hello" /\ greeted' = TRUE /\ UNCHANGED <<socket, running, hasRun, session>>
  \/ c = "old_hello" /\ drop_client /\ UNCHANGED <<server, session>>
  \/ c \notin Hellos /\ (Refused(c) \/ c \in {"list_scenarios", "reset"}) /\ Fails
  \/ c \notin Hellos /\ ~Refused(c) /\ Serve(c)

\* A command; sending its answer may lose the client, and the pass ends there.
Handle ==
  /\ pc = "handle" /\ controls # <<>> /\ client # 0
  /\ Obey(Head(controls)) /\ UNCHANGED clocks
  /\ IF client' = 0 THEN pc' = "poll" /\ controls' = <<>>
     ELSE controls' = Tail(controls) /\ UNCHANGED pc

AnswerLosesClient ==
  /\ pc = "handle" /\ controls # <<>> /\ client # 0 /\ (~greeted \/ Head(controls) \in {"list_scenarios", "reset"})
  /\ Head(controls) # "hello"
  /\ drop_client /\ pc' = "poll" /\ controls' = <<>> /\ UNCHANGED <<server, clocks, session>>

\* After the commands: without a client nothing runs, and one that has not said
\* hello in time is dropped.
Checked ==
  /\ pc = "handle" /\ controls = <<>>
  /\ IF client = 0 THEN running' = FALSE /\ pc' = "poll" /\ UNCHANGED socket
     ELSE IF ~greeted /\ age > HelloTimeout THEN drop_client /\ pc' = "poll" /\ UNCHANGED running
     ELSE pc' = "cycle" /\ UNCHANGED <<running, socket>>
  /\ UNCHANGED <<controls, greeted, hasRun, clocks, session>>

\* The cycles due: none when a paced run is ahead of the wall clock (or the
\* backlog is at the model's bound); a cycle that throws stops the run.
Cycle ==
  /\ pc = "cycle" /\ pc' = "forward"
  /\ \/ /\ running /\ hasRun /\ active /\ Len(out) < MaxOut /\ step_cycle /\ running' = active' /\ UNCHANGED socket
     \/ /\ running /\ hasRun /\ active /\ Len(out) < MaxOut /\ running' = FALSE /\ Answer("event")
        /\ UNCHANGED <<client, came, inbox, session>>
     \/ /\ running' = (running /\ (hasRun => active)) /\ UNCHANGED <<socket, session>>
  /\ UNCHANGED <<controls, greeted, hasRun, clocks>>

\* forward: the session's frames go to a client that was greeted; the dropped
\* ones are told at most once a second.
Forward ==
  /\ pc = "forward" /\ pc' = "poll" /\ frames' = <<>>
  /\ IF ~greeted THEN UNCHANGED <<socket, quiet>>
     ELSE /\ UNCHANGED <<client, came, inbox>>
          /\ LET b == FoldLeft(Send, Backlog, frames)
             IN IF b.lost > 0 /\ quiet THEN Queue([Send(b, Frame("event")) EXCEPT !.lost = 0]) /\ quiet' = FALSE
                ELSE Queue(b) /\ UNCHANGED quiet
  /\ UNCHANGED <<controls, server, age, goals, goal, active, records>>
ForwardLosesClient ==
  /\ pc = "forward" /\ pc' = "poll" /\ frames # <<>> /\ greeted /\ client # 0
  /\ drop_client /\ frames' = <<>> /\ UNCHANGED <<controls, server, clocks, goals, goal, active, records>>

\* Mutant: the hello's deadline runs after the hello only.
TickOnceGreeted ==
  /\ ~quiet \/ (greeted /\ client # 0 /\ age <= HelloTimeout)
  /\ quiet' = TRUE /\ age' = IF greeted /\ client # 0 /\ age <= HelloTimeout THEN age + 1 ELSE age
  /\ UNCHANGED <<pc, controls, socket, server, session>>
Tick ==
  /\ ~quiet \/ (client # 0 /\ age <= HelloTimeout)
  /\ quiet' = TRUE /\ age' = IF client # 0 /\ age <= HelloTimeout THEN age + 1 ELSE age
  /\ UNCHANGED <<pc, controls, socket, server, session>>

-----------------------------------------------------------------------------
iterate == Accept \/ Read \/ Loses \/ Handle \/ AnswerLosesClient \/ Checked \/ Cycle \/ Forward \/ ForwardLosesClient
Next == iterate \/ (\E c \in Commands : Say(c)) \/ flush \/ Tick
Spec == Init /\ [][Next]_vars

\* serve goes on until the process is stopped, and time passes.
FairSpec == Spec /\ WF_vars(iterate) /\ WF_vars(Tick)

-----------------------------------------------------------------------------
\* Every variable keeps its range.
TypeOK ==
  /\ pc \in {"poll", "handle", "cycle", "forward"} /\ client \in 0..came /\ came \in 0..Clients
  /\ {greeted, running, hasRun, quiet, active} \subseteq BOOLEAN
  /\ lost \in 0..MaxLost /\ age \in 0..HelloTimeout + 1
  /\ goals \in 0..MaxGoals /\ goal \in 1..MaxGoals /\ Len(records) <= MaxGoals

\* A client is sent only what was made for it: frames of a run that its
\* predecessor left behind never reach it (DemoServer::forward).
OwnFramesOnly == \A n \in 1..Len(out) : out[n].for = client

\* The plant moves only for a client that is there and said hello: a run does
\* not go on when its client leaves or another takes the slot.
MovesForIt == records' # records \/ Len(frames') > Len(frames) => greeted /\ client # 0
MovesForItsClient == [][MovesForIt]_vars

\* Each goal that was begun has one record, or is the one that runs, and every
\* goal but the last was reached; the summary says "reached" once the last one
\* was, too, and not before.
RecordPerGoal ==
  goals > 0 => /\ Len(records) = IF active THEN goal - 1 ELSE goal
               /\ SummaryReached <=> ~active /\ goal = goals /\ records[goal] = "goal_reached"
               /\ \A n \in 1..goal - 1 : records[n] = "goal_reached"

\* A client that says no hello loses the slot, and one that is there learns of
\* frames that were dropped for it.
Silent(c) == client = c /\ ~greeted
Owed(c) == client = c /\ greeted /\ lost > 0
ClientsAnswered == \A c \in 1..Clients : []<>~Silent(c) /\ []<>~Owed(c)

\* "a failed reset leaves the previous run whole" (session.cpp): what a client
\* gets an error for did not touch the run that was there.
ResetKeepsRun ==
  pc = "handle" /\ controls # <<>> /\ Head(controls) = "reset" /\ Len(out') > Len(out)
    => UNCHANGED <<goals, goal, active, records>>
FailedResetKeepsRun == [][ResetKeepsRun]_vars
=============================================================================
