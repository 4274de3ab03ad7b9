------------------------ MODULE UnityEndpointProofs ------------------------
(***************************************************************************)
(* Theorems about UnityEndpoint: whatever the number of connections,       *)
(* descriptors, topics and messages, threads keep to their own descriptor  *)
(* and replies to their own connection.                                    *)
(***************************************************************************)
EXTENDS UnityEndpoint, TLAPS, SequenceTheorems

(***************************************************************************)
(* The inductive invariant.  end_connection runs in one thread at a time,  *)
(* because main joins the acceptor first; while it runs no connection is   *)
(* current, and the threads that are left are those of the one it ends.    *)
(***************************************************************************)
Ending(p) == step[p] \in {"wake", "reader", "sender", "close"}
Accepted ==
  step["acceptor"] \in {"swap", "wake", "reader", "sender", "close", "begin"}
ReaderJoined ==
  \/ step["acceptor"] \in {"sender", "close", "begin", "start"}
  \/ step["main"] \in {"sender", "close", "clear", "stopped"}
SenderJoined ==
  \/ step["acceptor"] \in {"close", "begin", "start"}
  \/ step["main"] \in {"close", "clear", "stopped"}

StepInv ==
  /\ step["acceptor"] \in {"check", "accept", "swap", "wake", "reader", "sender",
                           "close", "begin", "start", "done"}
  /\ step["main"] \in {"serving", "unlisten", "join", "swap", "wake", "reader",
                       "sender", "close", "clear", "stopped"}
  /\ step["main"] \notin {"serving", "unlisten", "join"} => step["acceptor"] = "done"

EndingInv ==
  /\ ending # None => Ending("acceptor") \/ Ending("main")
  /\ Ending("acceptor") \/ Ending("main") => current = None
  /\ step["acceptor"] = "begin" => current = None

Denoted(c) ==
  c # None => /\ c <= newest
              /\ descriptor[c] \in Descriptors
              /\ fdOf[descriptor[c]] = c

DescriptorInv ==
  /\ Denoted(current) /\ Denoted(ending)
  /\ Accepted => /\ newest # None /\ Denoted(newest)
                 /\ newest # current /\ newest # ending
  /\ step["acceptor"] = "start" => current = newest /\ newest # None

OfConnection(t) ==
  Joinable(t) => /\ t.conn # None /\ t.conn \in {current, ending}
                 /\ t.fd = descriptor[t.conn]

ThreadInv ==
  /\ OfConnection(reader) /\ OfConnection(sender)
  /\ ReaderJoined => ~Joinable(reader)
  /\ SenderJoined => ~Joinable(sender)

ConnectionInv == StepInv /\ EndingInv /\ DescriptorInv /\ ThreadInv

\* What the proofs need of the types: the rest of TypeOK bounds the queues.
ConnectionTypes ==
  /\ step \in [Enders -> Steps]
  /\ {newest, current, ending} \subseteq Connections \union {None}
  /\ descriptor \in [Connections -> Descriptors \union {None}]
  /\ fdOf \in [Descriptors -> Connections \union {None}]
  /\ reader \in Thread(ReaderSteps) /\ sender \in Thread(SenderSteps)

LEMMA InitConnection == Init => ConnectionTypes /\ ConnectionInv
BY EndpointConstants
   DEF Init, ConnectionTypes, ConnectionInv, StepInv, EndingInv, DescriptorInv,
       ThreadInv, Enders, Steps, Connections, None, NoThread, Thread, ReaderSteps,
       SenderSteps, Ending, Accepted, Denoted, OfConnection, Joinable,
       ReaderJoined, SenderJoined

\* Steps that touch none of the invariant's variables but a thread's pc.
ConnectionSame ==
  /\ UNCHANGED <<step, newest, descriptor, fdOf, current, ending>>
  /\ \/ reader' = reader
     \/ \E pc \in ReaderSteps \ {"none"} :
          reader.pc # "none" /\ reader' = [reader EXCEPT !.pc = pc]
  /\ \/ sender' = sender
     \/ \E pc \in SenderSteps \ {"none"} :
          sender.pc # "none" /\ sender' = [sender EXCEPT !.pc = pc]

LEMMA SameKeeps ==
  ASSUME ConnectionTypes, ConnectionInv, ConnectionSame
  PROVE  ConnectionTypes' /\ ConnectionInv'
<1>1. /\ reader'.conn = reader.conn /\ reader'.fd = reader.fd
      /\ Joinable(reader') <=> Joinable(reader)
      /\ reader' \in Thread(ReaderSteps)
  BY DEF ConnectionTypes, ConnectionSame, Thread, ReaderSteps, Joinable
<1>2. /\ sender'.conn = sender.conn /\ sender'.fd = sender.fd
      /\ Joinable(sender') <=> Joinable(sender)
      /\ sender' \in Thread(SenderSteps)
  BY DEF ConnectionTypes, ConnectionSame, Thread, SenderSteps, Joinable
<1>3. ConnectionTypes'
  BY <1>1, <1>2 DEF ConnectionTypes, ConnectionSame
<1>4. StepInv' /\ EndingInv' /\ DescriptorInv'
  BY DEF ConnectionInv, ConnectionSame, StepInv, EndingInv, DescriptorInv,
         Ending, Accepted, Denoted
<1>5. ThreadInv'
  BY <1>1, <1>2 DEF ConnectionInv, ConnectionSame, ThreadInv, OfConnection,
         ReaderJoined, SenderJoined
<1> QED BY <1>3, <1>4, <1>5 DEF ConnectionInv

LEMMA ReaderStepsSame ==
  ASSUME ConnectionTypes,
         ReadEnds \/ ReaderReads \/ ReaderSettles
  PROVE  ConnectionSame
BY DEF ReadEnds, ReaderReads, ReaderSettles, ReadNothing, ReadFrame, ReadData,
       Publish, Subscribe, Reply, LostSync, ReaderCloses, ReaderOnly, ReaderAt,
       ReaderGoes, NextFrame, ConnectionSame, ReaderSteps, connection, sockets

LEMMA SenderStepsSame ==
  ASSUME ConnectionTypes, SenderGoesOn \/ Written
  PROVE  ConnectionSame
BY DEF SenderGoesOn, Written, Pop, PopClosed, WriteFails, SenderShuts, SenderOnly,
       SenderGoes, ConnectionSame, SenderSteps

LEMMA OtherStepsSame ==
  ASSUME \/ \E t \in Topics : WorkerSteps(t) \/ CallbackStarts(t)
         \/ CallbackSends
         \/ \E c \in Connections : UnityLeaves(c)
         \/ UNCHANGED vars
  PROVE  ConnectionSame
BY DEF WorkerSteps, WorkerPops, WorkerPublishes, WorkerOnly, CallbackStarts,
       CallbackSends, UnityLeaves, vars, ConnectionSame, threads, connection,
       sockets

LEMMA AcceptorKeeps ==
  ASSUME ConnectionTypes, ConnectionInv,
         AcceptorSteps \/ \E fd \in Descriptors : Accept(fd)
  PROVE  ConnectionTypes' /\ ConnectionInv'
<1> USE EndpointConstants DEF ConnectionTypes, ConnectionInv, StepInv, EndingInv,
        DescriptorInv, ThreadInv, Enders, Steps, Connections, None, Ending,
        Accepted, Denoted, OfConnection, Joinable, ReaderJoined, SenderJoined,
        EnderOnly, StepOnly, Goto, connection, sockets
<1>1. CASE AcceptorChecks \/ AcceptFails
  BY <1>1 DEF AcceptorChecks, AcceptFails
<1>2. CASE BeginConnection
  BY <1>2 DEF BeginConnection
<1>3. CASE StartThreads
  BY <1>3 DEF StartThreads, Thread, ReaderSteps, SenderSteps
<1>4. ASSUME NEW fd \in Descriptors, Accept(fd)
      PROVE  ConnectionTypes' /\ ConnectionInv'
  BY <1>4 DEF Accept
<1> QED BY <1>1, <1>2, <1>3, <1>4 DEF AcceptorSteps

LEMMA EndConnectionKeeps ==
  ASSUME ConnectionTypes, ConnectionInv,
         NEW p \in Enders, EndConnection(p)
  PROVE  ConnectionTypes' /\ ConnectionInv'
<1> USE EndpointConstants DEF ConnectionTypes, ConnectionInv, StepInv, EndingInv,
        DescriptorInv, ThreadInv, Enders, Steps, Connections, None, Ending,
        Accepted, Denoted, OfConnection, Joinable, ReaderJoined, SenderJoined,
        EnderOnly, StepOnly, Goto, connection, sockets
<1>1. CASE Swap(p)
  BY <1>1 DEF Swap
<1>2. CASE Wake(p)
  BY <1>2 DEF Wake
<1>3. CASE JoinReader(p)
  BY <1>3 DEF JoinReader, NoThread, Thread, ReaderSteps
<1>4. CASE JoinSender(p)
  BY <1>4 DEF JoinSender, NoThread, Thread, SenderSteps
<1>5. CASE Close(p)
  BY <1>5 DEF Close
<1> QED BY <1>1, <1>2, <1>3, <1>4, <1>5 DEF EndConnection

LEMMA MainKeeps ==
  ASSUME ConnectionTypes, ConnectionInv, Stop \/ Stopping
  PROVE  ConnectionTypes' /\ ConnectionInv'
<1> USE EndpointConstants DEF ConnectionTypes, ConnectionInv, StepInv, EndingInv,
        DescriptorInv, ThreadInv, Enders, Steps, Connections, None, Ending,
        Accepted, Denoted, OfConnection, Joinable, ReaderJoined, SenderJoined,
        EnderOnly, StepOnly, Goto, connection, sockets
<1>1. CASE Stop \/ Unlisten \/ JoinAcceptor
  BY <1>1 DEF Stop, Unlisten, JoinAcceptor
<1>2. CASE StopClears
  BY <1>2 DEF StopClears
<1> QED BY <1>1, <1>2 DEF Stopping

LEMMA NextKeeps ==
  ASSUME ConnectionTypes, ConnectionInv, [Next]_vars
  PROVE  ConnectionTypes' /\ ConnectionInv'
<1>1. CASE AcceptorSteps \/ \E fd \in Descriptors : Accept(fd)
  BY <1>1, AcceptorKeeps
<1>2. CASE \E p \in Enders : EndConnection(p)
  BY <1>2, EndConnectionKeeps
<1>3. CASE Stop \/ Stopping
  BY <1>3, MainKeeps
<1>4. CASE ReadEnds \/ ReaderReads \/ ReaderSettles
  BY <1>4, ReaderStepsSame, SameKeeps
<1>5. CASE SenderGoesOn \/ Written
  BY <1>5, SenderStepsSame, SameKeeps
<1>6. CASE \/ \E t \in Topics : WorkerSteps(t) \/ CallbackStarts(t)
           \/ CallbackSends
           \/ \E c \in Connections : UnityLeaves(c)
           \/ UNCHANGED vars
  BY <1>6, OtherStepsSame, SameKeeps
<1> QED BY <1>1, <1>2, <1>3, <1>4, <1>5, <1>6 DEF Next

\* Whatever thread is joined, woken or replaced: one end_connection runs at a
\* time and the threads that are left belong to the connection it ends.
THEOREM ConnectionInvariant == Spec => [](ConnectionTypes /\ ConnectionInv)
<1>1. Init => ConnectionTypes /\ ConnectionInv
  BY InitConnection
<1>2. ConnectionTypes /\ ConnectionInv /\ [Next]_vars
      => (ConnectionTypes /\ ConnectionInv)'
  BY NextKeeps
<1> QED BY <1>1, <1>2, PTL DEF Spec

\* A running reader or sender never uses a descriptor that has been closed, or
\* given out again, for every number of connections and descriptors.
THEOREM OwnDescriptors == Spec => []OwnDescriptor
<1>1. ConnectionTypes /\ ConnectionInv => OwnDescriptor
  BY DEF ConnectionTypes, ConnectionInv, DescriptorInv, ThreadInv, OfConnection,
         Denoted, OwnDescriptor, Running, Joinable, None
<1> QED BY <1>1, ConnectionInvariant, PTL

\* begin_connection never overwrites a thread that is still to be joined.
THEOREM ThreadsJoined == Spec => []NoThreadReplaced
<1>1. ConnectionTypes /\ ConnectionInv => NoThreadReplaced
  BY DEF ConnectionInv, ThreadInv, ReaderJoined, SenderJoined, NoThreadReplaced
<1> QED BY <1>1, ConnectionInvariant, PTL

\* A connection's threads use its descriptor only, and each is joined before
\* the next takes its place.
THEOREM ThreadsOwn == Spec => []ThreadsOwnTheirConnection
<1>1. OwnDescriptor /\ NoThreadReplaced => ThreadsOwnTheirConnection
  BY DEF ThreadsOwnTheirConnection
<1> QED BY <1>1, OwnDescriptors, ThreadsJoined, PTL

(***************************************************************************)
(* The queues.  A reply is queued while its reader runs, and then the      *)
(* current connection, if there is one, is the reader's.                   *)
(***************************************************************************)
Queues == [frames : Seq(Frames), closed : BOOLEAN, dropped : BOOLEAN]
RepliesOf(q, c) ==
  \A i \in 1..Len(q.frames) : q.frames[i].kind = "reply" => q.frames[i].conn = c
GoodQueue(q, c) == q \in Queues /\ Len(q.frames) <= Capacity /\ RepliesOf(q, c)

QueueInv ==
  /\ queue = [c \in Connections |-> queue[c]]
  /\ \A c \in Connections : GoodQueue(queue[c], c)
  /\ first \in [Connections -> Frames \union {NoFrame}]

\* A bounded queue that takes an entry stays bounded and keeps no other new one.
LEMMA DropOldestBound ==
  ASSUME NEW S, NEW s \in Seq(S), NEW bound \in Nat \ {0}, Len(s) <= bound
  PROVE  /\ DropOldest(s, bound) \in Seq(S)
         /\ Len(DropOldest(s, bound)) < bound
         /\ \A i \in 1..Len(DropOldest(s, bound)) :
              \E j \in 1..Len(s) : DropOldest(s, bound)[i] = s[j]
<1>1. CASE Len(s) >= bound
  <2>1. /\ s # <<>> /\ Tail(s) \in Seq(S) /\ Len(Tail(s)) = Len(s) - 1
        /\ \A i \in 1..Len(Tail(s)) : Tail(s)[i] = s[i + 1]
    BY <1>1
  <2> QED BY <1>1, <2>1 DEF DropOldest
<1>2. CASE Len(s) < bound
  BY <1>2 DEF DropOldest
<1> QED BY <1>1, <1>2

LEMMA PushedGood ==
  ASSUME NEW c, NEW q, GoodQueue(q, c), NEW f \in Frames,
         f.kind = "reply" => f.conn = c
  PROVE  GoodQueue(Pushed(q, f), c)
<1>1. CASE q.closed
  BY <1>1 DEF Pushed
<1>2. CASE ~q.closed
  <2> DEFINE d == DropOldest(q.frames, Capacity)
  <2>1. q.frames \in Seq(Frames) /\ Len(q.frames) <= Capacity /\ RepliesOf(q, c)
    BY DEF GoodQueue, Queues
  <2>2. /\ d \in Seq(Frames) /\ Len(d) < Capacity
        /\ \A i \in 1..Len(d) : \E j \in 1..Len(q.frames) : d[i] = q.frames[j]
    BY <2>1, DropOldestBound, EndpointConstants
  <2>3. /\ Append(d, f) \in Seq(Frames) /\ Len(Append(d, f)) <= Capacity
        /\ \A i \in 1..Len(Append(d, f)) :
             Append(d, f)[i].kind = "reply" => Append(d, f)[i].conn = c
    BY <2>1, <2>2, EndpointConstants DEF RepliesOf
  <2>4. Pushed(q, f).frames = Append(d, f) /\ Pushed(q, f) \in Queues
    BY <1>2, <2>3 DEF Pushed, GoodQueue, Queues
  <2> QED BY <2>3, <2>4 DEF GoodQueue, RepliesOf
<1> QED BY <1>1, <1>2

LEMMA QueueChange ==
  ASSUME QueueInv, NEW c \in Connections, NEW q, GoodQueue(q, c),
         queue' = [queue EXCEPT ![c] = q], first' = first
  PROVE  QueueInv'
BY DEF QueueInv

LEMMA SendKeeps ==
  ASSUME ConnectionTypes, QueueInv, NEW f \in Frames,
         current # None /\ f.kind = "reply" => f.conn = current,
         SendFrame(f), first' = first
  PROVE  QueueInv'
<1>1. CASE current = None
  BY <1>1 DEF SendFrame, QueueInv
<1>2. CASE current # None
  <2>1. current \in Connections /\ GoodQueue(queue[current], current)
    BY <1>2 DEF ConnectionTypes, QueueInv
  <2>2. GoodQueue(Pushed(queue[current], f), current)
    BY <1>2, <2>1, PushedGood
  <2>3. queue' = [queue EXCEPT ![current] = Pushed(queue[current], f)]
    BY <1>2 DEF SendFrame
  <2> QED BY <2>1, <2>2, <2>3, QueueChange
<1> QED BY <1>1, <1>2

LEMMA EmptyGood == \A c : GoodQueue(NoFrames, c)
BY EndpointConstants DEF GoodQueue, NoFrames, Queues, RepliesOf

LEMMA ClosedGood ==
  ASSUME NEW c, NEW q, GoodQueue(q, c)
  PROVE  GoodQueue([q EXCEPT !.closed = TRUE], c)
BY DEF GoodQueue, Queues, RepliesOf

LEMMA PoppedGood ==
  ASSUME NEW c, NEW q, GoodQueue(q, c), q.frames # <<>>
  PROVE  GoodQueue([q EXCEPT !.frames = Tail(@)], c) /\ Head(q.frames) \in Frames
<1> DEFINE r == [q EXCEPT !.frames = Tail(@)]
<1>1. q.frames \in Seq(Frames) /\ Len(q.frames) <= Capacity /\ RepliesOf(q, c)
  BY DEF GoodQueue, Queues
<1>2. r \in Queues /\ r.frames = Tail(q.frames)
  BY <1>1 DEF GoodQueue, Queues
<1>3. /\ Len(Tail(q.frames)) = Len(q.frames) - 1
      /\ \A i \in 1..Len(Tail(q.frames)) : Tail(q.frames)[i] = q.frames[i + 1]
  BY <1>1
<1>4. Len(r.frames) <= Capacity /\ RepliesOf(r, c)
  BY <1>1, <1>2, <1>3, EndpointConstants DEF RepliesOf
<1> QED BY <1>1, <1>2, <1>4 DEF GoodQueue

LEMMA FrameKinds ==
  /\ Handshake \in Frames /\ Handshake.kind # "reply"
  /\ TopicFrame \in Frames /\ TopicFrame.kind # "reply"
  /\ \A c \in Connections : ReplyTo(c) \in Frames /\ ReplyTo(c).conn = c
BY DEF Handshake, TopicFrame, ReplyTo, Frames

LEMMA QueueNext ==
  ASSUME ConnectionTypes, ConnectionInv, QueueInv, [Next]_vars
  PROVE  QueueInv'
<1> DEFINE Same == queue' = queue /\ first' = first
<1>0. ASSUME Same PROVE QueueInv'
  BY <1>0 DEF QueueInv
<1>1. CASE AcceptorChecks \/ AcceptFails \/ StartThreads \/ Stop \/ Stopping
           \/ \E fd \in Descriptors : Accept(fd)
  BY <1>0, <1>1 DEF AcceptorChecks, AcceptFails, StartThreads, Accept, Stop,
       Stopping, Unlisten, JoinAcceptor, StopClears, StepOnly, EnderOnly
<1>2. CASE BeginConnection
  <2>1. newest \in Connections
    BY <1>2, EndpointConstants
       DEF BeginConnection, ConnectionTypes, ConnectionInv, DescriptorInv, Accepted
  <2>2. GoodQueue(Greeted, newest)
    BY EmptyGood, PushedGood, FrameKinds DEF Greeted
  <2> QED BY <1>2, <2>1, <2>2, QueueChange DEF BeginConnection, EnderOnly
<1>3. ASSUME NEW p \in Enders, EndConnection(p) PROVE QueueInv'
  <2>1. CASE Swap(p) \/ JoinReader(p) \/ JoinSender(p)
    BY <1>0, <2>1 DEF Swap, JoinReader, JoinSender, EnderOnly
  <2>2. CASE (Wake(p) \/ Close(p)) /\ ending = None
    BY <1>0, <2>2 DEF Wake, Close, EnderOnly
  <2>3. CASE (Wake(p) \/ Close(p)) /\ ending # None
    <3>1. ending \in Connections /\ GoodQueue(queue[ending], ending)
      BY <2>3 DEF ConnectionTypes, QueueInv
    <3>2. CASE Wake(p)
      <4>1. queue' = [queue EXCEPT ![ending] =
                        [queue[ending] EXCEPT !.closed = TRUE]]
        BY <2>3, <3>2 DEF Wake
      <4> QED BY <3>1, <3>2, <4>1, ClosedGood, QueueChange DEF Wake, EnderOnly
    <3>3. CASE Close(p)
      BY <2>3, <3>1, <3>3, EmptyGood, QueueChange DEF Close, EnderOnly
    <3> QED BY <2>3, <3>2, <3>3
  <2> QED BY <1>3, <2>1, <2>2, <2>3 DEF EndConnection
<1>4. CASE Reply
  <2>1. Joinable(reader) /\ reader.conn \in Connections
        /\ (current # None => reader.conn = current)
    BY <1>4 DEF Reply, ReaderAt, ConnectionTypes, Thread, ConnectionInv,
         EndingInv, ThreadInv, OfConnection, Joinable, None
  <2> QED BY <1>4, <2>1, FrameKinds, SendKeeps DEF Reply, ReaderOnly
<1>5. CASE ReaderCloses
  <2>1. reader.conn \in Connections /\ GoodQueue(queue[reader.conn], reader.conn)
    BY <1>5 DEF ReaderCloses, ReaderAt, ConnectionTypes, Thread, ConnectionInv,
         ThreadInv, OfConnection, Joinable, None, QueueInv
  <2>2. queue' = [queue EXCEPT ![reader.conn] =
                    [queue[reader.conn] EXCEPT !.closed = TRUE]]
    BY <1>5 DEF ReaderCloses
  <2> QED BY <1>5, <2>1, <2>2, ClosedGood, QueueChange DEF ReaderCloses, ReaderOnly
<1>6. CASE ReadEnds \/ ReaderReads \/ LostSync
           \/ \E t \in Topics : Publish(t) \/ Subscribe(t)
  BY <1>0, <1>6 DEF ReadEnds, ReaderReads, ReadNothing, ReadFrame, ReadData,
       LostSync, Publish, Subscribe, ReaderOnly
<1>7. CASE Pop
  <2>1. /\ sender.conn \in Connections
        /\ GoodQueue(queue[sender.conn], sender.conn)
        /\ queue[sender.conn].frames # <<>>
    BY <1>7 DEF Pop, ConnectionTypes, Thread, ConnectionInv, ThreadInv,
         OfConnection, Joinable, None, QueueInv
  <2>2. queue' = [queue EXCEPT ![sender.conn] =
                    [queue[sender.conn] EXCEPT !.frames = Tail(@)]]
    BY <1>7 DEF Pop
  <2>3. first' \in [Connections -> Frames \union {NoFrame}]
    BY <1>7, <2>1, PoppedGood DEF Pop, QueueInv
  <2> QED BY <2>1, <2>2, <2>3, PoppedGood DEF QueueInv
<1>8. CASE PopClosed \/ WriteFails \/ SenderShuts \/ Written
  BY <1>0, <1>8 DEF PopClosed, WriteFails, SenderShuts, Written
<1>9. CASE CallbackSends
  BY <1>9, FrameKinds, SendKeeps DEF CallbackSends
<1>10. CASE \/ \E t \in Topics : WorkerSteps(t) \/ CallbackStarts(t)
            \/ \E c \in Connections : UnityLeaves(c)
            \/ UNCHANGED vars
  BY <1>0, <1>10 DEF WorkerSteps, WorkerPops, WorkerPublishes, WorkerOnly,
       CallbackStarts, UnityLeaves, vars
<1> QED BY <1>1, <1>2, <1>3, <1>4, <1>5, <1>6, <1>7, <1>8, <1>9, <1>10
        DEF Next, AcceptorSteps, ReaderSettles, SenderGoesOn

\* The queues are bounded and well-formed in every reachable state.
THEOREM QueueInvariant ==
  Spec => [](ConnectionTypes /\ ConnectionInv /\ QueueInv)
<1>1. Init => ConnectionTypes /\ ConnectionInv /\ QueueInv
  BY InitConnection, EmptyGood DEF Init, QueueInv
<1>2. ConnectionTypes /\ ConnectionInv /\ QueueInv /\ [Next]_vars
      => (ConnectionTypes /\ ConnectionInv /\ QueueInv)'
  BY NextKeeps, QueueNext
<1> QED BY <1>1, <1>2, PTL DEF Spec

\* A reply never reaches a connection other than the one that asked, although
\* send_frame does not know whose frame it is given.
THEOREM Replies == Spec => []RepliesReachTheirConnection
<1>1. QueueInv => RepliesReachTheirConnection
  BY DEF QueueInv, GoodQueue, RepliesOf, RepliesReachTheirConnection
<1> QED BY <1>1, QueueInvariant, PTL

(***************************************************************************)
(* Types of what is left, and the registrations.                           *)
(***************************************************************************)
FlagTypes ==
  /\ stopping \in BOOLEAN /\ listening \in BOOLEAN /\ inFlight \in BOOLEAN
  /\ socket \in [Connections -> {"none", "open", "gone", "shut", "closed"}]

Workers == [conn : Connections \union {None}, pending : Seq(Messages)]

TopicTypes ==
  /\ pubs \in [Topics -> Workers]
  /\ \A t \in Topics : Len(pubs[t].pending) <= Depth
  /\ hand \in [Topics -> Messages] /\ received \in [Topics -> Messages]
  /\ given \in [Topics -> Messages] /\ published \in [Topics -> Messages]
  /\ subs \in [Topics -> Connections \union {None}]
  /\ lost \in Connections \union {None}

LEMMA FlagsNext ==
  ASSUME FlagTypes, [Next]_vars
  PROVE  FlagTypes'
<1> USE DEF FlagTypes
<1>1. CASE AcceptorSteps \/ \E fd \in Descriptors : Accept(fd)
  BY <1>1 DEF AcceptorSteps, AcceptorChecks, AcceptFails, BeginConnection,
       StartThreads, Accept, EnderOnly, StepOnly, connection, sockets
<1>2. CASE \E p \in Enders : EndConnection(p)
  BY <1>2 DEF EndConnection, Swap, Wake, JoinReader, JoinSender, Close, ShutDown,
       EnderOnly, StepOnly, connection, sockets
<1>3. CASE Stop \/ Stopping
  BY <1>3 DEF Stop, Stopping, Unlisten, JoinAcceptor, StopClears, EnderOnly,
       StepOnly, connection, sockets
<1>4. CASE ReadEnds \/ ReaderReads \/ ReaderSettles
  BY <1>4 DEF ReadEnds, ReaderReads, ReaderSettles, ReadNothing, ReadFrame,
       ReadData, Publish, Subscribe, Reply, LostSync, ReaderCloses, ReaderOnly,
       connection, sockets
<1>5. CASE SenderGoesOn \/ Written
  BY <1>5 DEF SenderGoesOn, Written, Pop, PopClosed, WriteFails, SenderShuts,
       SenderOnly, ShutDown
<1>6. CASE \/ \E t \in Topics : WorkerSteps(t) \/ CallbackStarts(t)
           \/ CallbackSends
           \/ \E c \in Connections : UnityLeaves(c)
           \/ UNCHANGED vars
  BY <1>6 DEF WorkerSteps, WorkerPops, WorkerPublishes, WorkerOnly,
       CallbackStarts, CallbackSends, UnityLeaves, vars, connection, sockets
<1> QED BY <1>1, <1>2, <1>3, <1>4, <1>5, <1>6 DEF Next

\* Steps that leave the topics and registrations alone.
LEMMA TopicsSame ==
  ASSUME \/ AcceptorSteps \/ \E fd \in Descriptors : Accept(fd)
         \/ \E p \in Enders : EndConnection(p)
         \/ Stop \/ Unlisten \/ JoinAcceptor
         \/ ReadEnds \/ ReadNothing \/ ReadFrame \/ Reply \/ ReaderCloses
         \/ SenderGoesOn \/ Written
         \/ \E t \in Topics : CallbackStarts(t)
         \/ CallbackSends
         \/ \E c \in Connections : UnityLeaves(c)
         \/ UNCHANGED vars
  PROVE  UNCHANGED <<pubs, hand, received, given, published, subs, lost>>
BY DEF AcceptorSteps, AcceptorChecks, AcceptFails, BeginConnection, StartThreads,
       Accept, EndConnection, Swap, Wake, JoinReader, JoinSender, Close, Stop,
       Unlisten, JoinAcceptor, ReadEnds, ReadNothing, ReadFrame, Reply,
       ReaderCloses, SenderGoesOn, Written, Pop, PopClosed, WriteFails,
       SenderShuts, SenderOnly, CallbackStarts, CallbackSends, UnityLeaves, vars,
       EnderOnly, StepOnly, topics

LEMMA TopicsNext ==
  ASSUME ConnectionTypes, ConnectionInv, TopicTypes, [Next]_vars
  PROVE  TopicTypes'
<1> USE EndpointConstants
<1>1. CASE UNCHANGED <<pubs, hand, received, given, published, subs, lost>>
  BY <1>1 DEF TopicTypes
<1>2. CASE StopClears
  BY <1>2 DEF StopClears, ClearRegistrations, TopicTypes, Workers, NoWorker,
       Messages, None
<1>3. CASE LostSync
  <2>1. lost' \in Connections \union {None}
    BY <1>3 DEF LostSync, ConnectionTypes, Thread
  <2> QED BY <1>3, <2>1 DEF LostSync, ClearRegistrations, TopicTypes, Workers,
            NoWorker, Messages, None
<1>4. ASSUME NEW t \in Topics, ReadData(t) PROVE TopicTypes'
  <2>1. received' \in [Topics -> Messages] /\ received'[t] \in Messages
    BY <1>4 DEF ReadData, TopicTypes, Messages
  <2>2. CASE pubs[t] = NoWorker
    BY <1>4, <2>1, <2>2 DEF ReadData, TopicTypes
  <2>3. CASE pubs[t] # NoWorker
    <3> DEFINE d == DropOldest(pubs[t].pending, Depth)
               g == Given(pubs[t].pending, received'[t])
    <3>1. pubs[t].pending \in Seq(Messages) /\ Len(pubs[t].pending) <= Depth
      BY DEF TopicTypes, Workers
    <3>2. d \in Seq(Messages) /\ Len(d) < Depth
      BY <3>1, DropOldestBound
    <3>3. g \in Seq(Messages) /\ Len(g) <= Depth
      BY <2>1, <3>2 DEF Given
    <3>4. pubs' = [pubs EXCEPT ![t] = [pubs[t] EXCEPT !.pending = g]]
          /\ given' = [given EXCEPT ![t] = received'[t]]
      BY <1>4, <2>3 DEF ReadData
    <3>5. [pubs[t] EXCEPT !.pending = g] \in Workers
          /\ [pubs[t] EXCEPT !.pending = g].pending = g
      BY <3>3 DEF TopicTypes, Workers
    <3>6. pubs' \in [Topics -> Workers]
          /\ \A u \in Topics : Len(pubs'[u].pending) <= Depth
      BY <3>3, <3>4, <3>5 DEF TopicTypes
    <3> QED BY <1>4, <2>1, <3>4, <3>6 DEF ReadData, TopicTypes
  <2> QED BY <2>2, <2>3
<1>5. ASSUME NEW t \in Topics, Publish(t) PROVE TopicTypes'
  <2>1. [conn |-> reader.conn, pending |-> <<>>] \in Workers
    BY DEF ConnectionTypes, Thread, Workers
  <2> QED BY <1>5, <2>1 DEF Publish, TopicTypes, Messages, None
<1>6. ASSUME NEW t \in Topics, Subscribe(t) PROVE TopicTypes'
  BY <1>6 DEF Subscribe, TopicTypes, ConnectionTypes, Thread
<1>7. ASSUME NEW t \in Topics, WorkerPops(t) PROVE TopicTypes'
  <2> DEFINE w == [pubs[t] EXCEPT !.pending = Tail(pubs[t].pending)]
  <2>1. /\ pubs[t].pending \in Seq(Messages) /\ pubs[t].pending # <<>>
        /\ Len(pubs[t].pending) <= Depth
    BY <1>7 DEF WorkerPops, TopicTypes, Workers
  <2>2. /\ Tail(pubs[t].pending) \in Seq(Messages)
        /\ Len(Tail(pubs[t].pending)) <= Depth
        /\ Head(pubs[t].pending) \in Messages
    BY <2>1
  <2>3. w \in Workers /\ w.pending = Tail(pubs[t].pending)
    BY <2>2 DEF TopicTypes, Workers
  <2>4. pubs' = [pubs EXCEPT ![t] = w]
    BY <1>7 DEF WorkerPops
  <2>5. pubs' \in [Topics -> Workers]
        /\ \A u \in Topics : Len(pubs'[u].pending) <= Depth
    BY <2>2, <2>3, <2>4 DEF TopicTypes
  <2> QED BY <1>7, <2>2, <2>5 DEF WorkerPops, WorkerOnly, TopicTypes
<1>8. ASSUME NEW t \in Topics, WorkerPublishes(t) PROVE TopicTypes'
  BY <1>8 DEF WorkerPublishes, WorkerOnly, TopicTypes, Messages, None
<1> QED BY <1>1, <1>2, <1>3, <1>4, <1>5, <1>6, <1>7, <1>8, TopicsSame
        DEF Next, Stopping, ReaderReads, ReaderSettles, WorkerSteps

\* A stream that lost sync is older than one being set up, and a reader that
\* can still register something belongs to a newer one.
LostInv ==
  /\ lost <= newest
  /\ Accepted \/ step["acceptor"] = "start" => lost < newest
  /\ reader.pc \in {"reading", "publish", "subscribe", "reply", "lost"}
       => lost < reader.conn
  /\ LostRegistrationsGone

\* Changing what a worker has pending changes nobody's registration.
LEMMA PendingOnly ==
  ASSUME TopicTypes, NEW t \in Topics, NEW g,
         pubs' = [pubs EXCEPT ![t].pending = g]
  PROVE  \A u \in Topics : pubs'[u].conn = pubs[u].conn
<1> DEFINE w == [pubs[t] EXCEPT !.pending = g]
<1>1. pubs[t] \in Workers /\ pubs' = [pubs EXCEPT ![t] = w]
  BY DEF TopicTypes
<1>2. w.conn = pubs[t].conn
  BY <1>1 DEF Workers
<1> HIDE DEF w
<1> QED BY <1>1, <1>2 DEF TopicTypes

LEMMA LostNext ==
  ASSUME ConnectionTypes, ConnectionInv, TopicTypes, LostInv, [Next]_vars
  PROVE  LostInv'
<1> USE EndpointConstants DEF None
<1>a. newest \in Nat /\ lost \in Nat /\ reader.conn \in Nat
      /\ \A t \in Topics : pubs[t].conn \in Nat /\ subs[t] \in Nat
  BY DEF ConnectionTypes, TopicTypes, Workers, Thread, Connections
<1>0. ASSUME UNCHANGED <<newest, lost, pubs, subs, reader, step>>
      PROVE  LostInv'
  BY <1>0 DEF LostInv, Accepted, LostRegistrationsGone
<1>1. CASE AcceptorChecks \/ AcceptFails \/ Stop \/ Unlisten \/ JoinAcceptor
           \/ BeginConnection
  BY <1>1, TopicsSame
     DEF AcceptorChecks, AcceptFails, Stop, Unlisten, JoinAcceptor, BeginConnection,
       EnderOnly, StepOnly, Goto, LostInv, Accepted, LostRegistrationsGone,
       ConnectionTypes, Enders, connection, sockets, topics
<1>2. CASE StartThreads
  BY <1>2 DEF StartThreads, EnderOnly, Goto, LostInv, Accepted,
       LostRegistrationsGone, ConnectionTypes, Enders, connection, sockets, topics
<1>3. ASSUME NEW fd \in Descriptors, Accept(fd) PROVE LostInv'
  BY <1>3, <1>a DEF Accept, EnderOnly, Goto, LostInv, Accepted,
       LostRegistrationsGone, ConnectionTypes, Enders, topics
<1>4. ASSUME NEW p \in Enders, EndConnection(p) PROVE LostInv'
  <2>1. UNCHANGED <<newest, lost, pubs, subs>>
    BY <1>4 DEF EndConnection, Swap, Wake, JoinReader, JoinSender, Close,
         EnderOnly, connection, sockets, topics
  <2>2. reader' = reader \/ reader' = NoThread
    BY <1>4 DEF EndConnection, Swap, Wake, JoinReader, JoinSender, Close
  <2>3. (Accepted \/ step["acceptor"] = "start")' =>
           Accepted \/ step["acceptor"] = "start"
    BY <1>4 DEF EndConnection, Swap, Wake, JoinReader, JoinSender, Close, Goto,
         ConnectionTypes, Enders, Accepted
  <2> QED BY <2>1, <2>2, <2>3 DEF LostInv, LostRegistrationsGone, NoThread
<1>5. CASE StopClears
  BY <1>5 DEF StopClears, ClearRegistrations, NoWorker, Goto, LostInv, Accepted,
       LostRegistrationsGone, ConnectionTypes, Enders, connection, sockets
<1>6. CASE LostSync
  <2>1. /\ Joinable(reader) /\ reader.conn # None
        /\ reader.conn \in {current, ending}
        /\ step["acceptor"] # "start"
    BY <1>6 DEF LostSync, ReaderAt, ConnectionInv, ThreadInv, OfConnection,
         Joinable, ReaderJoined
  <2>2. reader.conn <= newest /\ (Accepted => reader.conn # newest)
    BY <2>1 DEF ConnectionInv, DescriptorInv, Denoted
  <2>3. /\ UNCHANGED <<newest, step>> /\ lost' = reader.conn
        /\ reader' = [reader EXCEPT !.pc = "closing"]
        /\ pubs' = [t \in Topics |-> NoWorker] /\ subs' = [t \in Topics |-> None]
    BY <1>6 DEF LostSync, ReaderGoes, ReaderOnly, ClearRegistrations, connection,
         sockets
  <2>4. reader'.pc = "closing"
    BY <2>3 DEF ConnectionTypes, Thread
  <2>5. LostRegistrationsGone'
    BY <2>3 DEF LostRegistrationsGone, NoWorker
  <2> QED BY <1>a, <2>1, <2>2, <2>3, <2>4, <2>5 DEF LostInv, Accepted
<1>7. ASSUME ReadEnds \/ ReadNothing \/ ReadFrame \/ Reply \/ ReaderCloses
             \/ \E t \in Topics : ReadData(t) \/ Publish(t) \/ Subscribe(t)
      PROVE  LostInv'
  <2>1. /\ UNCHANGED <<newest, step, lost>> /\ reader'.conn = reader.conn
        /\ reader'.pc \in {"closing", "ended"} \/ lost < reader.conn
    BY <1>7 DEF ReadEnds, ReadNothing, ReadFrame, Reply, ReaderCloses, ReadData,
         Publish, Subscribe, ReaderOnly, ReaderAt, ReaderGoes, NextFrame, LostInv,
         ConnectionTypes, Thread, connection, sockets, topics
  <2>2. LostRegistrationsGone'
    <3>1. CASE UNCHANGED <<pubs, subs>>
      BY <2>1, <3>1 DEF LostInv, LostRegistrationsGone
    <3>2. ASSUME NEW t \in Topics, ReadData(t) PROVE LostRegistrationsGone'
      <4>1. UNCHANGED subs /\ \A u \in Topics : pubs'[u].conn = pubs[u].conn
        BY <3>2, PendingOnly DEF ReadData
      <4> QED BY <2>1, <4>1 DEF LostInv, LostRegistrationsGone
    <3>3. ASSUME NEW t \in Topics, Publish(t) PROVE LostRegistrationsGone'
      <4>1. lost < reader.conn
        BY <3>3 DEF Publish, ReaderAt, LostInv
      <4>2. UNCHANGED subs /\ \A u \in Topics :
              pubs'[u].conn = pubs[u].conn \/ pubs'[u].conn = reader.conn
        BY <3>3 DEF Publish, TopicTypes, Workers
      <4> QED BY <2>1, <4>1, <4>2 DEF LostInv, LostRegistrationsGone
    <3>4. ASSUME NEW t \in Topics, Subscribe(t) PROVE LostRegistrationsGone'
      <4>1. lost < reader.conn
        BY <3>4 DEF Subscribe, ReaderAt, LostInv
      <4> QED BY <2>1, <3>4, <4>1 DEF Subscribe, LostInv, LostRegistrationsGone,
                TopicTypes
    <3> QED BY <1>7, <3>1, <3>2, <3>3, <3>4
            DEF ReadEnds, ReadNothing, ReadFrame, Reply, ReaderCloses, topics
  <2> QED BY <2>1, <2>2 DEF LostInv, Accepted
<1>8. CASE \/ SenderGoesOn \/ Written
           \/ \E t \in Topics : CallbackStarts(t)
           \/ CallbackSends
           \/ \E c \in Connections : UnityLeaves(c)
           \/ UNCHANGED vars
  BY <1>0, <1>8 DEF SenderGoesOn, Written, Pop, PopClosed, WriteFails, SenderShuts,
       SenderOnly, CallbackStarts, CallbackSends, UnityLeaves, vars, threads,
       connection, sockets, topics
<1>9. ASSUME NEW t \in Topics, WorkerSteps(t) PROVE LostInv'
  <2>1. UNCHANGED <<newest, lost, subs, reader, step>>
    BY <1>9 DEF WorkerSteps, WorkerPops, WorkerPublishes, WorkerOnly, threads,
         connection, sockets
  <2>2. \A u \in Topics : pubs'[u].conn = pubs[u].conn
    BY <1>9, PendingOnly DEF WorkerSteps, WorkerPops, WorkerPublishes
  <2> QED BY <2>1, <2>2 DEF LostInv, Accepted, LostRegistrationsGone
<1>10. CASE AcceptorSteps \/ \E fd \in Descriptors : Accept(fd)
  BY <1>1, <1>2, <1>3, <1>10 DEF AcceptorSteps
<1>11. CASE Stop \/ Stopping
  BY <1>1, <1>5, <1>11 DEF Stopping
<1>12. CASE ReadEnds \/ ReaderReads \/ ReaderSettles
  BY <1>6, <1>7, <1>12 DEF ReaderReads, ReaderSettles
<1>13. CASE \E p \in Enders : EndConnection(p)
  BY <1>4, <1>13
<1>14. CASE \E t \in Topics : WorkerSteps(t) \/ CallbackStarts(t)
  BY <1>8, <1>9, <1>14
<1> QED BY <1>8, <1>10, <1>11, <1>12, <1>13, <1>14 DEF Next

EndpointInv ==
  /\ ConnectionTypes /\ FlagTypes /\ TopicTypes
  /\ ConnectionInv /\ QueueInv /\ LostInv

\* The whole inductive invariant.
THEOREM Invariant == Spec => []EndpointInv
<1>1. Init => EndpointInv
  <2>1. Init => FlagTypes
    BY DEF Init, FlagTypes
  <2>2. Init => TopicTypes
    BY EndpointConstants DEF Init, TopicTypes, Workers, NoWorker, Messages, None
  <2>3. Init => QueueInv
    BY EmptyGood DEF Init, QueueInv
  <2>4. Init => LostInv
    BY DEF Init, LostInv, LostRegistrationsGone, Accepted, NoThread, NoWorker, None
  <2> QED BY <2>1, <2>2, <2>3, <2>4, InitConnection DEF EndpointInv
<1>2. EndpointInv /\ [Next]_vars => EndpointInv'
  BY NextKeeps, FlagsNext, TopicsNext, QueueNext, LostNext DEF EndpointInv
<1> QED BY <1>1, <1>2, PTL DEF Spec

\* Every variable keeps its range; both kinds of queue keep their bound.
THEOREM TypeCorrect == Spec => []TypeOK
<1>1. EndpointInv => TypeOK
  BY DEF EndpointInv, ConnectionTypes, FlagTypes, TopicTypes, QueueInv, GoodQueue,
         Queues, Workers, TypeOK
<1> QED BY <1>1, Invariant, PTL

\* Nothing registered from a stream that lost sync, or before it, survives it.
THEOREM RegistrationsGone == Spec => []LostRegistrationsGone
<1>1. EndpointInv => LostRegistrationsGone
  BY DEF EndpointInv, LostInv
<1> QED BY <1>1, Invariant, PTL

(***************************************************************************)
(* The greeting.  The handshake is at the head of a queue until the sender *)
(* takes it or the queue overflows; only the current connection's queue    *)
(* takes frames, and until something was written it still holds one.       *)
(***************************************************************************)
HeadIsHandshake(c) ==
  first[c] = NoFrame /\ ~queue[c].dropped /\ queue[c].frames # <<>>
    => Head(queue[c].frames) = Handshake

Greets(c) ==
  first[c] \in {NoFrame, Handshake} \/ queue[c].dropped \/ socket[c] = "closed"

GreetInv ==
  /\ \A c \in Connections : HeadIsHandshake(c) /\ Greets(c)
  /\ current # None /\ first[current] = NoFrame /\ ~queue[current].dropped
       => queue[current].frames # <<>>
  /\ \A c \in Connections :
       first[c] # NoFrame => c <= newest /\ (Accepted => c # newest)
  /\ \A c \in {current, ending} : c # None => socket[c] # "closed"
  /\ Accepted => socket[newest] # "closed"

\* Steps that leave the queues alone, and the connections too.
GreetSame ==
  /\ UNCHANGED <<queue, first, newest, current, socket>>
  /\ ending' \in {ending, current, None}
  /\ Accepted' => Accepted

LEMMA GreetSameKeeps ==
  ASSUME ConnectionTypes, GreetInv, GreetSame
  PROVE  GreetInv'
BY DEF GreetInv, GreetSame, HeadIsHandshake, Greets

\* A push to a queue that has its handshake leaves it where it is.
LEMMA PushedGreets ==
  ASSUME NEW c, NEW q, GoodQueue(q, c), NEW f \in Frames
  PROVE  /\ ~Pushed(q, f).dropped => ~q.dropped
         /\ q.dropped => Pushed(q, f).dropped
         /\ q.frames # <<>> => Pushed(q, f).frames # <<>>
         /\ ~Pushed(q, f).dropped /\ q.frames # <<>>
              => Head(Pushed(q, f).frames) = Head(q.frames)
<1>1. CASE q.closed
  BY <1>1 DEF Pushed
<1>2. CASE ~q.closed
  <2> DEFINE d == DropOldest(q.frames, Capacity)
             full == Len(q.frames) >= Capacity
  <2>1. q.frames \in Seq(Frames) /\ Len(q.frames) <= Capacity /\ q.dropped \in BOOLEAN
    BY DEF GoodQueue, Queues
  <2>2. d \in Seq(Frames)
    BY <2>1, DropOldestBound, EndpointConstants
  <2>3. /\ Pushed(q, f).frames = Append(d, f)
        /\ Pushed(q, f).dropped = (q.dropped \/ full)
    BY <1>2 DEF Pushed, GoodQueue, Queues
  <2>4. Append(d, f) # <<>>
    <3>1. Len(Append(d, f)) = Len(d) + 1 /\ Len(d) \in Nat
      BY <2>2
    <3>2. Append(d, f) = <<>> => Len(Append(d, f)) = 0
      OBVIOUS
    <3> QED BY <3>1, <3>2
  <2>5. ASSUME ~full, q.frames # <<>>
        PROVE  Head(Append(d, f)) = Head(q.frames)
    <3>1. d = q.frames
      BY <2>5 DEF DropOldest
    <3> QED BY <2>1, <2>5, <3>1
  <2> HIDE DEF d, full
  <2> QED BY <2>1, <2>3, <2>4, <2>5
<1> QED BY <1>1, <1>2

LEMMA SendGreets ==
  ASSUME ConnectionTypes, QueueInv, GreetInv, NEW f \in Frames, SendFrame(f),
         UNCHANGED <<first, newest, current, ending, socket, step>>
  PROVE  GreetInv'
<1>1. CASE current = None
  <2>1. GreetSame
    BY <1>1 DEF SendFrame, GreetSame, Accepted
  <2> QED BY <2>1, GreetSameKeeps
<1>2. CASE current # None
  <2> DEFINE q == queue[current]
             r == Pushed(q, f)
  <2>1. current \in Connections /\ GoodQueue(q, current)
    BY <1>2 DEF ConnectionTypes, QueueInv
  <2>2. /\ ~r.dropped => ~q.dropped
        /\ q.dropped => r.dropped
        /\ q.frames # <<>> => r.frames # <<>>
        /\ ~r.dropped /\ q.frames # <<>> => Head(r.frames) = Head(q.frames)
    BY <2>1, PushedGreets
  <2>3. /\ queue'[current] = r
        /\ \A c \in Connections : c # current => queue'[c] = queue[c]
    BY <1>2, <2>1 DEF SendFrame, QueueInv
  <2>4. first[current] = NoFrame /\ ~q.dropped => q.frames # <<>>
    BY <1>2 DEF GreetInv
  <2>5. HeadIsHandshake(current) /\ Greets(current)
    BY <2>1 DEF GreetInv
  <2> HIDE DEF r
  <2>6. HeadIsHandshake(current)' /\ Greets(current)'
    BY <2>2, <2>3, <2>4, <2>5 DEF HeadIsHandshake, Greets
  <2>7. \A c \in Connections : HeadIsHandshake(c)' /\ Greets(c)'
    BY <2>3, <2>6 DEF GreetInv, HeadIsHandshake, Greets
  <2>8. first[current] = NoFrame /\ ~queue'[current].dropped
          => queue'[current].frames # <<>>
    BY <2>2, <2>3, <2>4
  <2> QED BY <2>7, <2>8 DEF GreetInv, Accepted
<1> QED BY <1>1, <1>2

\* Closing a queue changes neither its frames nor whether it overflowed.
LEMMA CloseGreets ==
  ASSUME QueueInv, GreetInv, NEW c \in Connections,
         queue' = [queue EXCEPT ![c].closed = TRUE],
         UNCHANGED <<first, newest, current, ending>>,
         socket' = socket \/ (socket'[c] # "closed" /\ \A b \in Connections :
                                b # c => socket'[b] = socket[b]),
         c \in {current, ending}, {current, ending, newest} \subseteq Nat,
         current # None => current \in Connections,
         ending # None => ending \in Connections,
         Accepted => newest \in Connections,
         Accepted' => Accepted
  PROVE  GreetInv'
<1>1. \A b \in Connections : /\ queue'[b].frames = queue[b].frames
                             /\ queue'[b].dropped = queue[b].dropped
  BY DEF QueueInv, GoodQueue, Queues
<1>2. \A b \in Connections :
        b # None /\ socket[b] # "closed" => socket'[b] # "closed"
  OBVIOUS
<1>3. socket[c] # "closed"
  BY DEF GreetInv, Connections, None
<1>4. \A b \in Connections : socket[b] = "closed" => socket'[b] = "closed"
  BY <1>3
<1>5. \A b \in Connections : HeadIsHandshake(b)' /\ Greets(b)'
  BY <1>1, <1>4 DEF GreetInv, HeadIsHandshake, Greets
<1> QED BY <1>1, <1>2, <1>5 DEF GreetInv, Connections, None

LEMMA GreetNext ==
  ASSUME ConnectionTypes, FlagTypes, ConnectionInv, QueueInv, GreetInv, [Next]_vars
  PROVE  GreetInv'
<1> USE EndpointConstants
<1>1. CASE GreetSame
  BY <1>1, GreetSameKeeps
<1>2. CASE AcceptorChecks \/ AcceptFails \/ StartThreads
  BY <1>2, GreetSameKeeps DEF AcceptorChecks, AcceptFails, StartThreads, StepOnly,
     EnderOnly, Goto, GreetSame, Accepted, ConnectionTypes, Enders, connection, sockets
<1>3. ASSUME NEW fd \in Descriptors, Accept(fd) PROVE GreetInv'
  <2>1. newest' = newest + 1 /\ newest' \in Connections /\ newest \in Nat
    BY <1>3 DEF Accept, ConnectionTypes, Connections, None
  <2>2. /\ socket' = [socket EXCEPT ![newest'] = "open"]
        /\ UNCHANGED <<queue, first, current, ending>>
    BY <1>3 DEF Accept, EnderOnly
  <2>3. first[newest'] = NoFrame /\ newest' # current /\ newest' # ending
    BY <2>1 DEF GreetInv, ConnectionInv, DescriptorInv, Denoted, None
  <2>4. socket'[newest'] = "open" /\ \A c \in Connections :
          c # newest' => socket'[c] = socket[c]
    BY <2>1, <2>2 DEF FlagTypes
  <2>5. \A c \in Connections : HeadIsHandshake(c)' /\ Greets(c)'
    BY <2>2, <2>3, <2>4 DEF GreetInv, HeadIsHandshake, Greets
  <2>6. \A c \in Connections :
          first[c] # NoFrame => c <= newest' /\ c # newest'
    BY <2>1, <2>3 DEF GreetInv, Connections
  <2>7. \A c \in {current, ending} : c # None => socket'[c] # "closed"
    BY <2>3, <2>4 DEF GreetInv, ConnectionTypes
  <2> QED BY <2>2, <2>4, <2>5, <2>6, <2>7 DEF GreetInv
<1>4. CASE BeginConnection
  <2>1. /\ newest \in Connections /\ Accepted
        /\ ending = None \/ ending # newest
    BY <1>4 DEF BeginConnection, ConnectionTypes, ConnectionInv, DescriptorInv,
         Accepted
  <2>2. /\ queue' = [queue EXCEPT ![newest] = Greeted] /\ current' = newest
        /\ UNCHANGED <<first, newest, ending, socket>>
        /\ ~Accepted'
    BY <1>4 DEF BeginConnection, EnderOnly, sockets, Goto, Accepted,
         ConnectionTypes, Enders
  <2>3. first[newest] = NoFrame /\ socket[newest] # "closed"
    BY <2>1 DEF GreetInv
  <2>4. Greeted.frames # <<>> /\ Head(Greeted.frames) = Handshake
    BY DEF Greeted, Pushed, NoFrames, DropOldest
  <2>5. /\ queue'[newest] = Greeted
        /\ \A c \in Connections : c # newest => queue'[c] = queue[c]
    BY <2>1, <2>2 DEF QueueInv
  <2> HIDE DEF Greeted
  <2>6. \A c \in Connections : HeadIsHandshake(c)' /\ Greets(c)'
    BY <2>2, <2>3, <2>4, <2>5 DEF GreetInv, HeadIsHandshake, Greets
  <2> QED BY <2>2, <2>3, <2>4, <2>5, <2>6 DEF GreetInv
<1>5. ASSUME NEW p \in Enders, EndConnection(p) PROVE GreetInv'
  <2>0. Accepted' => Accepted \/ Close(p)
    BY <1>5 DEF EndConnection, Swap, Wake, JoinReader, JoinSender, Goto, Accepted,
         ConnectionTypes, Enders
  <2>1. CASE JoinReader(p) \/ JoinSender(p)
    BY <1>1, <2>1 DEF JoinReader, JoinSender, EnderOnly, Goto, GreetSame, Accepted,
         ConnectionTypes, Enders, connection, sockets
  <2>2. CASE Swap(p)
    <3>1. /\ UNCHANGED <<queue, first, newest, socket>>
          /\ ending' = current /\ current' = None /\ (Accepted' => Accepted)
      BY <2>2 DEF Swap, EnderOnly, Goto, Accepted, ConnectionTypes, Enders, sockets
    <3> QED BY <3>1 DEF GreetInv, HeadIsHandshake, Greets
  <2>3. CASE Wake(p)
    <3>1. /\ UNCHANGED <<first, newest, current, ending>> /\ (Accepted' => Accepted)
      BY <2>3 DEF Wake, EnderOnly, Goto, Accepted, ConnectionTypes, Enders
    <3>2. CASE ending = None
      BY <1>1, <2>3, <3>1, <3>2 DEF Wake, GreetSame
    <3>3. CASE ending # None
      <4>1. /\ ending \in Connections /\ descriptor[ending] \in Descriptors
            /\ fdOf[descriptor[ending]] = ending
        BY <3>3 DEF ConnectionTypes, ConnectionInv, DescriptorInv, Denoted
      <4>2. /\ queue' = [queue EXCEPT ![ending].closed = TRUE]
            /\ socket' = [socket EXCEPT ![ending] = "shut"]
        BY <2>3, <3>3, <4>1 DEF Wake, ShutDown
      <4>3. socket'[ending] # "closed" /\ \A b \in Connections :
              b # ending => socket'[b] = socket[b]
        BY <4>1, <4>2 DEF FlagTypes
      <4>4. /\ {current, ending, newest} \subseteq Nat
            /\ current # None => current \in Connections
            /\ Accepted => newest \in Connections
        BY DEF ConnectionTypes, Connections, None, ConnectionInv, DescriptorInv
      <4> QED BY <3>1, <4>1, <4>2, <4>3, <4>4, CloseGreets
    <3> QED BY <3>2, <3>3
  <2>4. CASE Close(p)
    <3>1. /\ UNCHANGED <<first, newest, current>> /\ ending' = None
          /\ current = None
          /\ Accepted' => Accepted
      BY <2>4 DEF Close, EnderOnly, Goto, Accepted, ConnectionTypes, Enders,
           ConnectionInv, EndingInv, Ending
    <3>2. CASE ending = None
      BY <1>1, <2>4, <3>1, <3>2 DEF Close, GreetSame
    <3>3. CASE ending # None
      <4>1. /\ ending \in Connections
            /\ queue' = [queue EXCEPT ![ending] = NoFrames]
            /\ socket' = [socket EXCEPT ![ending] = "closed"]
        BY <2>4, <3>3 DEF Close, ConnectionTypes
      <4>2. /\ queue'[ending].frames = <<>> /\ socket'[ending] = "closed"
            /\ \A c \in Connections : c # ending =>
                 queue'[c] = queue[c] /\ socket'[c] = socket[c]
        BY <4>1 DEF QueueInv, FlagTypes, NoFrames
      <4>3. \A c \in Connections : HeadIsHandshake(c)' /\ Greets(c)'
        BY <3>1, <4>2 DEF GreetInv, HeadIsHandshake, Greets
      <4>4. Accepted => newest # ending /\ newest \in Connections
        BY DEF ConnectionInv, DescriptorInv, ConnectionTypes
      <4> QED BY <3>1, <4>2, <4>3, <4>4 DEF GreetInv
    <3> QED BY <3>2, <3>3
  <2> QED BY <1>5, <2>1, <2>2, <2>3, <2>4 DEF EndConnection
<1>6. CASE Stop \/ Stopping
  BY <1>1, <1>6 DEF Stop, Stopping, Unlisten, JoinAcceptor, StopClears, StepOnly,
     EnderOnly, Goto, GreetSame, Accepted, ConnectionTypes, Enders, connection, sockets
<1>7. CASE Reply
  <2>1. ReplyTo(reader.conn) \in Frames
    <3>1. reader.conn \in Connections
      BY <1>7 DEF Reply, ReaderAt, ConnectionTypes, Thread, ConnectionInv,
           ThreadInv, OfConnection, Joinable, None
    <3> QED BY <3>1, FrameKinds
  <2> QED BY <1>7, <2>1, SendGreets DEF Reply, ReaderOnly, connection, sockets
<1>8. CASE ReaderCloses
  <2>1. reader.conn \in Connections /\ reader.conn \in {current, ending}
    BY <1>8 DEF ReaderCloses, ReaderAt, ConnectionTypes, Thread, ConnectionInv,
         ThreadInv, OfConnection, Joinable, None
  <2>2. /\ {current, ending, newest} \subseteq Nat
        /\ current # None => current \in Connections
        /\ ending # None => ending \in Connections
        /\ Accepted => newest \in Connections
    BY DEF ConnectionTypes, Connections, None, ConnectionInv, DescriptorInv
  <2>3. /\ queue' = [queue EXCEPT ![reader.conn].closed = TRUE]
        /\ UNCHANGED <<first, newest, current, ending, socket, step>>
    BY <1>8 DEF ReaderCloses, ReaderOnly, connection, sockets
  <2> QED BY <2>1, <2>2, <2>3, CloseGreets DEF Accepted
<1>9. CASE ReadEnds \/ ReaderReads \/ LostSync
           \/ \E t \in Topics : Publish(t) \/ Subscribe(t)
  BY <1>1, <1>9 DEF ReadEnds, ReaderReads, ReadNothing, ReadFrame, ReadData,
       LostSync, Publish, Subscribe, ReaderOnly, GreetSame, Accepted, connection,
       sockets
<1>10. CASE Pop
  <2>0. PICK c : c = sender.conn
    OBVIOUS
  <2>1. /\ c \in Connections /\ c \in {current, ending}
        /\ GoodQueue(queue[c], c) /\ queue[c].frames # <<>>
    BY <1>10, <2>0 DEF Pop, ConnectionTypes, Thread, ConnectionInv, ThreadInv,
         OfConnection, Joinable, None, QueueInv
  <2>2. /\ queue' = [queue EXCEPT ![c] = [queue[c] EXCEPT !.frames = Tail(@)]]
        /\ first' = [first EXCEPT ![c] =
                       IF @ = NoFrame THEN Head(queue[c].frames) ELSE @]
        /\ UNCHANGED <<newest, current, ending, socket, step>>
    BY <1>10, <2>0 DEF Pop, SenderOnly
  <2>3. /\ queue'[c].dropped = queue[c].dropped
        /\ \A b \in Connections : b # c => queue'[b] = queue[b] /\ first'[b] = first[b]
        /\ first'[c] = IF first[c] = NoFrame THEN Head(queue[c].frames) ELSE first[c]
    BY <2>1, <2>2 DEF QueueInv, GoodQueue, Queues
  <2>4. first'[c] # NoFrame
    <3>1. Head(queue[c].frames) \in Frames
      BY <2>1 DEF GoodQueue, Queues
    <3>2. NoFrame \notin Frames
      BY DEF NoFrame, Frames, Handshake, TopicFrame, ReplyTo
    <3> QED BY <2>3, <3>1, <3>2
  <2>5. HeadIsHandshake(c) /\ Greets(c)
    BY <2>1 DEF GreetInv
  <2>6. HeadIsHandshake(c)' /\ Greets(c)'
    BY <2>1, <2>2, <2>3, <2>4, <2>5 DEF HeadIsHandshake, Greets
  <2>7. \A b \in Connections : HeadIsHandshake(b)' /\ Greets(b)'
    BY <2>2, <2>3, <2>6 DEF GreetInv, HeadIsHandshake, Greets
  <2>8. c <= newest /\ (Accepted => c # newest)
    BY <2>1 DEF ConnectionInv, DescriptorInv, Denoted, Connections, None
  <2>9. current # None /\ first'[current] = NoFrame /\ ~queue'[current].dropped
          => queue'[current].frames # <<>>
    BY <2>1, <2>2, <2>3, <2>4 DEF GreetInv, ConnectionTypes
  <2> QED BY <2>2, <2>3, <2>7, <2>8, <2>9 DEF GreetInv, Accepted
<1>11. CASE SenderShuts
  <2>1. /\ sender.conn \in Connections /\ sender.conn \in {current, ending}
        /\ sender.fd = descriptor[sender.conn]
        /\ sender.fd \in Descriptors /\ fdOf[sender.fd] = sender.conn
    BY <1>11 DEF SenderShuts, ConnectionTypes, Thread, ConnectionInv, ThreadInv,
         OfConnection, Joinable, None, DescriptorInv, Denoted
  <2>2. /\ socket' = [socket EXCEPT ![sender.conn] = "shut"]
        /\ UNCHANGED <<queue, first, newest, current, ending, step>>
    BY <1>11, <2>1 DEF SenderShuts, ShutDown, SenderOnly, Connections, None
  <2>3. socket[sender.conn] # "closed"
    BY <2>1 DEF GreetInv, Connections, None
  <2>4. \A c \in Connections : socket'[c] = "closed" <=> socket[c] = "closed"
    BY <2>1, <2>2, <2>3 DEF FlagTypes
  <2>5. /\ current # None => current \in Connections
        /\ ending # None => ending \in Connections
        /\ Accepted => newest \in Connections
    BY DEF ConnectionTypes, ConnectionInv, DescriptorInv
  <2> QED BY <2>2, <2>4, <2>5 DEF GreetInv, HeadIsHandshake, Greets, Accepted
<1>12. CASE PopClosed \/ WriteFails \/ Written
  BY <1>1, <1>12 DEF PopClosed, WriteFails, Written, SenderOnly, GreetSame, Accepted
<1>13. CASE CallbackSends
  BY <1>13, FrameKinds, SendGreets DEF CallbackSends, threads, connection, sockets
<1>14. CASE \E c \in Connections : UnityLeaves(c)
  <2>1. PICK c \in Connections : UnityLeaves(c)
    BY <1>14
  <2>2. \A b \in Connections : socket'[b] = "closed" <=> socket[b] = "closed"
    BY <2>1 DEF UnityLeaves, FlagTypes
  <2>3. /\ current # None => current \in Connections
        /\ ending # None => ending \in Connections
        /\ Accepted => newest \in Connections
    BY DEF ConnectionTypes, ConnectionInv, DescriptorInv
  <2>4. UNCHANGED <<queue, first, newest, current, ending, step>>
    BY <2>1 DEF UnityLeaves, threads
  <2> QED BY <2>2, <2>3, <2>4 DEF GreetInv, HeadIsHandshake, Greets, Accepted
<1>15. CASE \/ \E t \in Topics : WorkerSteps(t) \/ CallbackStarts(t)
            \/ UNCHANGED vars
  BY <1>1, <1>15 DEF WorkerSteps, WorkerPops, WorkerPublishes, WorkerOnly,
       CallbackStarts, vars, GreetSame, Accepted, threads, connection, sockets
<1> QED BY <1>2, <1>3, <1>4, <1>5, <1>6, <1>7, <1>8, <1>9, <1>10, <1>11, <1>12,
           <1>13, <1>14, <1>15
        DEF Next, AcceptorSteps, ReaderSettles, SenderGoesOn

\* Unity is greeted first on every connection: whoever sends while the
\* connection is set up, the handshake is what the sender takes first, unless
\* the queue overflowed before.
THEOREM Greeting == Spec => []HandshakeFirst
<1>1. Init => GreetInv
  BY DEF Init, GreetInv, HeadIsHandshake, Greets, Accepted, NoFrames, None
<1>2. EndpointInv /\ GreetInv /\ [Next]_vars => GreetInv'
  BY GreetNext DEF EndpointInv
<1>3. GreetInv => HandshakeFirst
  BY DEF GreetInv, Greets, HandshakeFirst
<1> QED BY <1>1, <1>2, <1>3, Invariant, PTL DEF Spec

(***************************************************************************)
(* The messages of a topic.  What a worker has pending is in the order     *)
(* Unity sent it, is newer than what its thread has in hand or published,  *)
(* and ends with the newest one it was given.                              *)
(***************************************************************************)
Increasing(s) == \A i, j \in 1..Len(s) : i < j => s[i] < s[j]
Above(s, m) == \A i \in 1..Len(s) : m < s[i]
UpTo(s, m) == \A i \in 1..Len(s) : s[i] <= m

\* The newest message given to t's worker is the last of s, or taken already.
Newest(t, s) ==
  given[t] # None =>
    \/ s # <<>> /\ s[Len(s)] = given[t]
    \/ s = <<>> /\ given[t] = IF hand[t] # None THEN hand[t] ELSE published[t]

OrderOf(t) ==
  /\ Increasing(pubs[t].pending)
  /\ Above(pubs[t].pending, published[t])
  /\ Above(pubs[t].pending, hand[t])
  /\ UpTo(pubs[t].pending, received[t])
  /\ published[t] <= received[t] /\ hand[t] <= received[t]
  /\ hand[t] # None => published[t] < hand[t]
  /\ Newest(t, pubs[t].pending)

OrderInv == \A t \in Topics : OrderOf(t)

\* Dropping the oldest keeps the order, and what the entries lie between.
LEMMA DropOldestOrder ==
  ASSUME NEW s \in Seq(Messages), Len(s) <= Depth, Increasing(s),
         NEW lo, Above(s, lo), NEW hi, UpTo(s, hi)
  PROVE  LET d == DropOldest(s, Depth)
         IN d \in Seq(Messages) /\ Increasing(d) /\ Above(d, lo) /\ UpTo(d, hi)
<1>1. CASE Len(s) >= Depth
  <2>1. /\ Tail(s) \in Seq(Messages) /\ Len(Tail(s)) = Len(s) - 1 /\ Len(s) \in Nat
        /\ \A i \in 1..Len(Tail(s)) : Tail(s)[i] = s[i + 1] /\ i + 1 \in 1..Len(s)
    BY <1>1, EndpointConstants
  <2>2. Increasing(Tail(s))
    BY <2>1 DEF Increasing
  <2> QED BY <1>1, <2>1, <2>2 DEF DropOldest, Above, UpTo
<1>2. CASE ~(Len(s) >= Depth)
  BY <1>2 DEF DropOldest
<1> QED BY <1>1, <1>2

\* The newest message goes last, and the order stays.
LEMMA GivenOrder ==
  ASSUME NEW s \in Seq(Messages), Len(s) <= Depth, Increasing(s),
         NEW lo \in Nat, Above(s, lo), NEW hi \in Nat, UpTo(s, hi),
         NEW m \in Messages, hi < m, lo < m
  PROVE  LET g == Given(s, m)
         IN /\ g \in Seq(Messages) /\ g # <<>> /\ g[Len(g)] = m
            /\ Increasing(g) /\ Above(g, lo) /\ UpTo(g, m)
<1> DEFINE d == DropOldest(s, Depth)
           g == Append(d, m)
<1>1. d \in Seq(Messages) /\ Increasing(d) /\ Above(d, lo) /\ UpTo(d, hi)
  BY DropOldestOrder
<1> HIDE DEF d
<1>2. /\ g \in Seq(Messages) /\ Len(g) = Len(d) + 1 /\ Len(d) \in Nat
      /\ g[Len(d) + 1] = m
      /\ \A i \in 1..Len(d) : g[i] = d[i] /\ d[i] \in Messages
  BY <1>1
<1>3. g # <<>>
  <2>1. g = <<>> => Len(g) = 0
    OBVIOUS
  <2> QED BY <1>2, <2>1
<1> HIDE DEF g
<1>4. m \in Nat /\ \A i \in 1..Len(d) : d[i] \in Nat
  BY <1>2 DEF Messages
<1>5. Increasing(g)
  <2> SUFFICES ASSUME NEW i \in 1..Len(g), NEW j \in 1..Len(g), i < j
               PROVE  g[i] < g[j]
    BY DEF Increasing
  <2>1. i \in 1..Len(d)
    BY <1>2
  <2>2. CASE j = Len(d) + 1
    BY <1>1, <1>2, <1>4, <2>1, <2>2 DEF UpTo
  <2>3. CASE j # Len(d) + 1
    <3>1. j \in 1..Len(d)
      BY <1>2, <2>3
    <3> QED BY <1>1, <1>2, <2>1, <3>1 DEF Increasing
  <2> QED BY <2>2, <2>3
<1>6. ASSUME NEW i \in 1..Len(g) PROVE lo < g[i] /\ g[i] <= m
  <2>1. CASE i = Len(d) + 1
    BY <1>2, <1>4, <2>1
  <2>2. CASE i # Len(d) + 1
    <3>1. i \in 1..Len(d)
      BY <1>2, <2>2
    <3> QED BY <1>1, <1>2, <1>4, <3>1 DEF Above, UpTo
  <2> QED BY <2>1, <2>2
<1>7. Above(g, lo) /\ UpTo(g, m)
  BY <1>6 DEF Above, UpTo
<1>8. Given(s, m) = g
  BY DEF Given, d, g
<1> QED BY <1>2, <1>3, <1>5, <1>7, <1>8

LEMMA NothingPending ==
  Increasing(<<>>) /\ \A m : Above(<<>>, m) /\ UpTo(<<>>, m)
<1>1. 1..Len(<<>>) = {}
  OBVIOUS
<1> QED BY <1>1 DEF Increasing, Above, UpTo

\* What is in hand is published later than what was published before it, and is
\* older than everything that is pending.
LEMMA OrderNext ==
  ASSUME TopicTypes, TopicTypes', OrderInv, [Next]_vars
  PROVE  OrderInv' /\ \A t \in Topics : published'[t] >= published[t]
<1> DEFINE Kept == OrderInv' /\ \A t \in Topics : published'[t] >= published[t]
           Same(u) == /\ pubs'[u].pending = pubs[u].pending
                      /\ hand'[u] = hand[u] /\ received'[u] = received[u]
                      /\ given'[u] = given[u] /\ published'[u] = published[u]
<1> USE DEF None
<1>a. \A t \in Topics : /\ pubs[t] \in Workers /\ pubs[t].pending \in Seq(Messages)
                        /\ Len(pubs[t].pending) <= Depth
                        /\ hand[t] \in Nat /\ received[t] \in Nat
                        /\ given[t] \in Nat /\ published[t] \in Nat
  BY DEF TopicTypes, Workers, Messages
<1>d. \A t \in Topics : \A i \in 1..Len(pubs[t].pending) :
        pubs[t].pending[i] \in Nat
  <2>1. \A t \in Topics : \A i \in 1..Len(pubs[t].pending) :
          pubs[t].pending[i] \in Messages
    BY <1>a
  <2> QED BY <2>1 DEF Messages
<1>b. \A u \in Topics : Same(u) => OrderOf(u)' /\ published'[u] >= published[u]
  BY <1>a DEF OrderInv, OrderOf, Newest
<1>c. ASSUME NEW t \in Topics, \A u \in Topics : u # t => Same(u),
             OrderOf(t)', published'[t] >= published[t]
      PROVE  Kept
  BY <1>b, <1>c DEF OrderInv
<1> HIDE DEF Same
<1>1. CASE UNCHANGED <<pubs, hand, received, given, published>>
  BY <1>1, <1>b DEF Same, OrderInv
<1>2. CASE ClearRegistrations /\ UNCHANGED <<hand, received, published>>
  <2>1. \A t \in Topics :
          /\ pubs'[t].pending = <<>> /\ given'[t] = None /\ hand[t] = None
          /\ hand'[t] = hand[t] /\ received'[t] = received[t]
          /\ published'[t] = published[t]
    BY <1>2 DEF ClearRegistrations, NoWorker
  <2>2. \A t \in Topics : OrderOf(t)' /\ published'[t] >= published[t]
    BY <1>a, <2>1, NothingPending DEF OrderInv, OrderOf, Newest
  <2> QED BY <2>2 DEF OrderInv
<1>3. ASSUME NEW t \in Topics, ReadData(t) PROVE Kept
  <2>1. /\ received'[t] = received[t] + 1 /\ received'[t] \in Messages
        /\ \A u \in Topics : u # t => received'[u] = received[u]
        /\ UNCHANGED <<hand, published>>
    BY <1>3 DEF ReadData, TopicTypes
  <2>2. CASE pubs[t] = NoWorker
    <3>1. UNCHANGED <<pubs, given>>
      BY <1>3, <2>2 DEF ReadData
    <3>2. \A u \in Topics : u # t => Same(u)
      BY <2>1, <3>1 DEF Same
    <3>3. OrderOf(t)
      BY DEF OrderInv
    <3>4. pubs[t].pending = <<>>
      BY <2>2 DEF NoWorker
    <3>5. OrderOf(t)' /\ published'[t] >= published[t]
      BY <1>a, <2>1, <3>1, <3>3, <3>4, NothingPending DEF OrderOf, Newest
    <3> QED BY <1>c, <3>2, <3>5
  <2>3. CASE pubs[t] # NoWorker
    <3> DEFINE s == pubs[t].pending
               g == Given(s, received'[t])
    <3>1. /\ pubs' = [pubs EXCEPT ![t].pending = g]
          /\ given' = [given EXCEPT ![t] = received'[t]]
      BY <1>3, <2>3 DEF ReadData
    <3>2. OrderOf(t)
      BY DEF OrderInv
    <3>3. /\ s \in Seq(Messages) /\ Len(s) <= Depth /\ Increasing(s)
          /\ Above(s, published[t]) /\ Above(s, hand[t]) /\ UpTo(s, received[t])
          /\ received[t] < received'[t] /\ published[t] < received'[t]
          /\ hand[t] < received'[t]
      BY <1>a, <2>1, <3>2 DEF OrderOf
    <3>4. /\ g # <<>> /\ g[Len(g)] = received'[t] /\ Increasing(g)
          /\ Above(g, published[t]) /\ UpTo(g, received'[t])
      BY <1>a, <2>1, <3>3, GivenOrder
    <3>5. Above(g, hand[t])
      BY <1>a, <2>1, <3>3, GivenOrder
    <3> HIDE DEF g
    <3>6. /\ pubs'[t].pending = g /\ given'[t] = received'[t]
          /\ \A u \in Topics : u # t =>
               pubs'[u].pending = pubs[u].pending /\ given'[u] = given[u]
      <4> DEFINE w == [pubs[t] EXCEPT !.pending = g]
      <4>1. w.pending = g
        BY <1>a DEF Workers
      <4>2. pubs' = [pubs EXCEPT ![t] = w]
        BY <3>1
      <4> HIDE DEF w
      <4> QED BY <3>1, <4>1, <4>2 DEF TopicTypes
    <3>7. \A u \in Topics : u # t => Same(u)
      BY <2>1, <3>6 DEF Same
    <3>8. OrderOf(t)' /\ published'[t] >= published[t]
      BY <1>a, <2>1, <3>2, <3>3, <3>4, <3>5, <3>6 DEF OrderOf, Newest
    <3> QED BY <1>c, <3>7, <3>8
  <2> QED BY <2>2, <2>3
<1>4. ASSUME NEW t \in Topics, Publish(t) PROVE Kept
  <2>1. /\ pubs'[t].pending = <<>> /\ given'[t] = None
        /\ UNCHANGED <<hand, received, published>>
        /\ \A u \in Topics : u # t => pubs'[u] = pubs[u] /\ given'[u] = given[u]
    BY <1>4 DEF Publish, TopicTypes
  <2>2. \A u \in Topics : u # t => Same(u)
    BY <2>1 DEF Same
  <2>3. OrderOf(t)' /\ published'[t] >= published[t]
    BY <1>a, <2>1, NothingPending DEF OrderInv, OrderOf, Newest
  <2> QED BY <1>c, <2>2, <2>3
<1>5. ASSUME NEW t \in Topics, WorkerPops(t) PROVE Kept
  <2> DEFINE s == pubs[t].pending
             r == Tail(s)
  <2>1. /\ hand[t] = None /\ s # <<>>
        /\ hand' = [hand EXCEPT ![t] = Head(s)]
        /\ pubs' = [pubs EXCEPT ![t].pending = r]
        /\ UNCHANGED <<received, given, published>>
    BY <1>5 DEF WorkerPops, WorkerOnly
  <2>2. /\ hand'[t] = s[1]
        /\ \A u \in Topics : u # t =>
             hand'[u] = hand[u] /\ pubs'[u].pending = pubs[u].pending
        /\ pubs'[t].pending = r
    <3> DEFINE w == [pubs[t] EXCEPT !.pending = r]
    <3>1. w.pending = r
      BY <1>a DEF Workers
    <3>2. pubs' = [pubs EXCEPT ![t] = w]
      BY <2>1
    <3>3. Head(s) = s[1]
      BY <1>a, <2>1
    <3> HIDE DEF w, r
    <3> QED BY <2>1, <3>1, <3>2, <3>3 DEF TopicTypes
  <2>3. /\ s \in Seq(Messages) /\ Len(s) \in Nat /\ Len(s) >= 1
        /\ Len(r) = Len(s) - 1
        /\ \A i \in 1..Len(r) : r[i] = s[i + 1] /\ i + 1 \in 1..Len(s)
    BY <1>a, <2>1
  <2>4. OrderOf(t)
    BY DEF OrderInv
  <2>5. \A i \in 1..Len(s) : s[i] \in Nat
    BY <1>d
  <2>0. (r = <<>> => Len(s) = 1) /\ (Len(s) = 1 => r = <<>>)
    <3>1. r \in Seq(Messages)
      BY <1>a, <2>1
    <3>2. r = <<>> <=> Len(r) = 0
      BY <3>1, EmptySeq
    <3> QED BY <2>3, <3>2
  <2> HIDE DEF s, r
  <2>6. Increasing(r) /\ Above(r, published[t]) /\ Above(r, s[1]) /\ UpTo(r, received[t])
    <3>1. Increasing(s) /\ Above(s, published[t]) /\ UpTo(s, received[t])
      BY <2>4 DEF OrderOf, s
    <3>2. \A i \in 1..Len(r) : r[i] = s[i + 1] /\ i + 1 \in 1..Len(s) /\ 1 < i + 1
                              /\ 1 \in 1..Len(s)
      BY <2>3
    <3>3. Increasing(r)
      BY <2>3, <3>1, <3>2 DEF Increasing
    <3>4. Above(r, s[1])
      BY <3>1, <3>2 DEF Increasing, Above
    <3> QED BY <3>1, <3>2, <3>3, <3>4 DEF Above, UpTo
  <2>7. published[t] < s[1] /\ s[1] <= received[t]
    BY <2>3, <2>4 DEF OrderOf, Above, UpTo, s
  <2>8. ASSUME given[t] # None
        PROVE  \/ r # <<>> /\ r[Len(r)] = given[t]
               \/ r = <<>> /\ given[t] = s[1]
    <3>1. s[Len(s)] = given[t]
      BY <2>1, <2>4, <2>8 DEF OrderOf, Newest, s
    <3>2. CASE Len(s) = 1
      BY <2>0, <3>1, <3>2
    <3>3. CASE Len(s) # 1
      <4>1. Len(r) \in 1..Len(r) /\ Len(r) + 1 = Len(s)
        BY <2>3, <3>3
      <4> QED BY <2>0, <2>3, <3>1, <3>3, <4>1
    <3> QED BY <3>2, <3>3
  <2>9. \A u \in Topics : u # t => Same(u)
    BY <2>1, <2>2 DEF Same
  <2>10. OrderOf(t)' /\ published'[t] >= published[t]
    BY <1>a, <2>1, <2>2, <2>4, <2>6, <2>7, <2>8 DEF OrderOf, Newest
  <2> QED BY <1>c, <2>9, <2>10
<1>6. ASSUME NEW t \in Topics, WorkerPublishes(t) PROVE Kept
  <2>1. /\ hand[t] # None /\ published'[t] = hand[t] /\ hand'[t] = None
        /\ \A u \in Topics : u # t =>
             published'[u] = published[u] /\ hand'[u] = hand[u]
        /\ UNCHANGED <<pubs, received, given>>
    BY <1>6 DEF WorkerPublishes, WorkerOnly, TopicTypes
  <2>2. OrderOf(t)
    BY DEF OrderInv
  <2>3. Above(pubs[t].pending, 0)
    BY <1>a, <1>d, <2>1, <2>2 DEF OrderOf, Above
  <2>4. OrderOf(t)' /\ published'[t] >= published[t]
    BY <1>a, <2>1, <2>2, <2>3 DEF OrderOf, Newest
  <2>5. \A u \in Topics : u # t => Same(u)
    BY <2>1 DEF Same
  <2> QED BY <1>c, <2>4, <2>5
<1>7. CASE StopClears \/ LostSync
  BY <1>2, <1>7 DEF StopClears, LostSync
<1>8. CASE \E t \in Topics : Subscribe(t)
  BY <1>1, <1>8 DEF Subscribe
<1> QED BY <1>1, <1>3, <1>4, <1>5, <1>6, <1>7, <1>8, TopicsSame
        DEF Next, Stopping, ReaderReads, ReaderSettles, WorkerSteps

\* What is published on a topic is what Unity sent, in its order, whoever
\* registers the topic anew and however often Unity reconnects; and of the
\* messages a worker was given it never loses the newest.
THEOREM TopicsFollow == Spec => TopicsFollowUnity
<1>1. Init => OrderInv
  BY NothingPending DEF Init, OrderInv, OrderOf, Newest, NoWorker, None
<1>2. EndpointInv /\ OrderInv /\ EndpointInv' /\ [Next]_vars => OrderInv'
  BY OrderNext DEF EndpointInv
<1>3. EndpointInv /\ OrderInv /\ EndpointInv' /\ [Next]_vars
      => [\A t \in Topics : published'[t] >= published[t]]_vars
  BY OrderNext DEF EndpointInv
<1>4. EndpointInv /\ OrderInv => \A t \in Topics : NewestKept(t)
  <2> SUFFICES ASSUME EndpointInv, OrderInv, NEW t \in Topics, given[t] # None
               PROVE  NewestKept(t)
    BY DEF NewestKept
  <2> DEFINE s == pubs[t].pending
  <2>1. CASE s = <<>>
    BY <2>1 DEF OrderInv, OrderOf, Newest, NewestKept
  <2>2. CASE s # <<>>
    <3>1. s \in Seq(Messages)
      BY DEF EndpointInv, TopicTypes, Workers
    <3>2. Len(s) \in 1..Len(s)
      BY <2>2, <3>1
    <3>3. s[Len(s)] = given[t]
      BY <2>2 DEF OrderInv, OrderOf, Newest
    <3> QED BY <3>2, <3>3 DEF NewestKept
  <2> QED BY <2>1, <2>2
<1> QED BY <1>1, <1>2, <1>3, <1>4, Invariant, PTL
        DEF Spec, TopicsFollowUnity, PublishedInOrder
=============================================================================
