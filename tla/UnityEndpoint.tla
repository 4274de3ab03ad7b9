--------------------------- MODULE UnityEndpoint ---------------------------
(***************************************************************************)
(* The TCP endpoint that Unity connects to (unity_control_endpoint.cpp):   *)
(* an acceptor thread, a reader and a sender thread per connection, one    *)
(* publisher thread per registered topic, the executor's callbacks, and    *)
(* the main thread, which stops everything at the end.                     *)
(*                                                                         *)
(* A socket descriptor is a number that the system gives out again once it *)
(* is closed: fdOf says which connection a descriptor denotes now, which   *)
(* need not be the one a thread got it for.  Bytes, topic types and the    *)
(* wording of messages are left out; what the reader finds in the stream   *)
(* is a choice.                                                            *)
(***************************************************************************)
EXTENDS Naturals, Sequences

CONSTANTS
  MaxConnections,   \* bound: how often Unity connects
  Descriptors,      \* the descriptors the system may give out
  Topics,           \* the topics Unity registers
  Capacity,         \* frames a SendQueue holds
  Depth,            \* messages a PublisherWorker holds
  MaxMessages,      \* bound: messages Unity sends on a topic
  Bounds            \* bound: up to how many connections how many messages are sent

ASSUME EndpointConstants ==
  /\ MaxConnections \in Nat \ {0}
  /\ 0 \notin Descriptors
  /\ Capacity \in Nat \ {0}
  /\ Depth \in Nat \ {0}
  /\ MaxMessages \in Nat

ASSUME EndpointBounds == Bounds \subseteq Nat \X Nat

Connections == 1..MaxConnections
None == 0          \* no connection, no descriptor, no message

VARIABLES
  step,        \* where the acceptor and the main thread are
  stopping,    \* stopping_
  listening,   \* the listener has not been shut down
  newest,      \* the number of the last connection accepted
  descriptor,  \* the descriptor accept returned for a connection
  fdOf,        \* the connection a descriptor denotes, None when it is closed
  socket,      \* the state of a connection's socket
  current,     \* connection_fd_ and queue_, which change together
  ending,      \* the local copy of them in end_connection
  queue,       \* a connection's SendQueue
  first,       \* history: the first frame written on a connection
  reader,      \* the thread reader_
  sender,      \* the thread sender_
  pubs,        \* publishers_: who registered a topic, and its pending messages
  hand,        \* the message a topic's publisher thread has in hand
  received,    \* history: the last message read for a topic
  given,       \* history: the last message given to a topic's present worker
  published,   \* history: the last message published on a topic
  lost,        \* history: the last connection whose stream lost sync
  subs,        \* subscriptions_: the connection that registered a topic
  inFlight     \* a subscription's callback that has not sent its frame

threads == <<step, reader, sender>>
sockets == <<newest, descriptor, fdOf, socket>>
connection == <<sockets, current, ending>>
topics == <<pubs, hand, received, given, published, subs,
            lost>>
vars == <<threads, stopping, listening, connection, queue, first, topics,
          inFlight>>

Enders == {"acceptor", "main"}     \* the threads that call end_connection
Steps == {"check", "accept", "swap", "wake", "reader", "sender", "close",
          "begin", "start", "done",
          "serving", "unlisten", "join", "clear", "stopped"}

Handshake == [kind |-> "handshake", conn |-> None]
TopicFrame == [kind |-> "topic", conn |-> None]
ReplyTo(c) == [kind |-> "reply", conn |-> c]
NoFrame == [kind |-> "none", conn |-> None]
Frames == {Handshake, TopicFrame} \union {ReplyTo(c) : c \in Connections}

NoThread == [conn |-> None, fd |-> None, pc |-> "none"]
ReaderSteps == {"none", "reading", "publish", "subscribe", "reply", "lost",
                "closing", "ended"}
SenderSteps == {"none", "popping", "writing", "shutting", "ended"}
NoFrames == [frames |-> <<>>, closed |-> FALSE, dropped |-> FALSE]
NoWorker == [conn |-> None, pending |-> <<>>]

Joinable(t) == t.pc # "none"
Running(t) == t.pc \notin {"none", "ended"}

(***************************************************************************)
(* The bounded queues: both drop the oldest entry to take a new one.       *)
(***************************************************************************)
\* Mutant: the bound is off by one.
DropsTooLate(s, bound) == IF Len(s) > bound THEN Tail(s) ELSE s

DropOldest(s, bound) == IF Len(s) >= bound THEN Tail(s) ELSE s

Pushed(q, frame) ==
  IF q.closed THEN q
  ELSE [q EXCEPT !.frames = Append(DropOldest(@, Capacity), frame),
                 !.dropped = @ \/ Len(q.frames) >= Capacity]

\* Mutants: a full worker refuses a new message; a new message goes first.
Refused(pending, m) ==
  IF Len(pending) >= Depth THEN pending ELSE Append(pending, m)
GivenFirst(pending, m) == <<m>> \o DropOldest(pending, Depth)

Given(pending, m) == Append(DropOldest(pending, Depth), m)

\* Sends a frame to the connection of the moment, whoever asks for it.
SendFrame(frame) ==
  queue' = IF current = None THEN queue
           ELSE [queue EXCEPT ![current] = Pushed(@, frame)]

\* Mutant: a thread blocked on the socket is not woken.
LeaveOpen(fd) == UNCHANGED socket

ShutDown(fd) ==
  socket' = IF fdOf[fd] = None THEN socket
            ELSE [socket EXCEPT ![fdOf[fd]] = "shut"]

\* What a read or a write on a descriptor meets.
SocketOf(fd) == IF fdOf[fd] = None THEN "closed" ELSE socket[fdOf[fd]]

Goto(p, s) == step' = [step EXCEPT ![p] = s]

\* What the acceptor and the main thread leave alone.
EnderOnly == UNCHANGED <<stopping, listening, first, topics, inFlight>>
StepOnly == EnderOnly /\ UNCHANGED <<reader, sender, connection, queue>>

(***************************************************************************)
(* The acceptor and the main thread.                                       *)
(***************************************************************************)
AcceptorChecks ==
  /\ step["acceptor"] = "check"
  /\ Goto("acceptor", IF stopping THEN "done" ELSE "accept")
  /\ StepOnly

Accept(fd) ==
  /\ step["acceptor"] = "accept" /\ listening
  /\ newest < MaxConnections
  /\ \A t \in Topics : <<newest + 1, received[t]>> \in Bounds
  /\ fdOf[fd] = None
  /\ newest' = newest + 1
  /\ descriptor' = [descriptor EXCEPT ![newest'] = fd]
  /\ fdOf' = [fdOf EXCEPT ![fd] = newest']
  /\ socket' = [socket EXCEPT ![newest'] = "open"]
  /\ Goto("acceptor", "swap")
  /\ EnderOnly /\ UNCHANGED <<reader, sender, current, ending, queue>>

AcceptFails ==
  /\ step["acceptor"] = "accept" /\ ~listening
  /\ Goto("acceptor", "done")
  /\ StepOnly

\* end_connection, called by thread p: take the connection ...
Swap(p) ==
  /\ step[p] = "swap"
  /\ ending' = current /\ current' = None
  /\ Goto(p, "wake")
  /\ EnderOnly /\ UNCHANGED <<reader, sender, sockets, queue>>

\* ... wake both of its threads ...
Wake(p) ==
  /\ step[p] = "wake"
  /\ IF ending = None THEN UNCHANGED <<socket, queue>>
     ELSE /\ ShutDown(descriptor[ending])
          /\ queue' = [queue EXCEPT ![ending].closed = TRUE]
  /\ Goto(p, "reader")
  /\ EnderOnly
  /\ UNCHANGED <<reader, sender, newest, descriptor, fdOf, current, ending>>

\* Mutants: the reader is not joined; the reader is not waited for.
LeaveReader(p) ==
  /\ step[p] = "reader" /\ ~Running(reader)
  /\ Goto(p, "sender")
  /\ StepOnly

DetachReader(p) ==
  /\ step[p] = "reader"
  /\ Goto(p, "sender")
  /\ StepOnly

\* ... wait for them ...
JoinReader(p) ==
  /\ step[p] = "reader" /\ ~Running(reader)
  /\ reader' = NoThread
  /\ Goto(p, "sender")
  /\ EnderOnly /\ UNCHANGED <<sender, connection, queue>>

\* Mutant: the sender is not waited for.
DetachSender(p) ==
  /\ step[p] = "sender"
  /\ Goto(p, "close")
  /\ StepOnly

JoinSender(p) ==
  /\ step[p] = "sender" /\ ~Running(sender)
  /\ sender' = NoThread
  /\ Goto(p, "close")
  /\ EnderOnly /\ UNCHANGED <<reader, connection, queue>>

\* ... and only then close the descriptor; the queue goes with its last owner.
Close(p) ==
  /\ step[p] = "close"
  /\ IF ending = None THEN UNCHANGED <<fdOf, socket, queue>>
     ELSE /\ fdOf' = [fdOf EXCEPT ![descriptor[ending]] = None]
          /\ socket' = [socket EXCEPT ![ending] = "closed"]
          /\ queue' = [queue EXCEPT ![ending] = NoFrames]
  /\ ending' = None
  /\ Goto(p, IF p = "acceptor" THEN "begin" ELSE "clear")
  /\ EnderOnly /\ UNCHANGED <<reader, sender, newest, descriptor, current>>

\* Mutant: the queue is public before the handshake is in it.
Ungreeted == NoFrames
Greeted == Pushed(NoFrames, Handshake)

\* begin_connection: the handshake is queued before anyone can see the queue.
BeginConnection ==
  /\ step["acceptor"] = "begin"
  /\ queue' = [queue EXCEPT ![newest] = Greeted]
  /\ current' = newest
  /\ Goto("acceptor", "start")
  /\ EnderOnly /\ UNCHANGED <<reader, sender, sockets, ending>>

StartThreads ==
  /\ step["acceptor"] = "start"
  /\ LET thread(pc) == [conn |-> newest, fd |-> descriptor[newest], pc |-> pc]
     IN /\ reader' = thread("reading")
        /\ sender' = thread("popping")
  /\ Goto("acceptor", "check")
  /\ EnderOnly /\ UNCHANGED <<connection, queue>>

\* stop(), called by main once the executor has returned.
Stop ==
  /\ step["main"] = "serving" /\ ~inFlight
  /\ stopping' = TRUE
  /\ Goto("main", "unlisten")
  /\ UNCHANGED <<reader, sender, listening, connection, queue, first, topics,
                 inFlight>>

\* Mutant: stop() does not wake the acceptor.
LeaveListening ==
  /\ step["main"] = "unlisten"
  /\ Goto("main", "join")
  /\ StepOnly

Unlisten ==
  /\ step["main"] = "unlisten"
  /\ listening' = FALSE
  /\ Goto("main", "join")
  /\ UNCHANGED <<reader, sender, stopping, connection, queue, first, topics,
                 inFlight>>

JoinAcceptor ==
  /\ step["main"] = "join" /\ step["acceptor"] = "done"
  /\ Goto("main", "swap")
  /\ StepOnly

\* Mutant: the subscriptions are forgotten.
ClearPublishersOnly ==
  /\ \A t \in Topics : hand[t] = None
  /\ pubs' = [t \in Topics |-> NoWorker]
  /\ given' = [t \in Topics |-> None]
  /\ UNCHANGED subs

\* Destroying a worker waits for the message its thread is publishing.
ClearRegistrations ==
  /\ \A t \in Topics : hand[t] = None
  /\ pubs' = [t \in Topics |-> NoWorker]
  /\ subs' = [t \in Topics |-> None]
  /\ given' = [t \in Topics |-> None]

StopClears ==
  /\ step["main"] = "clear"
  /\ ClearRegistrations
  /\ Goto("main", "stopped")
  /\ UNCHANGED <<reader, sender, stopping, listening, connection, queue, first,
                 hand, received, published, lost, inFlight>>

(***************************************************************************)
(* The reader.  ReadNothing is a keepalive, or the message after a service *)
(* header, which belongs to that header.                                   *)
(***************************************************************************)
ReaderAt(pc) == reader.pc = pc
ReaderGoes(pc) == reader' = [reader EXCEPT !.pc = pc]

ReaderOnly ==
  UNCHANGED <<step, sender, stopping, listening, connection, first, inFlight>>

\* After a frame the loop looks at stopping_, and then waits for the stream.
NextFrame == IF stopping THEN "closing" ELSE "reading"

ReadNothing ==
  /\ ReaderAt("reading")
  /\ ReaderGoes(NextFrame)
  /\ ReaderOnly /\ UNCHANGED <<queue, topics>>

ReadEnds ==
  /\ ReaderAt("reading")
  /\ SocketOf(reader.fd) # "open"
  /\ ReaderGoes("closing")
  /\ ReaderOnly /\ UNCHANGED <<queue, topics>>

\* A frame that needs more than reading: a registration, a command answered
\* with a frame, or one that shows that the stream is out of sync.
ReadFrame ==
  /\ ReaderAt("reading")
  /\ \E pc \in {"publish", "subscribe", "reply", "lost"} : ReaderGoes(pc)
  /\ ReaderOnly /\ UNCHANGED <<queue, topics>>

ReadData(t) ==
  /\ ReaderAt("reading")
  /\ received[t] < MaxMessages /\ <<newest, received[t] + 1>> \in Bounds
  /\ received' = [received EXCEPT ![t] = @ + 1]
  /\ IF pubs[t] = NoWorker
     THEN ReaderGoes("lost") /\ UNCHANGED <<pubs, given>>
     ELSE /\ pubs' = [pubs EXCEPT ![t].pending = Given(@, received'[t])]
          /\ given' = [given EXCEPT ![t] = received'[t]]
          /\ ReaderGoes(NextFrame)
  /\ ReaderOnly /\ UNCHANGED <<queue, hand, published, subs, lost>>

\* publish(): a worker that had the topic is destroyed, its messages with it.
Publish(t) ==
  /\ ReaderAt("publish") /\ hand[t] = None
  /\ pubs' = [pubs EXCEPT ![t] = [conn |-> reader.conn, pending |-> <<>>]]
  /\ given' = [given EXCEPT ![t] = None]
  /\ ReaderGoes(NextFrame)
  /\ ReaderOnly /\ UNCHANGED <<queue, hand, received, published, subs, lost>>

Subscribe(t) ==
  /\ ReaderAt("subscribe")
  /\ subs' = [subs EXCEPT ![t] = reader.conn]
  /\ ReaderGoes(NextFrame)
  /\ ReaderOnly /\ UNCHANGED <<queue, pubs, hand, received, given, published, lost>>

Reply ==
  /\ ReaderAt("reply")
  /\ SendFrame(ReplyTo(reader.conn))
  /\ ReaderGoes(NextFrame)
  /\ ReaderOnly /\ UNCHANGED topics

LostSync ==
  /\ ReaderAt("lost")
  /\ ClearRegistrations
  /\ lost' = reader.conn
  /\ ReaderGoes("closing")
  /\ ReaderOnly /\ UNCHANGED <<queue, hand, received, published>>

\* Mutant: the sender is not told that the reader has ended.
ReaderEndsSilently ==
  /\ ReaderAt("closing")
  /\ ReaderGoes("ended")
  /\ ReaderOnly /\ UNCHANGED <<queue, topics>>

ReaderCloses ==
  /\ ReaderAt("closing")
  /\ queue' = [queue EXCEPT ![reader.conn].closed = TRUE]
  /\ ReaderGoes("ended")
  /\ ReaderOnly /\ UNCHANGED topics

(***************************************************************************)
(* The sender.  A send to a peer that has left may still succeed.          *)
(***************************************************************************)
SenderGoes(pc) == sender' = [sender EXCEPT !.pc = pc]

SenderOnly ==
  UNCHANGED <<step, reader, stopping, listening, newest, descriptor, fdOf,
              current, ending, topics, inFlight>>

Pop ==
  /\ sender.pc = "popping" /\ queue[sender.conn].frames # <<>>
  /\ queue' = [queue EXCEPT ![sender.conn].frames = Tail(@)]
  /\ first' = [first EXCEPT ![sender.conn] =
                 IF @ = NoFrame THEN Head(queue[sender.conn].frames) ELSE @]
  /\ SenderGoes("writing")
  /\ SenderOnly /\ UNCHANGED socket

PopClosed ==
  /\ sender.pc = "popping" /\ queue[sender.conn].frames = <<>>
  /\ queue[sender.conn].closed
  /\ SenderGoes("shutting")
  /\ SenderOnly /\ UNCHANGED <<socket, queue, first>>

Written ==
  /\ sender.pc = "writing"
  /\ SocketOf(sender.fd) \in {"open", "gone"}
  /\ SenderGoes("popping")
  /\ SenderOnly /\ UNCHANGED <<socket, queue, first>>

WriteFails ==
  /\ sender.pc = "writing"
  /\ SocketOf(sender.fd) # "open"
  /\ SenderGoes("shutting")
  /\ SenderOnly /\ UNCHANGED <<socket, queue, first>>

SenderShuts ==
  /\ sender.pc = "shutting"
  /\ ShutDown(sender.fd)
  /\ SenderGoes("ended")
  /\ SenderOnly /\ UNCHANGED <<queue, first>>

(***************************************************************************)
(* Publisher threads, the executor's callbacks, and Unity.                 *)
(***************************************************************************)
WorkerOnly ==
  UNCHANGED <<threads, stopping, listening, connection, queue, first, received,
              subs, lost, inFlight>>

WorkerPops(t) ==
  /\ hand[t] = None /\ pubs[t].pending # <<>>
  /\ hand' = [hand EXCEPT ![t] = Head(pubs[t].pending)]
  /\ pubs' = [pubs EXCEPT ![t].pending = Tail(@)]
  /\ WorkerOnly /\ UNCHANGED <<given, published>>

WorkerPublishes(t) ==
  /\ hand[t] # None
  /\ published' = [published EXCEPT ![t] = hand[t]]
  /\ hand' = [hand EXCEPT ![t] = None]
  /\ WorkerOnly /\ UNCHANGED <<pubs, given>>

\* The executor holds the subscription while its callback runs, so the frame
\* may be sent after the subscription is gone.
CallbackStarts(t) ==
  /\ step["main"] = "serving" /\ ~inFlight
  /\ subs[t] # None
  /\ inFlight' = TRUE
  /\ UNCHANGED <<threads, stopping, listening, connection, queue, first, topics>>

CallbackSends ==
  /\ inFlight
  /\ SendFrame(TopicFrame)
  /\ inFlight' = FALSE
  /\ UNCHANGED <<threads, stopping, listening, connection, first, topics>>

UnityLeaves(c) ==
  /\ socket[c] = "open"
  /\ socket' = [socket EXCEPT ![c] = "gone"]
  /\ UNCHANGED <<threads, stopping, listening, newest, descriptor, fdOf, current,
                 ending, queue, first, topics, inFlight>>

(***************************************************************************)
(* The specification.                                                      *)
(***************************************************************************)
Init ==
  /\ step = [acceptor |-> "check", main |-> "serving"]
  /\ stopping = FALSE /\ listening = TRUE
  /\ newest = None /\ current = None /\ ending = None /\ lost = None
  /\ descriptor = [c \in Connections |-> None]
  /\ fdOf = [d \in Descriptors |-> None]
  /\ socket = [c \in Connections |-> "none"]
  /\ queue = [c \in Connections |-> NoFrames]
  /\ first = [c \in Connections |-> NoFrame]
  /\ reader = NoThread /\ sender = NoThread
  /\ pubs = [t \in Topics |-> NoWorker]
  /\ hand = [t \in Topics |-> None]
  /\ received = [t \in Topics |-> 0]
  /\ given = [t \in Topics |-> None]
  /\ published = [t \in Topics |-> None]
  /\ subs = [t \in Topics |-> None]
  /\ inFlight = FALSE

AcceptorSteps == AcceptorChecks \/ AcceptFails \/ BeginConnection \/ StartThreads
EndConnection(p) == Swap(p) \/ Wake(p) \/ JoinReader(p) \/ JoinSender(p) \/ Close(p)
Stopping == Unlisten \/ JoinAcceptor \/ StopClears
ReaderSettles ==
  Reply \/ LostSync \/ ReaderCloses \/ \E t \in Topics : Publish(t) \/ Subscribe(t)
ReaderReads == ReadNothing \/ ReadFrame \/ \E t \in Topics : ReadData(t)
SenderGoesOn == Pop \/ PopClosed \/ WriteFails \/ SenderShuts
WorkerSteps(t) == WorkerPops(t) \/ WorkerPublishes(t)

Next ==
  \/ AcceptorSteps \/ \E fd \in Descriptors : Accept(fd)
  \/ \E p \in Enders : EndConnection(p)
  \/ Stop \/ Stopping
  \/ ReadEnds \/ ReaderReads \/ ReaderSettles
  \/ SenderGoesOn \/ Written
  \/ \E t \in Topics : WorkerSteps(t) \/ CallbackStarts(t)
  \/ CallbackSends
  \/ \E c \in Connections : UnityLeaves(c)

Spec == Init /\ [][Next]_vars

(***************************************************************************)
(* Fairness: a thread that can go on does.  Nothing is assumed of Unity: a *)
(* read or a write on an open connection may wait for ever.  UnityReads    *)
(* says that a write ends.  What the system had buffered when a socket was *)
(* shut down is finite, so the reader comes to its end however many frames *)
(* it still finds there: ReadEnds is strongly fair.                        *)
(***************************************************************************)
Fairness ==
  /\ WF_vars(AcceptorSteps)
  /\ \A p \in Enders : WF_vars(EndConnection(p))
  /\ WF_vars(Stopping)
  /\ SF_vars(ReadEnds) /\ WF_vars(ReaderSettles)
  /\ WF_vars(SenderGoesOn)
  /\ \A t \in Topics : WF_vars(WorkerSteps(t))

UnityReads == WF_vars(Written)

FairSpec == Spec /\ Fairness

(***************************************************************************)
(* Properties.                                                             *)
(***************************************************************************)
Thread(steps) ==
  [conn : Connections \union {None}, fd : Descriptors \union {None}, pc : steps]
Messages == 0..MaxMessages

TypeOK ==
  /\ step \in [Enders -> Steps]
  /\ stopping \in BOOLEAN /\ listening \in BOOLEAN /\ inFlight \in BOOLEAN
  /\ {newest, current, ending, lost} \subseteq Connections \union {None}
  /\ descriptor \in [Connections -> Descriptors \union {None}]
  /\ fdOf \in [Descriptors -> Connections \union {None}]
  /\ socket \in [Connections -> {"none", "open", "gone", "shut", "closed"}]
  /\ queue \in [Connections -> [frames : Seq(Frames), closed : BOOLEAN,
                                dropped : BOOLEAN]]
  /\ first \in [Connections -> Frames \union {NoFrame}]
  /\ reader \in Thread(ReaderSteps) /\ sender \in Thread(SenderSteps)
  /\ pubs \in [Topics -> [conn : Connections \union {None}, pending : Seq(Messages)]]
  /\ \A c \in Connections : Len(queue[c].frames) <= Capacity
  /\ \A t \in Topics : Len(pubs[t].pending) <= Depth
  /\ {hand, received, given, published} \subseteq [Topics -> Messages]
  /\ subs \in [Topics -> Connections \union {None}]

\* A thread never reads, writes or shuts down a connection other than its own:
\* while it runs, its descriptor has not been closed and given out again.
OwnDescriptor ==
  \A t \in {reader, sender} : Running(t) => fdOf[t.fd] = t.conn

\* begin_connection never assigns a thread to reader_ or sender_ while the old
\* one is still to be joined, which would end the process.
NoThreadReplaced ==
  step["acceptor"] = "start" => ~Joinable(reader) /\ ~Joinable(sender)

\* The threads of a connection are its own, from their start to their join.
ThreadsOwnTheirConnection == OwnDescriptor /\ NoThreadReplaced

\* A reply to a command reaches the connection the command came from or none,
\* although send_frame takes whichever queue is current when it runs.
RepliesReachTheirConnection ==
  \A c \in Connections : \A i \in 1..Len(queue[c].frames) :
    queue[c].frames[i].kind = "reply" => queue[c].frames[i].conn = c

\* Unity is always greeted first: no topic frame or reply overtakes the
\* handshake, unless the queue overflowed before the sender took it.
HandshakeFirst ==
  \A c \in Connections :
    first[c] \in {NoFrame, Handshake} \/ queue[c].dropped \/ socket[c] = "closed"

\* A worker never loses the newest message it was given: that message is
\* pending, in hand or published, however many older ones it had to drop.
NewestKept(t) ==
  given[t] # None =>
    given[t] \in {hand[t], published[t]}
                 \union {pubs[t].pending[i] : i \in 1..Len(pubs[t].pending)}

\* A topic's messages are published in the order Unity sent them, across a
\* registration that replaces its worker and across connections.
PublishedInOrder ==
  [][\A t \in Topics : published'[t] >= published[t]]_vars

\* What is published is what Unity sent, in its order, and the newest message is
\* never the one that is dropped.
TopicsFollowUnity == [](\A t \in Topics : NewestKept(t)) /\ PublishedInOrder

\* Once a stream has lost sync, nothing registered from it or before it is
\* left, wrong as it may be; only a newer connection registers again.
LostRegistrationsGone ==
  \A t \in Topics :
    /\ pubs[t].conn # None => pubs[t].conn > lost
    /\ subs[t] # None => subs[t] > lost

\* stop() returns: every thread is woken and joined, whatever Unity does with
\* its side of the connection.
StopReturns == (step["main"] = "unlisten") ~> (step["main"] = "stopped")

\* The acceptor comes back to accept the next connection: ending the old one
\* never waits for Unity.
AcceptorReturns == (step["acceptor"] = "swap") ~> (step["acceptor"] = "check")

\* A connection whose stream lost sync is dropped, so that Unity reconnects,
\* provided Unity reads what is being sent to it.
LostStreamDropped ==
  UnityReads => \A c \in Connections :
    (reader.conn = c /\ reader.pc = "lost") ~> (socket[c] # "open")

\* Nothing that ends a connection or the endpoint waits for Unity.
ConnectionsEnd == StopReturns /\ AcceptorReturns /\ LostStreamDropped

=============================================================================
