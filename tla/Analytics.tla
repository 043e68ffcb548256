----------------------------- MODULE Analytics ------------------------------
(***************************************************************************)
(* The click analytics pipeline: publish_click_event() in app/publisher.py *)
(* run by the request threads, the durable queue in RabbitMQ, and the      *)
(* workers of worker/consumer.py that store every event in MongoDB.        *)
(*                                                                         *)
(* A message is the click event it carries; Foreign are messages of other  *)
(* producers, which are no events: not JSON, or JSON but no object (odd).  *)
(* RabbitMQ keeps the order of arrival, also for messages that come back   *)
(* to the queue.  A worker goes on with the message it has when its        *)
(* connection breaks: what it works on (msg) and what the broker thinks it *)
(* holds (unacked) are different things.                                   *)
(***************************************************************************)
EXTENDS Naturals, Sequences

CONSTANTS
  Clicks,       \* the click events the redirects publish
  Foreign,      \* bodies that are no events, from other producers
  Threads,      \* request threads, each with a connection of its own
  Workers,      \* worker processes
  MaxFaults,    \* bound: connections lost, processes dead or stopped
  None

Messages == Clicks \cup Foreign

ASSUME AnalyticsAssumption ==
  /\ Clicks \cap Foreign = {}
  /\ None \notin Messages
  /\ MaxFaults \in Nat

VARIABLES
  todo,         \* the clicks not yet published
  conn,         \* thread -> _local.connection; "dead": closed by the broker,
                \* which pika learns only when it uses the connection
  sending,      \* thread -> the event between _get_channel() and basic_publish()
  arrived,      \* every message the broker has seen, in order of arrival
  ready,        \* those in the queue, waiting for delivery
  journal,      \* those that reached the broker's disk
  unacked,      \* worker -> the message delivered to it and not settled
  redelivered,  \* the messages with the redelivered flag
  odd,          \* those of Foreign that parse, but are no JSON object
  worker,       \* worker -> [pc, msg, attached]
  docs,         \* click -> its documents in the click_events collection
  faults

publisherVars == <<todo, conn, sending>>
brokerVars    == <<arrived, ready, journal, unacked, redelivered, odd>>
workerVars    == <<worker, docs>>
analyticsVars == <<publisherVars, brokerVars, workerVars, faults>>

WorkerState == [pc       : {"down", "wait", "process", "ack", "drop",
                            "requeue", "exited"},
                msg      : Messages \cup {None},
                attached : BOOLEAN]        \* its connection, as the broker sees it

Fault == faults < MaxFaults /\ faults' = faults + 1

-----------------------------------------------------------------------------
\* The broker.  A message whose delivery comes to nothing is back in the
\* queue, flagged.
Arrive(m) ==
  /\ arrived' = Append(arrived, m)
  /\ ready' = ready \cup {m}
  /\ UNCHANGED <<journal, unacked, redelivered, odd>>

Unsettled(w) == {unacked[w]} \ {None}

Return(w) ==
  /\ ready' = ready \cup Unsettled(w)
  /\ redelivered' = redelivered \cup Unsettled(w)
  /\ unacked' = [unacked EXCEPT ![w] = None]
  /\ UNCHANGED <<arrived, journal, odd>>

Settle(w) ==
  /\ unacked' = [unacked EXCEPT ![w] = None]
  /\ UNCHANGED <<arrived, ready, journal, redelivered, odd>>

Before(m, n) ==
  \E i, j \in DOMAIN arrived : i < j /\ arrived[i] = m /\ arrived[j] = n

First == {m \in ready : \A n \in ready : ~Before(n, m)}

ForeignArrives(m) ==
  /\ \A i \in DOMAIN arrived : arrived[i] # m
  /\ Arrive(m)
  /\ UNCHANGED <<publisherVars, workerVars, faults>>

\* What is delivered and not settled.
Out == UNION {Unsettled(w) : w \in Workers}

\* Persistent messages are written to disk some time after they arrive.
WriteJournal ==
  /\ \E m \in (ready \cup Out) \ journal : journal' = journal \cup {m}
  /\ UNCHANGED <<publisherVars, arrived, ready, unacked, redelivered, odd,
                 workerVars, faults>>

\* RabbitMQ restarts: what is on disk and not settled is in the queue again,
\* everything else and every connection is gone.
RestartBroker ==
  /\ Fault
  /\ ready' = (ready \cup Out) \cap journal
  /\ redelivered' = redelivered \cup (Out \cap journal)
  /\ unacked' = [w \in Workers |-> None]
  /\ conn' = [t \in Threads |-> IF conn[t] = "open" THEN "dead" ELSE conn[t]]
  /\ worker' = [w \in Workers |-> [worker[w] EXCEPT !.attached = FALSE]]
  /\ UNCHANGED <<todo, sending, arrived, journal, odd, docs>>

-----------------------------------------------------------------------------
\* publish_click_event() in thread t.  _get_channel() hands out the thread's
\* connection without any I/O unless there is none, or pika knows it closed.
GetChannel(t) ==
  /\ sending[t] = None
  /\ \E c \in todo :
       /\ todo' = todo \ {c}
       /\ \/ /\ conn' = [conn EXCEPT ![t] = IF @ = "none" THEN "open" ELSE @]
             /\ sending' = [sending EXCEPT ![t] = c]
          \/ conn[t] = "none" /\ UNCHANGED <<conn, sending>>    \* cannot connect
  /\ UNCHANGED <<brokerVars, workerVars, faults>>

\* basic_publish() returns when the frames are written to the socket: they
\* arrive, or the connection breaks under them and nobody notices.
BasicPublish(t) ==
  /\ sending[t] # None
  /\ sending' = [sending EXCEPT ![t] = None]
  /\ \/ /\ conn[t] = "open"
        /\ Arrive(sending[t])
        /\ UNCHANGED conn
     \/ /\ conn' = [conn EXCEPT ![t] = "dead"]
        /\ UNCHANGED brokerVars
  /\ UNCHANGED <<todo, workerVars, faults>>

\* Mutant: no _reset_connection(), so that a closed connection stays.
PublishFails_NoReset(t) ==
  /\ sending[t] # None
  /\ sending' = [sending EXCEPT ![t] = None]
  /\ conn' = [conn EXCEPT ![t] = "closed"]
  /\ (conn[t] = "open" /\ Arrive(sending[t])) \/ UNCHANGED brokerVars
  /\ UNCHANGED <<todo, workerVars, faults>>

\* AMQPError: the event is given up, whether it arrived or not, and
\* _reset_connection() forgets the connection.
PublishFails(t) ==
  /\ sending[t] # None
  /\ sending' = [sending EXCEPT ![t] = None]
  /\ conn' = [conn EXCEPT ![t] = "none"]
  /\ (conn[t] = "open" /\ Arrive(sending[t])) \/ UNCHANGED brokerVars
  /\ UNCHANGED <<todo, workerVars, faults>>

\* The broker closes an idle connection whose heartbeats nobody answers.
HeartbeatMissed(t) ==
  /\ conn[t] = "open"
  /\ conn' = [conn EXCEPT ![t] = "dead"]
  /\ UNCHANGED <<todo, sending, brokerVars, workerVars, faults>>

-----------------------------------------------------------------------------
Goto(w, to) == worker' = [worker EXCEPT ![w].pc = to]

Gone(w, to) ==
  worker' = [worker EXCEPT ![w] = [pc |-> to, msg |-> None, attached |-> FALSE]]

Stored(w) == docs' = [docs EXCEPT ![worker[w].msg] = @ + 1]

\* main(): both connections are made and basic_consume() is sent.
StartWorker(w) ==
  /\ worker[w].pc \in {"down", "exited"}
  /\ worker' = [worker EXCEPT ![w].pc = "wait", ![w].attached = TRUE]
  /\ UNCHANGED <<publisherVars, brokerVars, docs, faults>>

\* prefetch_count=1: a message is delivered when the last one is settled.
Deliver(w) ==
  /\ worker[w].pc = "wait" /\ worker[w].attached
  /\ \E m \in First :
       /\ ready' = ready \ {m}
       /\ unacked' = [unacked EXCEPT ![w] = m]
       /\ worker' = [worker EXCEPT ![w].pc = "process", ![w].msg = m]
  /\ UNCHANGED <<publisherVars, arrived, journal, redelivered, odd, docs, faults>>

\* Mutant: any failure to store is taken for a malformed message.
MongoError_Drops(w) ==
  /\ worker[w].pc = "process" /\ worker[w].msg \in Clicks
  /\ Goto(w, "drop")
  /\ (Fault /\ Stored(w)) \/ UNCHANGED <<docs, faults>>
  /\ UNCHANGED <<publisherVars, brokerVars>>

\* Mutant: the insert is tried again on the spot.
MongoError_Retries(w) ==
  /\ worker[w].pc = "process" /\ worker[w].msg \in Clicks
  /\ Goto(w, "process")
  /\ (Fault /\ Stored(w)) \/ UNCHANGED <<docs, faults>>
  /\ UNCHANGED <<publisherVars, brokerVars>>

\* process_message() raises PyMongoError; a write whose answer is lost has
\* been done nevertheless.
MongoError(w) ==
  /\ worker[w].pc = "process" /\ worker[w].msg \in Clicks
  /\ Goto(w, "requeue")
  /\ (Fault /\ Stored(w)) \/ UNCHANGED <<docs, faults>>
  /\ UNCHANGED <<publisherVars, brokerVars>>

InsertOne(w) ==
  /\ worker[w].pc = "process" /\ worker[w].msg \in Clicks
  /\ Stored(w)
  /\ Goto(w, "ack")
  /\ UNCHANGED <<publisherVars, brokerVars, faults>>

\* Mutant: a malformed message is requeued, like any other failure.
Malformed_Requeues(w) ==
  /\ worker[w].pc = "process" /\ worker[w].msg \in Foreign \ odd
  /\ Goto(w, "requeue")
  /\ UNCHANGED <<publisherVars, brokerVars, docs, faults>>

\* json.loads() raises JSONDecodeError.
Malformed(w) ==
  /\ worker[w].pc = "process" /\ worker[w].msg \in Foreign \ odd
  /\ Goto(w, "drop")
  /\ UNCHANGED <<publisherVars, brokerVars, docs, faults>>

\* event.get() of a list, a string or a number raises AttributeError, which
\* the last handler takes for a passing failure.
NoObject(w) ==
  /\ worker[w].pc = "process" /\ worker[w].msg \in odd
  /\ Goto(w, "requeue")
  /\ UNCHANGED <<publisherVars, brokerVars, docs, faults>>

\* basic_ack(), basic_nack(requeue=False), basic_nack(requeue=True).
Answer(w) ==
  /\ worker[w].pc \in {"ack", "drop", "requeue"}
  /\ worker[w].attached
  /\ worker' = [worker EXCEPT ![w].pc = "wait", ![w].msg = None]
  /\ IF worker[w].pc = "requeue" THEN Return(w) ELSE Settle(w)
  /\ UNCHANGED <<publisherVars, docs, faults>>

\* The connection is gone: start_consuming(), basic_ack() or the basic_nack()
\* of the handler raises out of main(), and the process dies.
Disconnected(w) ==
  /\ worker[w].pc \in {"wait", "ack", "drop", "requeue"}
  /\ ~worker[w].attached
  /\ Gone(w, "down")
  /\ UNCHANGED <<publisherVars, brokerVars, docs, faults>>

\* The answer was written to a connection that breaks: lost with it.
AnswerLost(w) ==
  /\ Fault
  /\ worker[w].pc \in {"ack", "drop", "requeue"} /\ worker[w].attached
  /\ worker' = [worker EXCEPT ![w] = [pc |-> "wait", msg |-> None, attached |-> FALSE]]
  /\ Return(w)
  /\ UNCHANGED <<publisherVars, docs>>

LoseConnection(w) ==
  /\ Fault
  /\ worker[w].attached
  /\ worker' = [worker EXCEPT ![w].attached = FALSE]
  /\ Return(w)
  /\ UNCHANGED <<publisherVars, docs>>

CrashWorker(w) ==
  /\ Fault
  /\ worker[w].pc \notin {"down", "exited"}
  /\ Gone(w, "down")
  /\ Return(w)
  /\ UNCHANGED <<publisherVars, docs>>

\* _shutdown() runs between two bytecodes of whatever main() is doing: it
\* closes the connection and raises SystemExit, which no handler of
\* on_message() catches.
Sigterm(w) ==
  /\ Fault
  /\ worker[w].pc \notin {"down", "exited"}
  /\ Gone(w, "exited")
  /\ Return(w)
  /\ UNCHANGED <<publisherVars, docs>>

-----------------------------------------------------------------------------
Init ==
  /\ todo = Clicks
  /\ conn = [t \in Threads |-> "none"]
  /\ sending = [t \in Threads |-> None]
  /\ arrived = << >> /\ ready = {} /\ journal = {} /\ redelivered = {}
  /\ odd \in SUBSET Foreign
  /\ unacked = [w \in Workers |-> None]
  /\ worker = [w \in Workers |-> [pc |-> "down", msg |-> None, attached |-> FALSE]]
  /\ docs = [c \in Clicks |-> 0]
  /\ faults = 0

Consume(w) ==
  \/ Deliver(w) \/ InsertOne(w) \/ Malformed(w) \/ NoObject(w)
  \/ Answer(w) \/ Disconnected(w)

Next ==
  \/ \E t \in Threads : \/ GetChannel(t) \/ BasicPublish(t)
                        \/ PublishFails(t) \/ HeartbeatMissed(t)
  \/ \E m \in Foreign : ForeignArrives(m)
  \/ WriteJournal
  \/ RestartBroker
  \/ \E w \in Workers :
       \/ StartWorker(w) \/ Consume(w) \/ MongoError(w) \/ AnswerLost(w)
       \/ LoseConnection(w) \/ CrashWorker(w) \/ Sigterm(w)

\* Docker restarts a worker that died, not one that was told to stop
\* (restart: unless-stopped); MongoDB does not fail for ever.
Spec ==
  /\ Init /\ [][Next]_analyticsVars
  /\ \A w \in Workers :
       /\ WF_analyticsVars(worker[w].pc = "down" /\ StartWorker(w))
       /\ WF_analyticsVars(Consume(w))
       /\ SF_analyticsVars(InsertOne(w))

-----------------------------------------------------------------------------
\* Every variable keeps its type: a thread's connection is none, usable or
\* unusable unknown to it, never one that pika knows to be closed.
TypeOK ==
  /\ todo \subseteq Clicks
  /\ conn \in [Threads -> {"none", "open", "dead"}]
  /\ sending \in [Threads -> Clicks \cup {None}]
  /\ arrived \in Seq(Messages)
  /\ ready \cup journal \cup redelivered \subseteq Messages
  /\ odd \subseteq Foreign
  /\ unacked \in [Workers -> Messages \cup {None}]
  /\ worker \in [Workers -> WorkerState]
  /\ docs \in [Clicks -> Nat]
  /\ faults \in 0..MaxFaults

\* "At-least-once": a click that reached the broker's disk is in the queue,
\* or delivered and not settled, or in MongoDB, whatever crashed or was cut
\* off in between (consumer.py, on_message: the ACK comes after the insert,
\* and a failed insert is requeued).
JournaledNotLost ==
  \A c \in journal \cap Clicks :
    \/ c \in ready
    \/ \E w \in Workers : unacked[w] = c
    \/ docs[c] > 0

\* Duplicates come from redelivery alone: a click with a second document is
\* one that RabbitMQ has flagged as redelivered (consumer.py, the accepted
\* tradeoff of its reliability model).
DuplicatesAreRedeliveries ==
  \A c \in Clicks : docs[c] > 1 => c \in redelivered

\* "If MongoDB is slow or temporarily unavailable, messages queue up in
\* RabbitMQ and are processed when it recovers" (consumer.py): a journaled
\* click is stored, unless every worker has been told to stop, or another
\* producer had sent JSON that is no object before: such a message is requeued
\* for ever, in front of the clicks that came after it.
JournaledIsStored ==
  \A c \in Clicks :
    (c \in journal) ~> \/ docs[c] > 0
                       \/ \A w \in Workers : worker[w].pc = "exited"
                       \/ \E m \in odd : Before(m, c)

\* "In-flight message is ACK'd before shutdown" (consumer.py:62-64): a worker
\* that exits on a signal leaves no message unsettled.
InFlightSettledAtExit ==
  [][\A w \in Workers :
       worker[w].pc # "exited" /\ worker'[w].pc = "exited" => unacked[w] = None]_analyticsVars

-----------------------------------------------------------------------------
\* The refinement mapping, for each click by itself.
PlaceOf(c) ==
  IF \A i \in DOMAIN arrived : arrived[i] # c THEN "new"
  ELSE IF c \notin ready \cup Out THEN "gone"
  ELSE IF c \in journal THEN "disk" ELSE "memory"

Log(c) ==
  INSTANCE ClickLog
    WITH place <- PlaceOf(c), copies <- docs[c], again <- (c \in redelivered)

\* Workers that die, lose their connection or go on with a message that
\* somebody else has been given, and a broker that restarts, implement the log
\* of every click: Log(c)!Spec for all c.
ImplementsClickLog ==
  /\ \A c \in Clicks : Log(c)!Init
  /\ [][\A c \in Clicks : [Log(c)!Next]_(Log(c)!logVars)]_analyticsVars
=============================================================================
