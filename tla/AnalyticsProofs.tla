-------------------------- MODULE AnalyticsProofs ---------------------------
(***************************************************************************)
(* Theorems about the analytics pipeline, for any numbers of clicks, other *)
(* messages, threads, workers and faults: type correctness, at-least-once  *)
(* delivery from the broker's disk on, duplicates by redelivery alone, and *)
(* the refinement of ClickLog.                                             *)
(***************************************************************************)
EXTENDS Analytics, TLAPS

Seen(m) == \E i \in DOMAIN arrived : arrived[i] = m

\* An event is published once at most, and a message is known to nobody
\* before it has arrived.
PublishedOnce ==
  /\ \A t, u \in Threads : sending[t] # None /\ sending[t] = sending[u] => t = u
  /\ \A t \in Threads : sending[t] \notin todo /\ ~Seen(sending[t])
  /\ \A c \in todo : ~Seen(c)
  /\ \A m \in ready \cup journal : Seen(m)
  /\ \A w \in Workers : unacked[w] # None => Seen(unacked[w])
  /\ \A w \in Workers : worker[w].msg # None => Seen(worker[w].msg)
  /\ \A c \in Clicks : docs[c] > 0 => Seen(c)

\* A message is in the queue or with one worker, as the broker sees it.
OnePlace ==
  /\ \A w \in Workers : unacked[w] \notin ready
  /\ \A w, v \in Workers : unacked[w] # None /\ unacked[w] = unacked[v] => w = v

\* What a worker with a connection works on is what the broker has given it,
\* and its next answer to the broker is the right one.
Holding ==
  \A w \in Workers :
    /\ worker[w].attached => unacked[w] = worker[w].msg
    /\ ~worker[w].attached => unacked[w] = None
    /\ worker[w].pc \in {"down", "wait", "exited"} <=> worker[w].msg = None
    /\ worker[w].pc \in {"down", "exited"} => ~worker[w].attached
    /\ worker[w].pc = "ack" => worker[w].msg \in Clicks /\ docs[worker[w].msg] > 0
    /\ worker[w].pc = "drop" => worker[w].msg \in Foreign

\* A click that was never redelivered is in one pair of hands, which store it
\* once.
StoredOnce ==
  \A c \in Clicks :
    c \notin redelivered =>
      /\ \A w \in Workers : worker[w].msg = c => c \notin ready
      /\ \A w, v \in Workers : worker[w].msg = c /\ worker[v].msg = c => w = v
      /\ docs[c] > 0 => /\ docs[c] = 1
                        /\ c \notin ready
                        /\ \A w \in Workers :
                             worker[w].msg = c => worker[w].pc # "process"

IInv ==
  TypeOK /\ PublishedOnce /\ OnePlace /\ Holding /\ StoredOnce /\ JournaledNotLost

-----------------------------------------------------------------------------
LEMMA ArriveSeen ==
  ASSUME arrived \in Seq(Messages), NEW m \in Messages,
         arrived' = Append(arrived, m)
  PROVE  /\ arrived' \in Seq(Messages)
         /\ \A n : Seen(n)' <=> Seen(n) \/ n = m
<1>1. Len(arrived') = Len(arrived) + 1
  OBVIOUS
<1>2. /\ \A i \in 1..Len(arrived) : arrived'[i] = arrived[i]
      /\ arrived'[Len(arrived) + 1] = m
  OBVIOUS
<1>3. DOMAIN arrived = 1..Len(arrived) /\ DOMAIN arrived' = 1..(Len(arrived) + 1)
  BY <1>1
<1>4. arrived' \in Seq(Messages)
  OBVIOUS
<1> QED
  BY <1>2, <1>3, <1>4 DEF Seen

LEMMA NoneUnseen ==
  ASSUME IInv
  PROVE  ~Seen(None) /\ None \notin todo
<1>1. \A i \in DOMAIN arrived : arrived[i] \in Messages
  BY DEF IInv, TypeOK
<1> QED
  BY <1>1, AnalyticsAssumption DEF IInv, TypeOK, Seen, Messages

LEMMA ArriveStep ==
  ASSUME IInv, NEW m \in Messages, ~Seen(m), m \notin todo, Arrive(m),
         UNCHANGED <<todo, workerVars, faults>>,
         conn' \in [Threads -> {"none", "open", "dead"}],
         sending' \in [Threads -> Clicks \cup {None}],
         \A u \in Threads :
           sending'[u] # None => sending'[u] = sending[u] /\ sending'[u] # m
  PROVE  IInv'
<1>1. /\ arrived' \in Seq(Messages)
      /\ \A n : Seen(n)' <=> Seen(n) \/ n = m
  BY ArriveSeen DEF IInv, TypeOK, Arrive
<1>2. TypeOK'
  BY <1>1 DEF IInv, TypeOK, Arrive, workerVars
<1>3. PublishedOnce'
  <2>1. ~Seen(None) /\ None \notin todo /\ m # None
    BY NoneUnseen, AnalyticsAssumption
  <2>2. \A u \in Threads : (sending[u] \notin todo /\ ~Seen(sending[u]))'
    BY <1>1, <2>1 DEF IInv, PublishedOnce
  <2>3. /\ \A n \in ready' \cup journal' : Seen(n)'
        /\ \A w \in Workers : unacked'[w] # None => Seen(unacked[w])'
        /\ \A w \in Workers : worker'[w].msg # None => Seen(worker[w].msg)'
        /\ \A c \in Clicks : docs'[c] > 0 => Seen(c)'
    BY <1>1 DEF IInv, PublishedOnce, Arrive, workerVars
  <2> QED
    BY <1>1, <2>2, <2>3 DEF IInv, PublishedOnce
<1>4. OnePlace'
  BY AnalyticsAssumption DEF IInv, PublishedOnce, OnePlace, Arrive, Messages
<1>5. Holding'
  BY DEF IInv, Holding, Arrive, workerVars
<1>6. StoredOnce'
  BY AnalyticsAssumption DEF IInv, PublishedOnce, StoredOnce, Arrive, workerVars,
     Messages
<1>7. JournaledNotLost'
  BY DEF IInv, JournaledNotLost, Arrive, workerVars
<1> QED
  BY <1>2, <1>3, <1>4, <1>5, <1>6, <1>7 DEF IInv

LEMMA ForeignArrivesStep ==
  ASSUME IInv, NEW m \in Foreign, ForeignArrives(m)
  PROVE  IInv'
<1>1. ~Seen(m) /\ m \notin todo /\ m \in Messages
  BY AnalyticsAssumption DEF IInv, TypeOK, ForeignArrives, Seen, Messages
<1>2. \A u \in Threads : sending[u] # m
  BY AnalyticsAssumption DEF IInv, TypeOK, Messages
<1> QED
  BY <1>1, <1>2, ArriveStep DEF IInv, TypeOK, ForeignArrives, publisherVars

\* The event of a thread goes nowhere.
LEMMA GivenUpStep ==
  ASSUME IInv, UNCHANGED <<todo, brokerVars, workerVars, faults>>,
         conn' \in [Threads -> {"none", "open", "dead"}],
         NEW t \in Threads, sending' = [sending EXCEPT ![t] = None]
  PROVE  IInv'
<1>1. TypeOK'
  BY DEF IInv, TypeOK, brokerVars, workerVars
<1>2. PublishedOnce'
  <2>1. \A n : Seen(n)' <=> Seen(n)
    BY DEF Seen, brokerVars
  <2> QED
    BY <2>1, NoneUnseen DEF IInv, TypeOK, PublishedOnce, brokerVars, workerVars
<1>3. OnePlace' /\ Holding' /\ StoredOnce' /\ JournaledNotLost'
  BY DEF IInv, OnePlace, Holding, StoredOnce, JournaledNotLost, brokerVars, workerVars
<1> QED
  BY <1>1, <1>2, <1>3 DEF IInv

LEMMA SentStep ==
  ASSUME IInv, NEW t \in Threads, sending[t] # None, Arrive(sending[t]),
         UNCHANGED <<todo, workerVars, faults>>,
         conn' \in [Threads -> {"none", "open", "dead"}],
         sending' = [sending EXCEPT ![t] = None]
  PROVE  IInv'
<1>1. sending[t] \in Messages /\ ~Seen(sending[t]) /\ sending[t] \notin todo
  BY DEF IInv, TypeOK, PublishedOnce, Messages
<1>2. \A u \in Threads :
        sending'[u] # None => sending'[u] = sending[u] /\ sending'[u] # sending[t]
  BY DEF IInv, TypeOK, PublishedOnce
<1>3. sending' \in [Threads -> Clicks \cup {None}]
  BY DEF IInv, TypeOK
<1> QED
  BY <1>1, <1>2, <1>3, ArriveStep

LEMMA BasicPublishStep ==
  ASSUME IInv, NEW t \in Threads, BasicPublish(t)
  PROVE  IInv'
<1>1. conn' \in [Threads -> {"none", "open", "dead"}]
  BY DEF IInv, TypeOK, BasicPublish
<1>2. CASE Arrive(sending[t])
  BY <1>1, <1>2, SentStep DEF BasicPublish
<1>3. CASE UNCHANGED brokerVars
  BY <1>1, <1>3, GivenUpStep DEF BasicPublish
<1> QED
  BY <1>2, <1>3 DEF BasicPublish

LEMMA PublishFailsStep ==
  ASSUME IInv, NEW t \in Threads, PublishFails(t)
  PROVE  IInv'
<1>1. conn' \in [Threads -> {"none", "open", "dead"}]
  BY DEF IInv, TypeOK, PublishFails
<1>2. CASE Arrive(sending[t])
  BY <1>1, <1>2, SentStep DEF PublishFails
<1>3. CASE UNCHANGED brokerVars
  BY <1>1, <1>3, GivenUpStep DEF PublishFails
<1> QED
  BY <1>2, <1>3 DEF PublishFails

LEMMA StutterStep ==
  ASSUME IInv, UNCHANGED analyticsVars
  PROVE  IInv'
  BY DEF IInv, TypeOK, PublishedOnce, OnePlace, Holding, StoredOnce, JournaledNotLost,
     analyticsVars, publisherVars, brokerVars, workerVars, Seen

LEMMA GetChannelStep ==
  ASSUME IInv, NEW t \in Threads, GetChannel(t)
  PROVE  IInv'
  BY AnalyticsAssumption DEF IInv, TypeOK, PublishedOnce, OnePlace, Holding, StoredOnce,
     JournaledNotLost, GetChannel, brokerVars, workerVars, Seen, Messages

LEMMA WriteJournalStep ==
  ASSUME IInv, WriteJournal
  PROVE  IInv'
  BY AnalyticsAssumption DEF IInv, TypeOK, PublishedOnce, OnePlace, Holding, StoredOnce,
     JournaledNotLost, WriteJournal, publisherVars, workerVars, Seen, Messages, Out, Unsettled

LEMMA InsertOneStep ==
  ASSUME IInv, NEW w \in Workers, InsertOne(w)
  PROVE  IInv'
  BY AnalyticsAssumption DEF IInv, TypeOK, PublishedOnce, OnePlace, Holding, StoredOnce,
     JournaledNotLost, InsertOne, publisherVars, brokerVars, Seen, Messages, Goto, Stored, WorkerState

LEMMA HeartbeatMissedStep ==
  ASSUME IInv, NEW t \in Threads, HeartbeatMissed(t)
  PROVE  IInv'
  BY AnalyticsAssumption DEF IInv, TypeOK, PublishedOnce, OnePlace, Holding, StoredOnce,
     JournaledNotLost, HeartbeatMissed, brokerVars, workerVars, Seen, Messages

LEMMA RestartBrokerStep ==
  ASSUME IInv, RestartBroker
  PROVE  IInv'
<1>1. TypeOK'
  <2>1. worker' \in [Workers -> WorkerState]
    BY DEF IInv, TypeOK, RestartBroker, WorkerState
  <2>2. conn' \in [Threads -> {"none", "open", "dead"}]
    BY DEF IInv, TypeOK, RestartBroker
  <2>3. faults' \in 0..MaxFaults
    BY AnalyticsAssumption DEF IInv, TypeOK, RestartBroker, Fault
  <2> QED
    BY <2>1, <2>2, <2>3 DEF IInv, TypeOK, RestartBroker, Out, Unsettled
<1>2. PublishedOnce'
  <2>1. \A v \in Workers : worker'[v].msg = worker[v].msg
    BY DEF IInv, TypeOK, RestartBroker, WorkerState
  <2>2. \A m \in Out : Seen(m)
    BY DEF IInv, PublishedOnce, Out, Unsettled
  <2>3. \A n : Seen(n)' <=> Seen(n)
    BY DEF RestartBroker, Seen
  <2>4. \A m \in (ready \cup journal)' : Seen(m)
    BY <2>2 DEF IInv, PublishedOnce, RestartBroker
  <2>5. \A v \in Workers : unacked'[v] = None
    BY DEF RestartBroker
  <2> QED
    BY <2>1, <2>3, <2>4, <2>5 DEF IInv, PublishedOnce, RestartBroker
<1>3. OnePlace'
  BY AnalyticsAssumption DEF IInv, TypeOK, OnePlace, RestartBroker, Fault, Out,
     Unsettled,
     Messages, WorkerState
<1>4. Holding'
  BY AnalyticsAssumption DEF IInv, TypeOK, Holding, RestartBroker, Fault, Out,
     Unsettled,
     Messages, WorkerState
<1>5. StoredOnce'
  BY AnalyticsAssumption DEF IInv, TypeOK, OnePlace, Holding, StoredOnce,
     RestartBroker, Fault, Out, Unsettled, Messages, WorkerState
<1>6. JournaledNotLost'
  BY AnalyticsAssumption DEF IInv, TypeOK, Holding, JournaledNotLost,
     RestartBroker, Fault, Out, Unsettled, Messages, WorkerState
<1> QED
  BY <1>1, <1>2, <1>3, <1>4, <1>5, <1>6 DEF IInv

LEMMA StartWorkerStep ==
  ASSUME IInv, NEW w \in Workers, StartWorker(w)
  PROVE  IInv'
<1>1. TypeOK'
  <2>1. worker' \in [Workers -> WorkerState]
    <3>1. worker[w] \in WorkerState
      BY DEF IInv, TypeOK
    <3>2. \A v \in Workers \ {w} : worker'[v] = worker[v]
      BY DEF IInv, TypeOK, StartWorker
    <3>3. worker'[w] = [[worker[w] EXCEPT !.pc = "wait"] EXCEPT !.attached = TRUE]
      BY DEF IInv, TypeOK, StartWorker
    <3>4. worker'[w] \in WorkerState
      BY <3>1, <3>3 DEF WorkerState
    <3>5. worker' \in [Workers -> WorkerState] <=> \A v \in Workers : worker'[v] \in WorkerState
      BY DEF IInv, TypeOK, StartWorker
    <3> QED
      BY <3>2, <3>4, <3>5 DEF IInv, TypeOK
  <2> QED
    BY <2>1 DEF IInv, TypeOK, StartWorker, publisherVars, brokerVars
<1>2. PublishedOnce'
  BY AnalyticsAssumption DEF IInv, TypeOK, PublishedOnce, StartWorker,
     publisherVars, brokerVars,
     Seen, Messages, WorkerState
<1>3. OnePlace'
  BY AnalyticsAssumption DEF IInv, TypeOK, OnePlace, StartWorker, publisherVars,
     brokerVars,
     Messages, WorkerState
<1>4. Holding'
  BY AnalyticsAssumption DEF IInv, TypeOK, Holding, StartWorker, publisherVars,
     brokerVars,
     Messages, WorkerState
<1>5. StoredOnce'
  BY AnalyticsAssumption DEF IInv, TypeOK, OnePlace, Holding, StoredOnce,
     StartWorker, publisherVars, brokerVars, Messages, WorkerState
<1>6. JournaledNotLost'
  BY AnalyticsAssumption DEF IInv, TypeOK, Holding, JournaledNotLost,
     StartWorker, publisherVars, brokerVars, Messages, WorkerState
<1> QED
  BY <1>1, <1>2, <1>3, <1>4, <1>5, <1>6 DEF IInv

LEMMA DeliverStep ==
  ASSUME IInv, NEW w \in Workers, Deliver(w)
  PROVE  IInv'
  BY AnalyticsAssumption DEF IInv, TypeOK, PublishedOnce, OnePlace, Holding, StoredOnce,
     JournaledNotLost, Deliver, First, publisherVars,
     Seen, Messages, WorkerState

LEMMA MongoErrorStep ==
  ASSUME IInv, NEW w \in Workers, MongoError(w)
  PROVE  IInv'
<1>1. TypeOK'
  <2>1. worker' \in [Workers -> WorkerState]
    BY DEF IInv, TypeOK, MongoError, Goto, WorkerState
  <2>2. docs' \in [Clicks -> Nat] /\ faults' \in 0..MaxFaults
    BY AnalyticsAssumption DEF IInv, TypeOK, MongoError, Stored, Fault
  <2> QED
    BY <2>1, <2>2 DEF IInv, TypeOK, MongoError, publisherVars, brokerVars
<1>2. PublishedOnce'
  BY AnalyticsAssumption DEF IInv, TypeOK, PublishedOnce, MongoError,
     publisherVars, brokerVars, Goto, Stored, Fault,
     Seen, Messages, WorkerState
<1>3. OnePlace'
  BY AnalyticsAssumption DEF IInv, TypeOK, OnePlace, MongoError, publisherVars,
     brokerVars, Goto, Stored, Fault,
     Messages, WorkerState
<1>4. Holding'
  BY AnalyticsAssumption DEF IInv, TypeOK, Holding, MongoError, publisherVars,
     brokerVars, Goto, Stored, Fault,
     Messages, WorkerState
<1>5. StoredOnce'
  BY AnalyticsAssumption DEF IInv, TypeOK, OnePlace, Holding, StoredOnce,
     MongoError, publisherVars, brokerVars, Goto, Stored, Fault, Messages, WorkerState
<1>6. JournaledNotLost'
  BY AnalyticsAssumption DEF IInv, TypeOK, Holding, JournaledNotLost,
     MongoError, publisherVars, brokerVars, Goto, Stored, Fault, Messages, WorkerState
<1> QED
  BY <1>1, <1>2, <1>3, <1>4, <1>5, <1>6 DEF IInv

LEMMA MalformedStep ==
  ASSUME IInv, NEW w \in Workers, Malformed(w)
  PROVE  IInv'
  BY AnalyticsAssumption DEF IInv, TypeOK, PublishedOnce, OnePlace, Holding, StoredOnce,
     JournaledNotLost, Malformed, publisherVars, brokerVars, Goto,
     Seen, Messages, WorkerState

LEMMA NoObjectStep ==
  ASSUME IInv, NEW w \in Workers, NoObject(w)
  PROVE  IInv'
<1>1. TypeOK'
  BY AnalyticsAssumption DEF IInv, TypeOK, NoObject, publisherVars, brokerVars,
     Goto, Messages, WorkerState
<1>2. PublishedOnce'
  BY AnalyticsAssumption DEF IInv, TypeOK, PublishedOnce, NoObject, publisherVars,
     brokerVars, Goto,
     Seen, Messages, WorkerState
<1>3. OnePlace'
  BY AnalyticsAssumption DEF IInv, TypeOK, OnePlace, NoObject, publisherVars,
     brokerVars, Goto,
     Messages, WorkerState
<1>4. Holding'
  BY AnalyticsAssumption DEF IInv, TypeOK, Holding, NoObject, publisherVars,
     brokerVars, Goto,
     Messages, WorkerState
<1>5. StoredOnce'
  BY AnalyticsAssumption DEF IInv, TypeOK, OnePlace, Holding, StoredOnce,
     NoObject, publisherVars, brokerVars, Goto, Messages, WorkerState
<1>6. JournaledNotLost'
  BY AnalyticsAssumption DEF IInv, TypeOK, Holding, JournaledNotLost,
     NoObject, publisherVars, brokerVars, Goto, Messages, WorkerState
<1> QED
  BY <1>1, <1>2, <1>3, <1>4, <1>5, <1>6 DEF IInv

LEMMA AnswerStep ==
  ASSUME IInv, NEW w \in Workers, Answer(w)
  PROVE  IInv'
  BY AnalyticsAssumption DEF IInv, TypeOK, PublishedOnce, OnePlace, Holding, StoredOnce,
     JournaledNotLost, Answer, publisherVars, Return, Settle, Unsettled,
     Seen, Messages, WorkerState

LEMMA DisconnectedStep ==
  ASSUME IInv, NEW w \in Workers, Disconnected(w)
  PROVE  IInv'
  BY AnalyticsAssumption DEF IInv, TypeOK, PublishedOnce, OnePlace, Holding, StoredOnce,
     JournaledNotLost, Disconnected, publisherVars, brokerVars, Gone,
     Seen, Messages, WorkerState

LEMMA AnswerLostStep ==
  ASSUME IInv, NEW w \in Workers, AnswerLost(w)
  PROVE  IInv'
  BY AnalyticsAssumption DEF IInv, TypeOK, PublishedOnce, OnePlace, Holding, StoredOnce,
     JournaledNotLost, AnswerLost, publisherVars, Return, Unsettled, Fault,
     Seen, Messages, WorkerState

LEMMA LoseConnectionStep ==
  ASSUME IInv, NEW w \in Workers, LoseConnection(w)
  PROVE  IInv'
<1>1. TypeOK'
  <2>1. worker' \in [Workers -> WorkerState]
    BY DEF IInv, TypeOK, LoseConnection, WorkerState
  <2>2. faults' \in 0..MaxFaults
    BY AnalyticsAssumption DEF IInv, TypeOK, LoseConnection, Fault
  <2> QED
    BY <2>1, <2>2 DEF IInv, TypeOK, LoseConnection, publisherVars, Return, Unsettled
<1>2. PublishedOnce'
  BY AnalyticsAssumption DEF IInv, TypeOK, PublishedOnce, LoseConnection,
     publisherVars, Return, Unsettled, Fault,
     Seen, Messages, WorkerState
<1>3. OnePlace'
  BY AnalyticsAssumption DEF IInv, TypeOK, OnePlace, LoseConnection, publisherVars,
     Return, Unsettled, Fault,
     Messages, WorkerState
<1>4. Holding'
  BY AnalyticsAssumption DEF IInv, TypeOK, Holding, LoseConnection, publisherVars,
     Return, Unsettled, Fault,
     Messages, WorkerState
<1>5. StoredOnce'
  BY AnalyticsAssumption DEF IInv, TypeOK, OnePlace, Holding, StoredOnce,
     LoseConnection, publisherVars, Return, Unsettled, Fault, Messages, WorkerState
<1>6. JournaledNotLost'
  BY AnalyticsAssumption DEF IInv, TypeOK, Holding, JournaledNotLost,
     LoseConnection, publisherVars, Return, Unsettled, Fault, Messages, WorkerState
<1> QED
  BY <1>1, <1>2, <1>3, <1>4, <1>5, <1>6 DEF IInv

LEMMA CrashWorkerStep ==
  ASSUME IInv, NEW w \in Workers, CrashWorker(w)
  PROVE  IInv'
  BY AnalyticsAssumption DEF IInv, TypeOK, PublishedOnce, OnePlace, Holding, StoredOnce,
     JournaledNotLost, CrashWorker, publisherVars, Return, Unsettled, Fault, Gone,
     Seen, Messages, WorkerState

LEMMA SigtermStep ==
  ASSUME IInv, NEW w \in Workers, Sigterm(w)
  PROVE  IInv'
  BY AnalyticsAssumption DEF IInv, TypeOK, PublishedOnce, OnePlace, Holding, StoredOnce,
     JournaledNotLost, Sigterm, publisherVars, Return, Unsettled, Fault, Gone,
     Seen, Messages, WorkerState
-----------------------------------------------------------------------------
LEMMA InitInv ==
  Init => IInv
<1> SUFFICES ASSUME Init PROVE IInv
  OBVIOUS
<1>1. arrived \in Seq(Messages) /\ \A n : ~Seen(n)
  BY DEF Init, Seen
<1>2. TypeOK
  BY <1>1, AnalyticsAssumption DEF Init, TypeOK, WorkerState
<1>3. PublishedOnce /\ OnePlace /\ Holding /\ StoredOnce /\ JournaledNotLost
  BY <1>1, AnalyticsAssumption
     DEF Init, PublishedOnce, OnePlace, Holding, StoredOnce, JournaledNotLost, Messages
<1> QED
  BY <1>2, <1>3 DEF IInv

LEMMA NextInv ==
  IInv /\ [Next]_analyticsVars => IInv'
<1> SUFFICES ASSUME IInv, [Next]_analyticsVars PROVE IInv'
  OBVIOUS
<1>1. ASSUME NEW t \in Threads,
             \/ GetChannel(t) \/ BasicPublish(t) \/ PublishFails(t) \/ HeartbeatMissed(t)
      PROVE  IInv'
  BY <1>1, GetChannelStep, BasicPublishStep, PublishFailsStep, HeartbeatMissedStep
<1>2. ASSUME NEW m \in Foreign, ForeignArrives(m)
      PROVE  IInv'
  BY <1>2, ForeignArrivesStep
<1>3. ASSUME NEW w \in Workers,
             \/ StartWorker(w) \/ Consume(w) \/ MongoError(w) \/ AnswerLost(w)
             \/ LoseConnection(w) \/ CrashWorker(w) \/ Sigterm(w)
      PROVE  IInv'
  BY <1>3, StartWorkerStep, DeliverStep, InsertOneStep, MalformedStep, NoObjectStep,
     AnswerStep, DisconnectedStep, MongoErrorStep, AnswerLostStep, LoseConnectionStep,
     CrashWorkerStep, SigtermStep DEF Consume
<1> QED
  BY <1>1, <1>2, <1>3, WriteJournalStep, RestartBrokerStep, StutterStep DEF Next

\* The inductive invariant: who holds a message, and who has stored it, in
\* every behaviour of the pipeline (app/publisher.py, worker/consumer.py).
THEOREM AnalyticsInvariant == Spec => []IInv
<1>1. Init => IInv
  BY InitInv
<1>2. IInv /\ [Next]_analyticsVars => IInv'
  BY NextInv
<1> QED
  BY <1>1, <1>2, PTL DEF Spec

\* Every variable keeps its type; no thread ever keeps a connection that pika
\* knows to be closed.
THEOREM AnalyticsTypeCorrect == Spec => []TypeOK
<1>1. IInv => TypeOK
  BY DEF IInv
<1> QED
  BY <1>1, AnalyticsInvariant, PTL

\* "At-least-once": a click on the broker's disk is in the queue, with a worker
\* that has yet to answer, or stored, whatever crashes (on_message()).
THEOREM AnalyticsJournaledNotLost == Spec => []JournaledNotLost
<1>1. IInv => JournaledNotLost
  BY DEF IInv
<1> QED
  BY <1>1, AnalyticsInvariant, PTL

\* A click has a second document only after RabbitMQ has redelivered it: the
\* accepted tradeoff of on_message() is the only source of duplicates.
THEOREM AnalyticsDuplicatesAreRedeliveries == Spec => []DuplicatesAreRedeliveries
<1>1. IInv => DuplicatesAreRedeliveries
  BY DEF IInv, TypeOK, StoredOnce, DuplicatesAreRedeliveries
<1> QED
  BY <1>1, AnalyticsInvariant, PTL
-----------------------------------------------------------------------------
(* The refinement: each step is a step of the log of each click.           *)

\* The broker has c in memory or on disk.
Kept(c) == c \in ready \/ \E w \in Workers : unacked[w] = c

LEMMA Places ==
  ASSUME NEW c \in Clicks
  PROVE  /\ ~Seen(c) => PlaceOf(c) = "new"
         /\ Seen(c) /\ ~Kept(c) => PlaceOf(c) = "gone"
         /\ Seen(c) /\ Kept(c) /\ c \in journal => PlaceOf(c) = "disk"
         /\ Seen(c) /\ Kept(c) /\ c \notin journal => PlaceOf(c) = "memory"
<1>1. c \in Out <=> \E w \in Workers : unacked[w] = c
  BY AnalyticsAssumption DEF Out, Unsettled, Messages
<1> QED
  BY <1>1 DEF PlaceOf, Seen, Kept

LEMMA PlacesNext ==
  ASSUME NEW c \in Clicks
  PROVE  /\ ~Seen(c)' => PlaceOf(c)' = "new"
         /\ Seen(c)' /\ ~Kept(c)' => PlaceOf(c)' = "gone"
         /\ Seen(c)' /\ Kept(c)' /\ (c \in journal)' => PlaceOf(c)' = "disk"
         /\ Seen(c)' /\ Kept(c)' /\ (c \notin journal)' => PlaceOf(c)' = "memory"
<1>1. (c \in Out)' <=> \E w \in Workers : unacked'[w] = c
  BY AnalyticsAssumption DEF Out, Unsettled, Messages
<1> QED
  BY <1>1 DEF PlaceOf, Seen, Kept

LEMMA LogStutters ==
  ASSUME NEW c \in Clicks,
         Seen(c)' <=> Seen(c), Kept(c)' <=> Kept(c), (c \in journal)' <=> c \in journal,
         (c \in redelivered)' <=> c \in redelivered, docs'[c] = docs[c]
  PROVE  [Log(c)!Next]_(Log(c)!logVars)
<1>1. PlaceOf(c)' = PlaceOf(c)
  BY Places, PlacesNext
<1> QED
  BY <1>1 DEF Log!logVars

LEMMA LogAccepts ==
  ASSUME NEW c \in Clicks,
         ~Seen(c), Seen(c)', Kept(c)', (c \notin journal)',
         (c \in redelivered)' <=> c \in redelivered, docs'[c] = docs[c]
  PROVE  [Log(c)!Next]_(Log(c)!logVars)
<1>1. PlaceOf(c) = "new" /\ PlaceOf(c)' = "memory"
  BY Places, PlacesNext
<1> QED
  BY <1>1 DEF Log!Next, Log!Accept

LEMMA LogPersists ==
  ASSUME NEW c \in Clicks,
         Seen(c), Kept(c), c \notin journal, Seen(c)', Kept(c)', (c \in journal)',
         (c \in redelivered)' <=> c \in redelivered, docs'[c] = docs[c]
  PROVE  [Log(c)!Next]_(Log(c)!logVars)
<1>1. PlaceOf(c) = "memory" /\ PlaceOf(c)' = "disk"
  BY Places, PlacesNext
<1> QED
  BY <1>1 DEF Log!Next, Log!Persist

LEMMA LogLoses ==
  ASSUME NEW c \in Clicks,
         Seen(c), Kept(c), c \notin journal, Seen(c)', ~Kept(c)',
         (c \in redelivered)' <=> c \in redelivered, docs'[c] = docs[c]
  PROVE  [Log(c)!Next]_(Log(c)!logVars)
<1>1. PlaceOf(c) = "memory" /\ PlaceOf(c)' = "gone"
  BY Places, PlacesNext
<1> QED
  BY <1>1 DEF Log!Next, Log!Lose

LEMMA LogRedelivers ==
  ASSUME NEW c \in Clicks,
         Seen(c), Kept(c), Seen(c)', Kept(c)', (c \in journal)' <=> c \in journal,
         (c \in redelivered)', docs'[c] = docs[c]
  PROVE  [Log(c)!Next]_(Log(c)!logVars)
<1>1. PlaceOf(c)' = PlaceOf(c) /\ PlaceOf(c) \in {"memory", "disk"}
  BY Places, PlacesNext
<1> QED
  BY <1>1 DEF Log!Next, Log!Redeliver, Log!Queued

LEMMA LogStores ==
  ASSUME NEW c \in Clicks,
         Seen(c), UNCHANGED <<arrived, ready, journal, unacked, redelivered>>,
         docs[c] = 0 \/ c \in redelivered, docs'[c] = docs[c] + 1
  PROVE  [Log(c)!Next]_(Log(c)!logVars)
<1>1. PlaceOf(c)' = PlaceOf(c)
  BY DEF PlaceOf, Out, Unsettled
<1>2. PlaceOf(c) # "new"
  BY Places
<1> QED
  BY <1>1, <1>2 DEF Log!Next, Log!Store

LEMMA LogSettles ==
  ASSUME NEW c \in Clicks,
         Seen(c), Kept(c), docs[c] > 0, Seen(c)', ~Kept(c)',
         (c \in redelivered)' <=> c \in redelivered, docs'[c] = docs[c]
  PROVE  [Log(c)!Next]_(Log(c)!logVars)
<1>1. PlaceOf(c) \in {"memory", "disk"} /\ PlaceOf(c)' = "gone"
  BY Places, PlacesNext
<1> QED
  BY <1>1 DEF Log!Next, Log!Settle, Log!Queued

-----------------------------------------------------------------------------
LEMMA ArriveLog ==
  ASSUME IInv, NEW m \in Messages, ~Seen(m), Arrive(m), UNCHANGED docs, NEW c \in Clicks
  PROVE  [Log(c)!Next]_(Log(c)!logVars)
<1>1. \A n : Seen(n)' <=> Seen(n) \/ n = m
  BY ArriveSeen DEF IInv, TypeOK, Arrive
<1>2. CASE m = c
  <2>1. c \notin journal
    BY <1>2 DEF IInv, PublishedOnce
  <2>2. Kept(c)'
    BY <1>2 DEF Arrive, Kept
  <2> QED
    BY <1>1, <1>2, <2>1, <2>2, LogAccepts DEF Arrive
<1>3. CASE m # c
  <2>1. Kept(c)' <=> Kept(c)
    BY <1>3 DEF Arrive, Kept
  <2> QED
    BY <1>1, <1>3, <2>1, LogStutters DEF Arrive
<1> QED
  BY <1>2, <1>3

LEMMA QuietLog ==
  ASSUME UNCHANGED <<brokerVars, docs>>, NEW c \in Clicks
  PROVE  [Log(c)!Next]_(Log(c)!logVars)
<1>1. (Seen(c)' <=> Seen(c)) /\ (Kept(c)' <=> Kept(c))
  BY DEF Seen, Kept, brokerVars
<1> QED
  BY <1>1, LogStutters DEF brokerVars

LEMMA ReturnLog ==
  ASSUME IInv, NEW w \in Workers, Return(w), UNCHANGED docs, NEW c \in Clicks
  PROVE  [Log(c)!Next]_(Log(c)!logVars)
<1>1. Seen(c)' <=> Seen(c)
  BY DEF Seen, Return
<1>2. Kept(c)' <=> Kept(c)
  BY AnalyticsAssumption DEF IInv, TypeOK, Kept, Return, Unsettled, Messages
<1>3. CASE unacked[w] = c
  <2>1. Seen(c) /\ Kept(c) /\ c \in redelivered'
    BY <1>3, AnalyticsAssumption DEF IInv, PublishedOnce, Kept, Return, Unsettled,
       Messages
  <2> QED
    BY <1>1, <1>2, <2>1, LogRedelivers DEF Return
<1>4. CASE unacked[w] # c
  BY <1>1, <1>2, <1>4, LogStutters DEF Return, Unsettled
<1> QED
  BY <1>3, <1>4

LEMMA StoredLog ==
  ASSUME IInv, NEW w \in Workers, worker[w].pc = "process", worker[w].msg \in Clicks,
         Stored(w), UNCHANGED brokerVars, NEW c \in Clicks
  PROVE  [Log(c)!Next]_(Log(c)!logVars)
<1>1. CASE worker[w].msg = c
  <2>1. Seen(c) /\ docs'[c] = docs[c] + 1
    BY <1>1, AnalyticsAssumption DEF IInv, TypeOK, PublishedOnce, Stored, Messages
  <2>2. docs[c] = 0 \/ c \in redelivered
    BY <1>1 DEF IInv, TypeOK, StoredOnce
  <2> QED
    BY <2>1, <2>2, LogStores DEF brokerVars
<1>2. CASE worker[w].msg # c
  <2>1. docs'[c] = docs[c]
    BY <1>2 DEF IInv, TypeOK, Stored
  <2>2. (Seen(c)' <=> Seen(c)) /\ (Kept(c)' <=> Kept(c))
    BY DEF Seen, Kept, brokerVars
  <2> QED
    BY <2>1, <2>2, LogStutters DEF brokerVars
<1> QED
  BY <1>1, <1>2

LEMMA DeliverLog ==
  ASSUME IInv, NEW w \in Workers, Deliver(w), NEW c \in Clicks
  PROVE  [Log(c)!Next]_(Log(c)!logVars)
<1>1. unacked[w] = None
  BY DEF IInv, Holding, Deliver
<1>2. Seen(c)' <=> Seen(c)
  BY DEF Seen, Deliver
<1>3. Kept(c)' <=> Kept(c)
  BY <1>1, AnalyticsAssumption DEF IInv, TypeOK, Kept, Deliver, First, Messages
<1> QED
  BY <1>2, <1>3, LogStutters DEF Deliver

LEMMA AnswerLog ==
  ASSUME IInv, NEW w \in Workers, Answer(w), NEW c \in Clicks
  PROVE  [Log(c)!Next]_(Log(c)!logVars)
<1>1. CASE Return(w)
  BY <1>1, ReturnLog DEF Answer
<1>2. CASE Settle(w) /\ worker[w].pc # "requeue"
  <2>1. Seen(c)' <=> Seen(c)
    BY <1>2 DEF Seen, Settle
  <2>2. CASE unacked[w] = c
    <3>1. docs[c] > 0
      BY <2>2, <1>2, AnalyticsAssumption DEF IInv, Holding, Answer, Messages
    <3>2. Seen(c) /\ Kept(c)
      BY <2>2, AnalyticsAssumption DEF IInv, PublishedOnce, Kept, Messages
    <3>3. ~Kept(c)'
      BY <1>2, <2>2, AnalyticsAssumption DEF IInv, TypeOK, OnePlace, Kept, Settle,
         Messages
    <3> QED
      BY <1>2, <2>1, <3>1, <3>2, <3>3, LogSettles DEF Settle, Answer
  <2>3. CASE unacked[w] # c
    <3>1. Kept(c)' <=> Kept(c)
      BY <1>2, <2>3, AnalyticsAssumption DEF IInv, TypeOK, Kept, Settle, Messages
    <3> QED
      BY <1>2, <2>1, <3>1, LogStutters DEF Settle, Answer
  <2> QED
    BY <2>2, <2>3
<1> QED
  BY <1>1, <1>2 DEF Answer

LEMMA WriteJournalLog ==
  ASSUME IInv, WriteJournal, NEW c \in Clicks
  PROVE  [Log(c)!Next]_(Log(c)!logVars)
<1>1. (Seen(c)' <=> Seen(c)) /\ (Kept(c)' <=> Kept(c))
  BY DEF Seen, Kept, WriteJournal
<1>2. CASE (c \in journal)' <=> c \in journal
  BY <1>1, <1>2, LogStutters DEF WriteJournal, workerVars
<1>3. CASE ~((c \in journal)' <=> c \in journal)
  <2>1. c \notin journal /\ (c \in journal)' /\ c \in ready \cup Out
    BY <1>3 DEF WriteJournal
  <2>2. Kept(c) /\ Seen(c)
    BY <2>1, AnalyticsAssumption DEF IInv, PublishedOnce, Kept, Out, Unsettled, Messages
  <2> QED
    BY <1>1, <2>1, <2>2, LogPersists DEF WriteJournal, workerVars
<1> QED
  BY <1>2, <1>3

LEMMA RestartBrokerLog ==
  ASSUME IInv, RestartBroker, NEW c \in Clicks
  PROVE  [Log(c)!Next]_(Log(c)!logVars)
<1>1. Seen(c)' <=> Seen(c)
  BY DEF Seen, RestartBroker
<1>2. c \in Out <=> \E w \in Workers : unacked[w] = c
  BY AnalyticsAssumption DEF Out, Unsettled, Messages
<1>3. Kept(c)' <=> Kept(c) /\ c \in journal
  BY <1>2, AnalyticsAssumption DEF Kept, RestartBroker, Messages
<1>4. Kept(c) => Seen(c)
  BY AnalyticsAssumption DEF IInv, PublishedOnce, Kept, Messages
<1>5. CASE Kept(c) /\ c \notin journal
  BY <1>1, <1>3, <1>4, <1>5, LogLoses DEF RestartBroker
<1>6. CASE c \in Out /\ c \in journal
  BY <1>1, <1>2, <1>3, <1>4, <1>6, LogRedelivers DEF RestartBroker, Kept
<1>7. CASE ~Kept(c) \/ (c \in journal /\ c \notin Out)
  BY <1>1, <1>2, <1>3, <1>7, LogStutters DEF RestartBroker, Kept
<1> QED
  BY <1>2, <1>5, <1>6, <1>7 DEF Kept

LEMMA ImplementsInit ==
  Init => \A c \in Clicks : Log(c)!Init
<1> SUFFICES ASSUME Init, NEW c \in Clicks PROVE Log(c)!Init
  OBVIOUS
<1>1. ~Seen(c) /\ docs[c] = 0 /\ c \notin redelivered
  BY DEF Init, Seen
<1> QED
  BY <1>1, Places DEF Log!Init

LEMMA ImplementsNext ==
  ASSUME IInv, [Next]_analyticsVars, NEW c \in Clicks
  PROVE  [Log(c)!Next]_(Log(c)!logVars)
<1>1. ASSUME NEW t \in Threads, GetChannel(t) \/ HeartbeatMissed(t)
      PROVE  [Log(c)!Next]_(Log(c)!logVars)
  BY <1>1, QuietLog DEF GetChannel, HeartbeatMissed, workerVars
<1>2. ASSUME NEW t \in Threads, BasicPublish(t) \/ PublishFails(t)
      PROVE  [Log(c)!Next]_(Log(c)!logVars)
  <2>1. sending[t] \in Messages /\ ~Seen(sending[t]) /\ UNCHANGED docs
    BY <1>2 DEF IInv, TypeOK, PublishedOnce, BasicPublish, PublishFails, Messages,
       workerVars
  <2>2. Arrive(sending[t]) \/ UNCHANGED brokerVars
    BY <1>2 DEF BasicPublish, PublishFails
  <2> QED
    BY <2>1, <2>2, ArriveLog, QuietLog
<1>3. ASSUME NEW m \in Foreign, ForeignArrives(m)
      PROVE  [Log(c)!Next]_(Log(c)!logVars)
  BY <1>3, ArriveLog DEF ForeignArrives, Seen, Messages, workerVars
<1>4. ASSUME NEW w \in Workers,
             StartWorker(w) \/ Malformed(w) \/ NoObject(w) \/ Disconnected(w)
      PROVE  [Log(c)!Next]_(Log(c)!logVars)
  BY <1>4, QuietLog DEF StartWorker, Malformed, NoObject, Disconnected
<1>5. ASSUME NEW w \in Workers, InsertOne(w) \/ MongoError(w)
      PROVE  [Log(c)!Next]_(Log(c)!logVars)
  BY <1>5, StoredLog, QuietLog DEF InsertOne, MongoError
<1>6. ASSUME NEW w \in Workers,
             AnswerLost(w) \/ LoseConnection(w) \/ CrashWorker(w) \/ Sigterm(w)
      PROVE  [Log(c)!Next]_(Log(c)!logVars)
  BY <1>6, ReturnLog DEF AnswerLost, LoseConnection, CrashWorker, Sigterm
<1>7. CASE UNCHANGED analyticsVars
  BY <1>7, QuietLog DEF analyticsVars, workerVars
<1> QED
  BY <1>1, <1>2, <1>3, <1>4, <1>5, <1>6, <1>7, DeliverLog, AnswerLog, WriteJournalLog,
     RestartBrokerLog DEF Next, Consume

\* Any number of threads, workers, crashes and restarts of the broker, seen
\* from one click, do nothing that the log of ClickLog does not allow.
THEOREM AnalyticsImplementsClickLog == Spec => ImplementsClickLog
<1>1. Init => \A c \in Clicks : Log(c)!Init
  BY ImplementsInit
<1>2. IInv /\ [Next]_analyticsVars
        => [\A c \in Clicks : [Log(c)!Next]_(Log(c)!logVars)]_analyticsVars
  BY ImplementsNext
<1> QED
  BY <1>1, <1>2, AnalyticsInvariant, PTL DEF Spec, ImplementsClickLog
=============================================================================
