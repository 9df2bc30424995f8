--------------------------- MODULE ThroughputProofs ---------------------------
(***************************************************************************)
(* Proofs about Throughput, for every number of producers, consumers,      *)
(* messages and failing emplace calls, every capacity and every vendor.    *)
(*                                                                         *)
(* Barrier: the two ready counters count the threads behind them, so an    *)
(* open barrier has everybody behind it.  Loops: what a thread's count is  *)
(* at each point.  Queue: messages published and consumed, as turns of     *)
(* the loops (Counting), against the queue's counters.  Sums: the totals.  *)
(* Clock: the start time is stored before the first message.               *)
(***************************************************************************)
EXTENDS Throughput, Counting, FiniteSetTheorems, TLAPS

AllMessages == per_producer_num * P

ReadyConsumers == {c \in Consumers : pc[c] \notin {"unborn", "begin", "ready"}}
ReadyProducers == {p \in Producers : pc[p] \notin {"unborn", "begin"}}

(* Threads whose count is part of the totals.                              *)
AddedProducers == {p \in Producers : pc[p] = "done"}
AddedConsumers == {c \in Consumers : pc[c] \in {"max", "done"}}

Published == Turns(Producers, per_producer_num, i)
Taken     == Turns(Consumers, AllMessages, i)

Barrier ==
  /\ consumers_ready_num = Cardinality(ReadyConsumers)
  /\ producers_ready_num = Cardinality(ReadyProducers)
  /\ ReadyProducers # {} => ReadyConsumers = Consumers
  /\ \A p \in Producers : pc[p] \in {"emplace", "add", "done"} => ReadyProducers = Producers

Loops ==
  /\ \A p \in Producers :
       /\ pc[p] \in {"unborn", "begin", "await", "emplace", "add", "done"}
       /\ pc[p] \in {"unborn", "begin", "await"} => i[p] = 0
       /\ pc[p] = "emplace" => i[p] < per_producer_num
       /\ pc[p] \in {"add", "done"} => i[p] = per_producer_num
  /\ \A c \in Consumers :
       /\ pc[c] \in {"unborn", "begin", "ready", "await", "consume", "add", "max", "done"}
       /\ pc[c] \in {"unborn", "begin", "ready", "await"} => i[c] = 0
       /\ pc[c] = "consume" => i[c] < per_consumer_num \/ (per_consumer_num = 0 /\ Vendor = "mgark")
       /\ pc[c] \in {"add", "max", "done"} => i[c] = per_consumer_num

Queue ==
  /\ log = Cardinality(Published)
  /\ \A c \in Consumers : i[c] <= cursor[Reader(c)] /\ (multicast => i[c] = cursor[c])
  /\ ~ multicast => cursor[<<"c", 1>>] = Cardinality(Taken)

Sums ==
  /\ total_msg_published = per_producer_num * Cardinality(AddedProducers)
  /\ total_msg_consumed = per_consumer_num * Cardinality(AddedConsumers)
  /\ max_consumed \in {0, per_consumer_num}
  /\ \A c \in Consumers : pc[c] = "done" => max_consumed = per_consumer_num

Over ==
  main # "running" => AllDone /\ (main = "thrown" => per_consumer_num < per_producer_num)

Clock == start_time = Unset => \A p \in Producers : pc[p] \in {"unborn", "begin", "await"}

-----------------------------------------------------------------------------
(* Threads, and how many there are.                                        *)

LEMMA ThreadFacts ==
  /\ Producers \subseteq Threads /\ Consumers \subseteq Threads
  /\ \A p \in Producers : p \notin Consumers
  /\ <<"p", 1>> \in Producers /\ <<"c", 1>> \in Consumers
  /\ \A c \in Consumers : Reader(c) \in Consumers
BY ThreadAssumption DEF Producers, Consumers, Threads, Reader

LEMMA ThreadNumbers ==
  /\ IsFiniteSet(Producers) /\ Cardinality(Producers) = P
  /\ IsFiniteSet(Consumers) /\ Cardinality(Consumers) = C
<1>1. /\ IsFiniteSet(1 .. P) /\ Cardinality(1 .. P) = P
      /\ IsFiniteSet(1 .. C) /\ Cardinality(1 .. C) = C
  BY ThreadAssumption, FS_Interval
<1>2. /\ IsFiniteSet({"p"}) /\ Cardinality({"p"}) = 1
      /\ IsFiniteSet({"c"}) /\ Cardinality({"c"}) = 1
  BY FS_Singleton
<1>3. /\ IsFiniteSet({"p"} \X (1 .. P))
      /\ Cardinality({"p"} \X (1 .. P)) = Cardinality({"p"}) * Cardinality(1 .. P)
  BY <1>1, <1>2, FS_Product
<1>4. /\ IsFiniteSet({"c"} \X (1 .. C))
      /\ Cardinality({"c"} \X (1 .. C)) = Cardinality({"c"}) * Cardinality(1 .. C)
  BY <1>1, <1>2, FS_Product
<1>5. QED
  BY <1>1, <1>2, <1>3, <1>4, ThreadAssumption DEF Producers, Consumers

LEMMA Multiples ==
  ASSUME NEW n \in Nat \ {0}, NEW d \in Nat
  PROVE  n * d \in Nat /\ d <= n * d /\ n * d = d * n
OBVIOUS

LEMMA Shares ==
  /\ per_producer_num \in Nat /\ AllMessages \in Nat /\ per_producer_num <= AllMessages
  /\ per_consumer_num \in Nat /\ per_consumer_num <= AllMessages
  /\ multicast => per_consumer_num = AllMessages
  /\ ~ multicast => per_consumer_num * C <= AllMessages /\ AllMessages < per_consumer_num * C + C
<1>1. per_producer_num \in Nat
  BY ThreadAssumption, SizeAssumption DEF per_producer_num
<1>2. AllMessages \in Nat /\ per_producer_num <= AllMessages
  BY <1>1, ThreadAssumption DEF AllMessages
<1>3. CASE multicast
  BY <1>1, <1>2, <1>3 DEF per_consumer_num, AllMessages
<1>4. CASE ~ multicast
  <2>1. per_consumer_num = AllMessages \div C
    BY <1>4 DEF per_consumer_num, AllMessages
  <2>2. /\ AllMessages = C * (AllMessages \div C) + (AllMessages % C)
        /\ AllMessages \div C \in Nat /\ AllMessages % C \in 0 .. C - 1
    BY <1>2, ThreadAssumption
  <2>3. AllMessages \div C <= C * (AllMessages \div C) /\ C * (AllMessages \div C) = (AllMessages \div C) * C
    BY <2>2, ThreadAssumption, Multiples
  <2>4. (AllMessages \div C) * C \in Nat
    BY <2>2, ThreadAssumption
  <2>5. QED
    BY <1>1, <1>2, <1>4, <2>1, <2>2, <2>3, <2>4, ThreadAssumption
<1>5. QED
  BY <1>3, <1>4

LEMMA SharesFixed ==
  [Next]_vars => UNCHANGED multicast /\ per_consumer_num' = per_consumer_num
<1>1. [Next]_vars => UNCHANGED multicast
  BY DEF Next, MainStep, ProducerStep, ConsumerStep, ProducerReady, StartTime, AddPublished, Emplace,
         Join, ConsumerReady, SeeAll, Consume, AddConsumed, MaxConsumed, Spawn, JoinAndCheck,
         mainVars, vars
<1>2. UNCHANGED multicast => per_consumer_num' = per_consumer_num
  BY DEF per_consumer_num
<1>3. QED
  BY <1>1, <1>2

-----------------------------------------------------------------------------
(* Types, the barrier and the loops.                                       *)

Basis == TypeOK /\ Barrier /\ Loops

(* A barrier that is open has all its threads behind it.                   *)
LEMMA BarrierMeans ==
  ASSUME Barrier
  PROVE  /\ ConsumersReady => ReadyConsumers = Consumers
         /\ ProducersReady => ReadyProducers = Producers
<1>1. ReadyConsumers \in SUBSET Consumers /\ ReadyProducers \in SUBSET Producers
  BY DEF ReadyConsumers, ReadyProducers
<1>2. /\ Cardinality(ReadyConsumers) \in 0 .. C
      /\ Cardinality(ReadyConsumers) = C => ReadyConsumers = Consumers
  BY <1>1, ThreadNumbers, PartSize
<1>3. /\ Cardinality(ReadyProducers) \in 0 .. P
      /\ Cardinality(ReadyProducers) = P => ReadyProducers = Producers
  BY <1>1, ThreadNumbers, PartSize
<1>4. QED
  BY <1>2, <1>3, ThreadAssumption DEF Barrier, ConsumersReady, ProducersReady

LEMMA BasisInit == Init => Basis
<1> SUFFICES ASSUME Init PROVE Basis
  OBVIOUS
<1>1. TypeOK
  BY ThreadAssumption, SizeAssumption, FailureAssumption, ThreadFacts, Shares DEF Init, TypeOK
<1>2. ReadyConsumers = {} /\ ReadyProducers = {}
  BY ThreadFacts DEF Init, ReadyConsumers, ReadyProducers
<1>3. Barrier
  BY <1>2, FS_EmptySet, ThreadFacts DEF Init, Barrier
<1>4. Loops
  BY ThreadFacts DEF Init, Loops
<1>5. QED
  BY <1>1, <1>3, <1>4 DEF Basis

LEMMA BasisStep == Basis /\ [Next]_vars => Basis'
<1> SUFFICES ASSUME Basis, [Next]_vars PROVE Basis'
  OBVIOUS
<1>t. TypeOK /\ Barrier /\ Loops
  BY DEF Basis
<1>k. UNCHANGED multicast /\ per_consumer_num' = per_consumer_num
  BY SharesFixed
<1> USE ThreadFacts, Shares, ThreadAssumption
  (* Steps of a thread that is behind its ready counter, or before it.     *)
<1>a. ASSUME NEW t \in Threads, NEW to, pc' = [pc EXCEPT ![t] = to], UNCHANGED readyVars,
             t \in Producers => \/ /\ pc[t] \in {"unborn"} /\ to \in {"begin"}
                                \/ /\ pc[t] \in {"await", "emplace", "add"}
                                   /\ to \in {"emplace", "add", "done"}
                                   /\ pc[t] = "await" => ProducersReady,
             t \in Consumers => \/ /\ pc[t] \in {"unborn", "begin"} /\ to \in {"begin", "ready"}
                                \/ /\ pc[t] \in {"await", "consume", "add", "max"}
                                   /\ to \in {"consume", "add", "max", "done"}
      PROVE  Barrier'
  <2>1. ReadyConsumers' = ReadyConsumers
    BY <1>a, <1>t DEF ReadyConsumers, TypeOK
  <2>2. ReadyProducers' = ReadyProducers
    BY <1>a, <1>t DEF ReadyProducers, TypeOK
  <2>3. ASSUME NEW p \in Producers, pc'[p] \in {"emplace", "add", "done"}
        PROVE  ReadyProducers = Producers
    <3>1. CASE p = t
      BY <1>a, <1>t, <2>3, <3>1, BarrierMeans DEF Barrier, TypeOK
    <3>2. CASE p # t
      BY <1>a, <1>t, <2>3, <3>2 DEF Barrier, TypeOK
    <3>3. QED
      BY <3>1, <3>2
  <2>4. QED
    BY <1>a, <1>t, <2>1, <2>2, <2>3 DEF Barrier, readyVars
<1>1. ASSUME NEW p \in Producers, ProducerReady(p) PROVE Basis'
  <2>1. pc[p] = "begin" /\ pc' = [pc EXCEPT ![p] = "await"] /\ p \in Threads
    BY <1>1 DEF ProducerReady, Goto
  <2>2. /\ p \notin ReadyProducers /\ ReadyProducers \in SUBSET Producers
        /\ ReadyProducers' = ReadyProducers \cup {p} /\ ReadyProducers' \in SUBSET Producers
    BY <1>t, <2>1 DEF ReadyProducers, TypeOK
  <2>3. /\ Cardinality(ReadyProducers') = Cardinality(ReadyProducers) + 1
        /\ Cardinality(ReadyProducers') \in 0 .. P
    BY <2>2, ThreadNumbers, Gain, PartSize
  <2>4. producers_ready_num' = Cardinality(ReadyProducers')
    BY <1>1, <1>t, <2>3 DEF ProducerReady, Barrier
  <2>5. ReadyConsumers' = ReadyConsumers /\ ReadyConsumers = Consumers
    BY <1>1, <1>t, <2>1, BarrierMeans DEF ProducerReady, ReadyConsumers, TypeOK
  <2>6. TypeOK'
    BY <1>1, <1>t, <2>1, <2>3, <2>4 DEF ProducerReady, TypeOK, mainVars, totalVars, queueVars
  <2>7. Barrier'
    <3>1. UNCHANGED consumers_ready_num
      BY <1>1 DEF ProducerReady
    <3>2. ASSUME NEW u \in Producers, pc'[u] \in {"emplace", "add", "done"}
          PROVE  ReadyProducers' = Producers
      <4>1. u # p /\ pc[u] \in {"emplace", "add", "done"}
        BY <1>t, <2>1, <3>2 DEF TypeOK
      <4>2. QED
        BY <1>t, <2>2, <4>1 DEF Barrier
    <3>3. QED
      BY <1>t, <2>4, <2>5, <3>1, <3>2 DEF Barrier
  <2>8. Loops'
    BY <1>1, <1>t, <1>k, <2>1 DEF ProducerReady, Loops, TypeOK
  <2>9. QED
    BY <2>6, <2>7, <2>8 DEF Basis
<1>2. ASSUME NEW p \in Producers, StartTime(p) PROVE Basis'
  <2>1. /\ pc[p] = "await" /\ pc' = [pc EXCEPT ![p] = ProduceLoop(0)] /\ p \in Threads
        /\ ProduceLoop(0) \in {"emplace", "add"} /\ ProducersReady
    BY <1>2 DEF StartTime, Goto, ProduceLoop
  <2>2. TypeOK'
    BY <1>2, <1>t, <2>1 DEF StartTime, StartedAt, TypeOK, mainVars, readyVars, totalVars, queueVars
  <2>3. Barrier'
    BY <1>2, <1>a, <2>1 DEF StartTime
  <2>4. Loops'
    BY <1>2, <1>t, <1>k, <2>1 DEF StartTime, ProduceLoop, Loops, TypeOK
  <2>5. QED
    BY <2>2, <2>3, <2>4 DEF Basis
<1>3. ASSUME NEW p \in Producers, NEW b \in BOOLEAN, Emplace(p, b) PROVE Basis'
  <2> DEFINE n == Counted(i[p], b)
  <2>1. /\ pc[p] = "emplace" /\ pc' = [pc EXCEPT ![p] = ProduceLoop(n)] /\ p \in Threads
        /\ ProduceLoop(n) \in {"emplace", "add"} /\ i' = [i EXCEPT ![p] = n]
    BY <1>3 DEF Emplace, Goto, ProduceLoop
  <2>2. n \in Nat /\ n <= per_producer_num /\ (n < per_producer_num <=> ProduceLoop(n) = "emplace")
    BY <1>t, <2>1 DEF Counted, ProduceLoop, Loops, TypeOK
  <2> HIDE DEF n
  <2>3. /\ log' \in Nat /\ log <= log' /\ UNCHANGED cursor /\ failures' \in 0 .. MaxFailures
    BY <1>3, <1>t, FailureAssumption DEF Emplace, QueueEmplace, TypeOK
  <2>4. TypeOK'
    BY <1>3, <1>t, <2>1, <2>2, <2>3 DEF Emplace, TypeOK, mainVars, readyVars, totalVars
  <2>5. Barrier'
    BY <1>3, <1>a, <2>1 DEF Emplace
  <2>6. Loops'
    BY <1>3, <1>t, <1>k, <2>1, <2>2 DEF Loops, TypeOK
  <2>7. QED
    BY <2>4, <2>5, <2>6 DEF Basis
<1>4. ASSUME NEW p \in Producers, AddPublished(p) PROVE Basis'
  <2>1. pc[p] = "add" /\ pc' = [pc EXCEPT ![p] = "done"] /\ p \in Threads
    BY <1>4 DEF AddPublished, Goto
  <2>2. TypeOK'
    BY <1>4, <1>t, <2>1 DEF AddPublished, TypeOK, mainVars, readyVars, queueVars
  <2>3. Barrier'
    BY <1>4, <1>a, <2>1 DEF AddPublished
  <2>4. Loops'
    BY <1>4, <1>t, <1>k, <2>1 DEF AddPublished, Loops, TypeOK
  <2>5. QED
    BY <2>2, <2>3, <2>4 DEF Basis
<1>5. ASSUME NEW c \in Consumers, Join(c) PROVE Basis'
  <2>1. pc[c] = "begin" /\ pc' = [pc EXCEPT ![c] = "ready"] /\ c \in Threads /\ c \notin Producers
    BY <1>5 DEF Join, Goto
  <2>2. TypeOK'
    BY <1>5, <1>t, <2>1 DEF Join, QueueJoin, TypeOK, mainVars, readyVars, totalVars
  <2>3. Barrier'
    BY <1>5, <1>a, <2>1 DEF Join
  <2>4. Loops'
    BY <1>5, <1>t, <1>k, <2>1 DEF Join, Loops, TypeOK
  <2>5. QED
    BY <2>2, <2>3, <2>4 DEF Basis
<1>6. ASSUME NEW c \in Consumers, ConsumerReady(c) PROVE Basis'
  <2>1. pc[c] = "ready" /\ pc' = [pc EXCEPT ![c] = "await"] /\ c \in Threads /\ c \notin Producers
    BY <1>6 DEF ConsumerReady, Goto
  <2>2. /\ c \notin ReadyConsumers /\ ReadyConsumers \in SUBSET Consumers
        /\ ReadyConsumers' = ReadyConsumers \cup {c} /\ ReadyConsumers' \in SUBSET Consumers
    BY <1>t, <2>1 DEF ReadyConsumers, TypeOK
  <2>3. /\ Cardinality(ReadyConsumers') = Cardinality(ReadyConsumers) + 1
        /\ Cardinality(ReadyConsumers') \in 0 .. C
    BY <2>2, ThreadNumbers, Gain, PartSize
  <2>4. consumers_ready_num' = Cardinality(ReadyConsumers')
    BY <1>6, <1>t, <2>3 DEF ConsumerReady, Barrier
  <2>5. ReadyProducers' = ReadyProducers
    BY <1>t, <2>1 DEF ReadyProducers, TypeOK
  <2>6. TypeOK'
    BY <1>6, <1>t, <2>1, <2>3, <2>4 DEF ConsumerReady, TypeOK, mainVars, totalVars, queueVars
  <2>7. Barrier'
    <3>1. UNCHANGED producers_ready_num
      BY <1>6 DEF ConsumerReady
    <3>2. \A p \in Producers : pc'[p] = pc[p]
      BY <1>t, <2>1 DEF TypeOK
    <3>3. ReadyProducers # {} => ReadyConsumers' = Consumers
      BY <1>t, <2>2 DEF Barrier
    <3>4. QED
      BY <1>t, <2>4, <2>5, <3>1, <3>2, <3>3 DEF Barrier
  <2>8. Loops'
    BY <1>6, <1>t, <1>k, <2>1 DEF ConsumerReady, Loops, TypeOK
  <2>9. QED
    BY <2>6, <2>7, <2>8 DEF Basis
<1>7. ASSUME NEW c \in Consumers, SeeAll(c) PROVE Basis'
  <2> DEFINE to == IF per_consumer_num = 0 /\ Vendor # "mgark" THEN "add" ELSE "consume"
  <2>1. /\ pc[c] = "await" /\ pc' = [pc EXCEPT ![c] = to] /\ c \in Threads /\ c \notin Producers
        /\ to \in {"add", "consume"}
    BY <1>7 DEF SeeAll, Goto
  <2>2. /\ to = "add" => per_consumer_num = 0
        /\ to = "consume" => 0 < per_consumer_num \/ (per_consumer_num = 0 /\ Vendor = "mgark")
    OBVIOUS
  <2> HIDE DEF to
  <2>3. TypeOK'
    BY <1>7, <1>t, <2>1 DEF SeeAll, TypeOK, mainVars, readyVars, totalVars, queueVars
  <2>4. Barrier'
    BY <1>7, <1>a, <2>1 DEF SeeAll
  <2>5. Loops'
    BY <1>7, <1>t, <1>k, <2>1, <2>2 DEF SeeAll, Loops, TypeOK
  <2>6. QED
    BY <2>3, <2>4, <2>5 DEF Basis
<1>8. ASSUME NEW c \in Consumers, Consume(c) PROVE Basis'
  <2> DEFINE to == IF i[c] + 1 = per_consumer_num THEN "add" ELSE "consume"
  <2>1. /\ pc[c] = "consume" /\ pc' = [pc EXCEPT ![c] = to] /\ c \in Threads /\ c \notin Producers
        /\ to \in {"add", "consume"} /\ i' = [i EXCEPT ![c] = @ + 1] /\ i[c] \in Nat
    BY <1>8, <1>t DEF Consume, Goto, TypeOK
  <2>2. /\ to = "add" => i[c] + 1 = per_consumer_num
        /\ to = "consume" => \/ i[c] + 1 < per_consumer_num
                             \/ per_consumer_num = 0 /\ Vendor = "mgark"
    BY <1>t, <2>1 DEF Loops
  <2> HIDE DEF to
  <2>3. /\ UNCHANGED <<log, failures>> /\ cursor' \in [Consumers -> 0 .. log]
    BY <1>8, <1>t DEF Consume, QueueConsume, HasMessage, TypeOK
  <2>4. TypeOK'
    BY <1>8, <1>t, <2>1, <2>3 DEF Consume, TypeOK, mainVars, readyVars, totalVars
  <2>5. Barrier'
    BY <1>8, <1>a, <2>1 DEF Consume
  <2>6. Loops'
    BY <1>t, <1>k, <2>1, <2>2 DEF Loops, TypeOK
  <2>7. QED
    BY <2>4, <2>5, <2>6 DEF Basis
<1>9. ASSUME NEW c \in Consumers, AddConsumed(c) PROVE Basis'
  <2>1. pc[c] = "add" /\ pc' = [pc EXCEPT ![c] = "max"] /\ c \in Threads /\ c \notin Producers
    BY <1>9, <1>t DEF AddConsumed, Goto, Loops
  <2>2. TypeOK'
    BY <1>9, <1>t, <2>1 DEF AddConsumed, TypeOK, mainVars, readyVars, queueVars
  <2>3. Barrier'
    BY <1>9, <1>a, <2>1 DEF AddConsumed
  <2>4. Loops'
    BY <1>9, <1>t, <1>k, <2>1 DEF AddConsumed, Loops, TypeOK
  <2>5. QED
    BY <2>2, <2>3, <2>4 DEF Basis
<1>10. ASSUME NEW c \in Consumers, MaxConsumed(c) PROVE Basis'
  <2>1. pc[c] = "max" /\ pc' = [pc EXCEPT ![c] = "done"] /\ c \in Threads /\ c \notin Producers
    BY <1>10 DEF MaxConsumed, Goto
  <2>2. TypeOK'
    BY <1>10, <1>t, <2>1 DEF MaxConsumed, TypeOK, mainVars, readyVars, queueVars
  <2>3. Barrier'
    BY <1>10, <1>a, <2>1 DEF MaxConsumed
  <2>4. Loops'
    BY <1>10, <1>t, <1>k, <2>1 DEF MaxConsumed, Loops, TypeOK
  <2>5. QED
    BY <2>2, <2>3, <2>4 DEF Basis
<1>11. CASE Spawn
  <2> DEFINE u == IF spawned < P THEN <<"p", spawned + 1>> ELSE <<"c", spawned + 1 - P>>
  <2>1. u \in Threads /\ pc[u] = "unborn" /\ pc' = [pc EXCEPT ![u] = "begin"]
    BY <1>11, <1>t DEF Spawn, Goto, TypeOK, Threads, Producers, Consumers
  <2> HIDE DEF u
  <2>2. TypeOK'
    BY <1>11, <1>t, <2>1 DEF Spawn, TypeOK, readyVars, totalVars, queueVars
  <2>3. Barrier'
    BY <1>11, <1>a, <2>1 DEF Spawn
  <2>4. Loops'
    BY <1>11, <1>t, <1>k, <2>1 DEF Spawn, Loops, TypeOK
  <2>5. QED
    BY <2>2, <2>3, <2>4 DEF Basis
<1>12. ASSUME UNCHANGED <<pc, i, readyVars, start_time, totalVars, queueVars, spawned>>,
              main' \in {"running", "returned", "thrown"}
       PROVE  Basis'
  <2>1. TypeOK'
    BY <1>12, <1>k, <1>t DEF TypeOK, readyVars, totalVars, queueVars
  <2>2. Barrier' /\ Loops'
    BY <1>12, <1>k, <1>t DEF Barrier, ReadyConsumers, ReadyProducers, Loops, readyVars
  <2>3. QED
    BY <2>1, <2>2 DEF Basis
<1>13. CASE JoinAndCheck
  BY <1>12, <1>13 DEF JoinAndCheck
<1>14. CASE UNCHANGED vars
  BY <1>12, <1>14, <1>t DEF vars, mainVars, TypeOK
<1>15. QED
  BY <1>1, <1>2, <1>3, <1>4, <1>5, <1>6, <1>7, <1>8, <1>9, <1>10, <1>11, <1>13, <1>14
     DEF Next, MainStep, ProducerStep, ConsumerStep

-----------------------------------------------------------------------------
(* The queue's counters.                                                   *)

LEMMA LogBound == TypeOK /\ Queue => log \in 0 .. AllMessages
<1> SUFFICES ASSUME TypeOK, Queue PROVE log \in 0 .. AllMessages
  OBVIOUS
<1>1. log \in 0 .. P * per_producer_num
  BY ThreadNumbers, Shares, TurnsBound DEF Queue, Published
<1>2. P * per_producer_num = AllMessages
  BY Shares, ThreadAssumption DEF AllMessages
<1>3. QED
  BY <1>1, <1>2

(* Nothing is published before a producer is ready, and so not before all  *)
(* consumers are.                                                          *)
LEMMA NothingYet ==
  ASSUME Basis, Queue, NEW c \in Consumers, pc[c] \in {"unborn", "begin", "ready"}
  PROVE  log = 0
<1>1. ReadyConsumers # Consumers
  BY DEF ReadyConsumers
<1>2. ReadyProducers = {}
  BY <1>1 DEF Basis, Barrier
<1>3. \A p \in Producers : i[p] = 0
  BY <1>2 DEF Basis, Loops, ReadyProducers
<1>4. Cardinality(Published) = 0
  BY <1>3, Shares, NoTurns DEF Published
<1>5. QED
  BY <1>4 DEF Queue

LEMMA QueueInit == Init => Queue
<1> SUFFICES ASSUME Init PROVE Queue
  OBVIOUS
<1>1. \A t \in Threads : i[t] = 0
  BY DEF Init
<1>2. (\A p \in Producers : i[p] = 0) /\ (\A c \in Consumers : i[c] = 0)
  BY <1>1, ThreadFacts
<1>3. Cardinality(Published) = 0 /\ Cardinality(Taken) = 0
  BY <1>2, Shares, NoTurns DEF Published, Taken
<1>4. \A c \in Consumers : cursor[c] = 0
  BY DEF Init
<1>5. QED
  BY <1>2, <1>3, <1>4, ThreadFacts DEF Init, Queue

LEMMA OnePublished ==
  ASSUME NEW p \in Producers, i[p] \in Nat, i[p] < per_producer_num, i'[p] = i[p] + 1,
         \A u \in Producers : u # p => i'[u] = i[u]
  PROVE  Cardinality(Published') = Cardinality(Published) + 1
<1>1. IsFiniteSet(Producers)
  BY ThreadNumbers
<1>2. per_producer_num \in Nat
  BY Shares
<1>3. Cardinality(Turns(Producers, per_producer_num, i')) = Cardinality(Turns(Producers, per_producer_num, i)) + 1
  BY <1>1, <1>2, OneTurnMore, ZenonT(30)
<1>4. QED
  BY <1>3 DEF Published

LEMMA OneTaken ==
  ASSUME NEW c \in Consumers, i[c] \in Nat, i[c] < AllMessages, i'[c] = i[c] + 1,
         \A u \in Consumers : u # c => i'[u] = i[u]
  PROVE  Cardinality(Taken') = Cardinality(Taken) + 1
<1>1. IsFiniteSet(Consumers)
  BY ThreadNumbers
<1>2. AllMessages \in Nat
  BY Shares
<1>3. Cardinality(Turns(Consumers, AllMessages, i')) = Cardinality(Turns(Consumers, AllMessages, i)) + 1
  BY <1>1, <1>2, OneTurnMore, ZenonT(30)
<1>4. QED
  BY <1>3 DEF Taken

LEMMA SamePublished ==
  ASSUME \A p \in Producers : i'[p] = i[p]
  PROVE  Published' = Published
BY DEF Published, Turns

LEMMA SameTaken ==
  ASSUME \A c \in Consumers : i'[c] = i[c]
  PROVE  Taken' = Taken
BY DEF Taken, Turns

LEMMA QueueStep == Basis /\ Queue /\ [Next]_vars => Queue'
<1> SUFFICES ASSUME Basis, Queue, [Next]_vars PROVE Queue'
  OBVIOUS
<1>t. TypeOK /\ Loops
  BY DEF Basis
<1>k. UNCHANGED multicast
  BY SharesFixed
<1>r. \A c \in Consumers : Reader(c)' = Reader(c)
  BY <1>k DEF Reader
<1> USE ThreadFacts, Shares
<1>a. ASSUME UNCHANGED <<i, log, cursor>> PROVE Queue'
  BY <1>a, <1>k, <1>r DEF Queue, Published, Taken, Turns
<1>1. ASSUME NEW p \in Producers, NEW b \in BOOLEAN, Emplace(p, b) PROVE Queue'
  <2>1. CASE b
    <3>1. i' = [i EXCEPT ![p] = @ + 1] /\ log' = log + 1 /\ UNCHANGED cursor
      BY <1>1, <2>1 DEF Emplace, QueueEmplace, Counted
    <3>2. i[p] \in Nat /\ i[p] < per_producer_num /\ i'[p] = i[p] + 1 /\ \A u \in Threads : u # p => i'[u] = i[u]
      BY <1>1, <1>t, <3>1 DEF Emplace, Goto, Loops, TypeOK
    <3>3. (\A u \in Producers : u # p => i'[u] = i[u]) /\ (\A c \in Consumers : i'[c] = i[c])
      BY <3>2
    <3>4. log' = Cardinality(Published')
      <4>1. Cardinality(Published') = Cardinality(Published) + 1
        BY <3>2, <3>3, OnePublished
      <4>2. QED
        BY <3>1, <4>1 DEF Queue
    <3>5. Taken' = Taken
      BY <3>3, SameTaken
    <3>6. QED
      BY <1>k, <1>r, <3>1, <3>3, <3>4, <3>5 DEF Queue
  <2>2. CASE ~ b
    <3>1. UNCHANGED <<i, log, cursor>>
      BY <1>1, <1>t, <2>2 DEF Emplace, QueueEmplace, Counted, TypeOK
    <3>2. QED
      BY <1>a, <3>1
  <2>3. QED
    BY <2>1, <2>2
<1>2. ASSUME NEW c \in Consumers, Join(c) PROVE Queue'
  <2>1. UNCHANGED <<i, log>> /\ pc[c] = "begin" /\ c \in Threads
    BY <1>2 DEF Join, QueueJoin, Goto
  <2>2. CASE multicast
    <3>1. log = 0 /\ i[c] = 0
      BY <1>t, <2>1, NothingYet DEF Loops
    <3>2. cursor' = [cursor EXCEPT ![c] = 0]
      BY <1>2, <2>2, <3>1 DEF Join, QueueJoin
    <3>3. \A u \in Consumers : i[u] = cursor[u]
      BY <2>2 DEF Queue
    <3>4. \A u \in Consumers : i'[u] = cursor'[u] /\ Reader(u)' = u /\ i[u] \in Nat
      BY <1>t, <1>r, <2>1, <2>2, <3>1, <3>2, <3>3 DEF TypeOK, Reader
    <3>5. log' = Cardinality(Published')
      BY <2>1 DEF Queue, Published, Turns
    <3>6. \A u \in Consumers : cursor'[u] \in Nat
      BY <1>t, <2>1, <3>4
    <3>7. QED
      BY <1>k, <2>2, <3>4, <3>5, <3>6 DEF Queue
  <2>3. CASE ~ multicast
    <3>1. UNCHANGED cursor
      BY <1>2, <2>3 DEF Join, QueueJoin
    <3>2. QED
      BY <1>a, <2>1, <3>1
  <2>4. QED
    BY <2>2, <2>3
<1>3. ASSUME NEW c \in Consumers, Consume(c) PROVE Queue'
  <2>1. /\ i' = [i EXCEPT ![c] = @ + 1] /\ cursor' = [cursor EXCEPT ![Reader(c)] = @ + 1]
        /\ UNCHANGED log /\ cursor[Reader(c)] < log
    BY <1>3 DEF Consume, QueueConsume, HasMessage
  <2>2. i'[c] = i[c] + 1 /\ i[c] \in Nat /\ \A u \in Threads : u # c => i'[u] = i[u] /\ i[u] \in Nat
    BY <1>t, <2>1 DEF TypeOK
  <2>3. (\A u \in Consumers : u # c => i'[u] = i[u]) /\ (\A p \in Producers : i'[p] = i[p])
    BY <2>2
  <2>4. i[c] < AllMessages
    <3>1. i[c] <= cursor[Reader(c)] /\ cursor[Reader(c)] \in Nat /\ log \in Nat /\ log <= AllMessages
      BY <1>t, LogBound DEF Queue, TypeOK
    <3>2. QED
      BY <2>1, <2>2, <3>1
  <2>5. Cardinality(Taken') = Cardinality(Taken) + 1
    BY <2>2, <2>3, <2>4, OneTaken
  <2>6. log' = Cardinality(Published')
    BY <2>1, <2>3, SamePublished DEF Queue
  <2>7. cursor'[Reader(c)] = cursor[Reader(c)] + 1 /\ \A u \in Consumers : cursor'[u] >= cursor[u] /\ cursor[u] \in Nat
    BY <1>t, <2>1 DEF TypeOK
  <2>8. ASSUME NEW u \in Consumers
         PROVE  i'[u] <= cursor'[Reader(u)] /\ (multicast => i'[u] = cursor'[u])
    <3>1. i[u] <= cursor[Reader(u)] /\ (multicast => i[u] = cursor[u] /\ Reader(u) = u /\ Reader(c) = c)
      BY DEF Queue, Reader
    <3>2. CASE u = c
      BY <2>2, <2>7, <3>1, <3>2
    <3>3. CASE u # c
      <4>1. i'[u] = i[u] /\ i[u] \in Nat /\ cursor[Reader(u)] \in Nat /\ cursor'[Reader(u)] >= cursor[Reader(u)]
        BY <2>2, <2>7, <3>3
      <4>2. cursor'[Reader(u)] \in Int
        BY <1>t, <2>1, <2>7 DEF TypeOK
      <4>3. multicast => cursor'[u] = cursor[u]
        BY <1>t, <2>1, <3>1, <3>3 DEF TypeOK
      <4>4. QED
        BY <3>1, <4>1, <4>2, <4>3
    <3>4. QED
      BY <3>2, <3>3
  <2>9. ~ multicast => cursor'[<<"c", 1>>] = Cardinality(Taken')
    <3>1. ~ multicast => Reader(c) = <<"c", 1>> /\ cursor[<<"c", 1>>] = Cardinality(Taken)
      BY DEF Queue, Reader
    <3>2. QED
      BY <2>5, <2>7, <3>1
  <2>10. QED
    BY <1>k, <1>r, <2>6, <2>8, <2>9 DEF Queue
<1>4. ASSUME NEW p \in Producers, ProducerReady(p) \/ StartTime(p) \/ AddPublished(p) PROVE Queue'
  BY <1>4, <1>a DEF ProducerReady, StartTime, AddPublished, queueVars
<1>5. ASSUME NEW c \in Consumers, ConsumerReady(c) \/ SeeAll(c) \/ AddConsumed(c) \/ MaxConsumed(c)
      PROVE  Queue'
  BY <1>5, <1>a DEF ConsumerReady, SeeAll, AddConsumed, MaxConsumed, queueVars
<1>6. CASE MainStep
  BY <1>6, <1>a DEF MainStep, Spawn, JoinAndCheck, queueVars
<1>7. CASE UNCHANGED vars
  BY <1>7, <1>a DEF vars, queueVars
<1>8. QED
  BY <1>1, <1>2, <1>3, <1>4, <1>5, <1>6, <1>7 DEF Next, ProducerStep, ConsumerStep

-----------------------------------------------------------------------------
(* The totals, the checks and the clock.                                   *)

LEMMA OneMoreProduct ==
  ASSUME NEW n \in Nat, NEW k \in Nat
  PROVE  n * (k + 1) = n * k + n
OBVIOUS

LEMMA SumsInit == Init => Sums
<1> SUFFICES ASSUME Init PROVE Sums
  OBVIOUS
<1>1. AddedProducers = {} /\ AddedConsumers = {}
  BY ThreadFacts DEF Init, AddedProducers, AddedConsumers
<1>2. Cardinality(AddedProducers) = 0 /\ Cardinality(AddedConsumers) = 0
  BY <1>1, FS_EmptySet
<1>3. QED
  BY <1>2, Shares, ThreadFacts DEF Init, Sums

LEMMA SumsStep == Basis /\ Sums /\ [Next]_vars => Sums'
<1> SUFFICES ASSUME Basis, Sums, [Next]_vars PROVE Sums'
  OBVIOUS
<1>t. TypeOK /\ Loops
  BY DEF Basis
<1>k. per_consumer_num' = per_consumer_num /\ per_producer_num' = per_producer_num
  BY SharesFixed DEF per_producer_num
<1> USE ThreadFacts, Shares
<1>a. ASSUME UNCHANGED totalVars, \A t \in Threads : pc'[t] = "max" <=> pc[t] = "max",
             \A t \in Threads : pc'[t] = "done" <=> pc[t] = "done"
      PROVE  Sums'
  <2>1. AddedProducers' = AddedProducers /\ AddedConsumers' = AddedConsumers
    BY <1>a DEF AddedProducers, AddedConsumers
  <2>2. QED
    BY <1>a, <1>k, <2>1 DEF Sums, totalVars
<1>b. ASSUME NEW t \in Threads, UNCHANGED totalVars, pc[t] \notin {"max", "done"},
             NEW to, to \notin {"max", "done"}, pc' = [pc EXCEPT ![t] = to]
      PROVE  Sums'
  BY <1>a, <1>b, <1>t DEF TypeOK
<1>1. ASSUME NEW p \in Producers, AddPublished(p) PROVE Sums'
  <2>1. /\ pc[p] = "add" /\ pc' = [pc EXCEPT ![p] = "done"] /\ i[p] = per_producer_num
        /\ total_msg_published' = total_msg_published + per_producer_num
        /\ UNCHANGED <<total_msg_consumed, max_consumed>>
    BY <1>1, <1>t DEF AddPublished, Goto, Loops
  <2>2. /\ p \notin AddedProducers /\ AddedProducers \in SUBSET Producers
        /\ AddedProducers' = AddedProducers \cup {p}
    BY <1>t, <2>1 DEF AddedProducers, TypeOK
  <2>3. /\ Cardinality(AddedProducers) \in Nat
        /\ Cardinality(AddedProducers') = Cardinality(AddedProducers) + 1
    BY <2>2, ThreadNumbers, Gain
  <2>4. total_msg_published' = per_producer_num * Cardinality(AddedProducers')
    BY <2>1, <2>3, OneMoreProduct DEF Sums
  <2>5. \A c \in Consumers : pc'[c] = pc[c]
    BY <1>t, <2>1 DEF TypeOK
  <2>6. AddedConsumers' = AddedConsumers
    BY <2>5 DEF AddedConsumers
  <2>7. QED
    BY <1>k, <2>1, <2>4, <2>5, <2>6 DEF Sums
<1>2. ASSUME NEW c \in Consumers, AddConsumed(c) PROVE Sums'
  <2>1. /\ pc[c] = "add" /\ pc' = [pc EXCEPT ![c] = "max"]
        /\ total_msg_consumed' = total_msg_consumed + per_consumer_num
        /\ UNCHANGED <<total_msg_published, max_consumed>>
    BY <1>2, <1>t DEF AddConsumed, Goto, Loops
  <2>2. /\ c \notin AddedConsumers /\ AddedConsumers \in SUBSET Consumers
        /\ AddedConsumers' = AddedConsumers \cup {c}
    BY <1>t, <2>1 DEF AddedConsumers, TypeOK
  <2>3. /\ Cardinality(AddedConsumers) \in Nat
        /\ Cardinality(AddedConsumers') = Cardinality(AddedConsumers) + 1
    BY <2>2, ThreadNumbers, Gain
  <2>4. total_msg_consumed' = per_consumer_num * Cardinality(AddedConsumers')
    BY <2>1, <2>3, OneMoreProduct DEF Sums
  <2>5. \A t \in Threads : pc'[t] = "done" <=> pc[t] = "done"
    BY <1>t, <2>1 DEF TypeOK
  <2>6. AddedProducers' = AddedProducers
    BY <2>5 DEF AddedProducers
  <2>7. QED
    BY <1>k, <2>1, <2>4, <2>5, <2>6 DEF Sums
<1>3. ASSUME NEW c \in Consumers, MaxConsumed(c) PROVE Sums'
  <2>1. /\ pc[c] = "max" /\ pc' = [pc EXCEPT ![c] = "done"] /\ i[c] = per_consumer_num
        /\ UNCHANGED <<total_msg_published, total_msg_consumed>>
    BY <1>3, <1>t DEF MaxConsumed, Goto, Loops
  <2>2. max_consumed' = per_consumer_num
    BY <1>3, <2>1 DEF MaxConsumed, Sums
  <2>3. AddedConsumers' = AddedConsumers /\ AddedProducers' = AddedProducers
    BY <1>t, <2>1 DEF AddedConsumers, AddedProducers, TypeOK
  <2>4. QED
    BY <1>k, <2>1, <2>2, <2>3 DEF Sums
<1>4. ASSUME NEW p \in Producers, ProducerReady(p) PROVE Sums'
  BY <1>4, <1>b DEF ProducerReady, Goto
<1>5. ASSUME NEW p \in Producers, StartTime(p) PROVE Sums'
  BY <1>5, <1>b DEF StartTime, ProduceLoop, Goto
<1>6. ASSUME NEW p \in Producers, NEW b \in BOOLEAN, Emplace(p, b) PROVE Sums'
  <2>1. PICK to \in {"emplace", "add"} : pc' = [pc EXCEPT ![p] = to]
    BY <1>6 DEF Emplace, ProduceLoop, Goto
  <2>2. pc[p] = "emplace" /\ UNCHANGED totalVars /\ p \in Threads
    BY <1>6 DEF Emplace, Goto
  <2>3. QED
    BY <1>b, <2>1, <2>2
<1>7. ASSUME NEW c \in Consumers, Join(c) PROVE Sums'
  BY <1>7, <1>b DEF Join, Goto
<1>8. ASSUME NEW c \in Consumers, ConsumerReady(c) PROVE Sums'
  BY <1>8, <1>b DEF ConsumerReady, Goto
<1>9. ASSUME NEW c \in Consumers, SeeAll(c) \/ Consume(c) PROVE Sums'
  <2>1. PICK to \in {"consume", "add"} : pc' = [pc EXCEPT ![c] = to]
    BY <1>9 DEF SeeAll, Consume, Goto
  <2>2. pc[c] \in {"await", "consume"} /\ UNCHANGED totalVars /\ c \in Threads
    BY <1>9 DEF SeeAll, Consume, Goto
  <2>3. QED
    BY <1>b, <2>1, <2>2
<1>10. CASE Spawn
  <2> DEFINE u == IF spawned < P THEN <<"p", spawned + 1>> ELSE <<"c", spawned + 1 - P>>
  <2>1. pc[u] = "unborn" /\ pc' = [pc EXCEPT ![u] = "begin"]
    BY <1>10 DEF Spawn, Goto
  <2> HIDE DEF u
  <2>2. /\ \A t \in Threads : pc'[t] = "max" <=> pc[t] = "max"
        /\ \A t \in Threads : pc'[t] = "done" <=> pc[t] = "done"
    BY <1>t, <2>1 DEF TypeOK
  <2>3. QED
    BY <1>10, <1>a, <2>2 DEF Spawn
<1>11. CASE JoinAndCheck
  BY <1>11, <1>a DEF JoinAndCheck
<1>12. CASE UNCHANGED vars
  BY <1>12, <1>a DEF vars
<1>13. QED
  BY <1>1, <1>2, <1>3, <1>4, <1>5, <1>6, <1>7, <1>8, <1>9, <1>10, <1>11, <1>12
     DEF Next, MainStep, ProducerStep, ConsumerStep

(* What the totals are when every thread has ended.                        *)
LEMMA AllTotals ==
  ASSUME Basis, Sums, AllDone
  PROVE  /\ total_msg_published = AllMessages
         /\ total_msg_consumed = total_consume_num
         /\ max_consumed = per_consumer_num
<1>1. AddedProducers = Producers /\ AddedConsumers = Consumers
  BY ThreadFacts DEF AllDone, AddedProducers, AddedConsumers
<1>2. pc[<<"c", 1>>] = "done"
  BY ThreadFacts DEF AllDone
<1>3. QED
  BY <1>1, <1>2, ThreadNumbers, ThreadFacts DEF Sums, AllMessages, total_consume_num

LEMMA OverStep == Basis /\ Sums /\ Over /\ [Next]_vars => Over'
<1> SUFFICES ASSUME Basis, Sums, Over, [Next]_vars PROVE Over'
  OBVIOUS
<1>t. TypeOK
  BY DEF Basis
<1>k. per_consumer_num' = per_consumer_num /\ per_producer_num' = per_producer_num
  BY SharesFixed DEF per_producer_num
<1> USE ThreadFacts
<1>a. ASSUME NEW t \in Threads, pc[t] # "done", UNCHANGED main PROVE Over'
  BY <1>a DEF Over, AllDone
<1>1. ASSUME NEW p \in Producers, ProducerStep(p) PROVE Over'
  BY <1>1, <1>a DEF ProducerStep, ProducerReady, StartTime, AddPublished, Emplace, Goto, mainVars
<1>2. ASSUME NEW c \in Consumers, ConsumerStep(c) PROVE Over'
  BY <1>2, <1>a DEF ConsumerStep, Join, ConsumerReady, SeeAll, Consume, AddConsumed, MaxConsumed,
                    Goto, mainVars
<1>3. CASE Spawn
  <2> DEFINE u == IF spawned < P THEN <<"p", spawned + 1>> ELSE <<"c", spawned + 1 - P>>
  <2>1. u \in Threads /\ pc[u] = "unborn" /\ UNCHANGED main
    BY <1>3, <1>t, ThreadAssumption DEF Spawn, Goto, TypeOK, Threads, Producers, Consumers
  <2> HIDE DEF u
  <2>2. QED
    BY <1>a, <2>1
<1>4. CASE JoinAndCheck
  <2>1. total_msg_consumed = total_consume_num /\ max_consumed = per_consumer_num
    BY <1>4, AllTotals DEF JoinAndCheck
  <2>2. QED
    BY <1>4, <1>k, <2>1 DEF JoinAndCheck, Over, AllDone
<1>5. CASE UNCHANGED vars
  BY <1>5, <1>k DEF vars, mainVars, Over, AllDone
<1>6. QED
  BY <1>1, <1>2, <1>3, <1>4, <1>5 DEF Next, MainStep

LEMMA ClockStep == Basis /\ Clock /\ [Next]_vars => Clock'
<1> SUFFICES ASSUME Basis, Clock, [Next]_vars PROVE Clock'
  OBVIOUS
<1>t. TypeOK
  BY DEF Basis
<1> USE ThreadFacts
<1>a. ASSUME UNCHANGED start_time,
             start_time = Unset => \A p \in Producers :
               pc[p] \in {"unborn", "begin", "await"} => pc'[p] \in {"unborn", "begin", "await"}
      PROVE  Clock'
  BY <1>a DEF Clock
<1>1. ASSUME NEW p \in Producers, ProducerReady(p) PROVE Clock'
  BY <1>1, <1>a, <1>t DEF ProducerReady, Goto, TypeOK
<1>2. ASSUME NEW p \in Producers, StartTime(p) PROVE Clock'
  BY <1>2, <1>t DEF StartTime, StartedAt, Clock, TypeOK, Unset
<1>3. ASSUME NEW p \in Producers, AddPublished(p) PROVE Clock'
  BY <1>3, <1>a DEF AddPublished, Goto, Clock
<1>4. ASSUME NEW p \in Producers, NEW b \in BOOLEAN, Emplace(p, b) PROVE Clock'
  BY <1>4, <1>a DEF Emplace, Goto, Clock
<1>5. ASSUME NEW c \in Consumers, ConsumerStep(c) PROVE Clock'
  <2>1. \A p \in Producers : p # c /\ p \in Threads
    OBVIOUS
  <2>2. PICK to : pc' = [pc EXCEPT ![c] = to]
    BY <1>5 DEF ConsumerStep, Join, ConsumerReady, SeeAll, Consume, AddConsumed, MaxConsumed, Goto
  <2>3. \A p \in Producers : pc'[p] = pc[p]
    BY <1>t, <2>1, <2>2 DEF TypeOK
  <2>4. UNCHANGED start_time
    BY <1>5 DEF ConsumerStep, Join, ConsumerReady, SeeAll, Consume, AddConsumed, MaxConsumed
  <2>5. QED
    BY <1>a, <2>3, <2>4
<1>6. CASE Spawn
  <2> DEFINE u == IF spawned < P THEN <<"p", spawned + 1>> ELSE <<"c", spawned + 1 - P>>
  <2>1. pc[u] = "unborn" /\ pc' = [pc EXCEPT ![u] = "begin"]
    BY <1>6 DEF Spawn, Goto
  <2> HIDE DEF u
  <2>2. QED
    BY <1>6, <1>a, <1>t, <2>1 DEF Spawn, TypeOK
<1>7. CASE JoinAndCheck
  BY <1>7, <1>a DEF JoinAndCheck
<1>8. CASE UNCHANGED vars
  BY <1>8, <1>a DEF vars
<1>9. QED
  BY <1>1, <1>2, <1>3, <1>4, <1>5, <1>6, <1>7, <1>8 DEF Next, MainStep, ProducerStep

-----------------------------------------------------------------------------
(* The theorems.                                                           *)

Inv == Basis /\ Queue /\ Sums /\ Over /\ Clock

LEMMA InvStep == Inv /\ [Next]_vars => Inv'
BY BasisStep, QueueStep, SumsStep, OverStep, ClockStep DEF Inv

LEMMA InvHolds == Spec => []Inv
<1>1. Init => Over /\ Clock
  BY ThreadFacts DEF Init, Over, Clock
<1>2. Init => Inv
  BY <1>1, BasisInit, QueueInit, SumsInit DEF Inv
<1>3. QED
  BY <1>2, InvStep, PTL DEF Spec

LEMMA ConsumedIsTaken ==
  ASSUME Inv
  PROVE  Consumed = Taken /\ \A c \in Consumers : i[c] \in 0 .. log
<1>1. TypeOK /\ Queue
  BY DEF Inv, Basis
<1>2. ASSUME NEW c \in Consumers PROVE i[c] \in 0 .. log /\ i[c] \in 0 .. AllMessages
  <2>1. i[c] \in Nat /\ i[c] <= cursor[Reader(c)] /\ cursor[Reader(c)] \in 0 .. log
    BY <1>1, ThreadFacts DEF TypeOK, Queue
  <2>2. log \in 0 .. AllMessages /\ AllMessages \in Nat
    BY <1>1, LogBound, Shares
  <2>3. QED
    BY <2>1, <2>2
<1>3. AllMessages \in Nat /\ \A c \in Consumers : i[c] \in 0 .. AllMessages
  BY <1>2, Shares
<1>4. Consumed = Taken
  BY <1>3, UnionOfTurns, Zenon DEF Consumed, Taken
<1>5. QED
  BY <1>2, <1>4

(* Every variable keeps its type: in particular no producer publishes more *)
(* than its share, no consumer reads what is not published, and no ready   *)
(* counter passes the number of threads it counts.                         *)
THEOREM TypeCorrect == Spec => []TypeOK
<1>1. Inv => TypeOK
  BY DEF Inv, Basis
<1>2. QED
  BY <1>1, InvHolds, PTL

(* go: the barrier lets no producer publish before every consumer has      *)
(* joined the queue, and so a multicast consumer misses no message.        *)
THEOREM JoinedBeforeMessagesHolds == Spec => []JoinedBeforeMessages
<1>1. Inv => JoinedBeforeMessages
  <2> SUFFICES ASSUME Inv PROVE JoinedBeforeMessages
    OBVIOUS
  <2>1. Basis /\ Queue
    BY DEF Inv
  <2>2. log > 0 => \A c \in Consumers : pc[c] \notin {"unborn", "begin", "ready"}
    BY <2>1, NothingYet
  <2>3. multicast => \A c \in Consumers : cursor[c] = i[c]
    BY <2>1 DEF Queue
  <2>4. QED
    BY <2>2, <2>3 DEF JoinedBeforeMessages
<1>2. QED
  BY <1>1, InvHolds, PTL

LEMMA NoAlarmWhenShared ==
  ASSUME Inv, per_producer_num <= per_consumer_num
  PROVE  NoFalseAlarm
<1>1. main # "thrown"
  BY Shares DEF Inv, Over
<1>2. \A c \in Consumers : pc[c] # "terminate"
  BY DEF Inv, Basis, Loops
<1>3. QED
  BY <1>1, <1>2 DEF NoFalseAlarm

(* go throws nothing at a correct multicast queue.                         *)
THEOREM NoFalseAlarmMulticast == Spec => [](multicast => NoFalseAlarm)
<1>1. Inv => (multicast => NoFalseAlarm)
  BY Shares, NoAlarmWhenShared
<1>2. QED
  BY <1>1, InvHolds, PTL

(* go throws nothing at a correct queue of either kind, when there are no  *)
(* more consumers than producers.  With more anycast consumers the check   *)
(* on the largest count fails although nothing is wrong.                   *)
THEOREM NoFalseAlarmHolds ==
  ASSUME C <= P
  PROVE  Spec => []NoFalseAlarm
<1>1. per_producer_num <= per_consumer_num
  <2>1. CASE multicast
    BY <2>1, Shares
  <2>2. CASE ~ multicast
    <3>1. per_producer_num \in Nat /\ per_consumer_num \in Nat
      BY Shares
    <3>2. AllMessages < per_consumer_num * C + C
      BY <2>2, Shares
    <3>3. SUFFICES ASSUME per_consumer_num + 1 <= per_producer_num PROVE FALSE
      BY <3>1
    <3>4. (per_consumer_num + 1) * C <= per_producer_num * C
      BY <3>1, <3>3, ThreadAssumption
    <3>5. per_producer_num * C <= per_producer_num * P
      BY <3>1, ThreadAssumption
    <3>6. (per_consumer_num + 1) * C = per_consumer_num * C + C
      BY <3>1, ThreadAssumption
    <3>7. /\ per_consumer_num * C + C \in Int /\ per_producer_num * C \in Int
          /\ per_producer_num * P \in Int
      BY <3>1, ThreadAssumption
    <3>8. QED
      BY <3>2, <3>4, <3>5, <3>6, <3>7 DEF AllMessages
  <2>3. QED
    BY <2>1, <2>2
<1>2. Inv => NoFalseAlarm
  BY <1>1, NoAlarmWhenShared
<1>3. QED
  BY <1>2, InvHolds, PTL

(* When every thread has ended, all messages are published, and each       *)
(* consumer has had its share.                                             *)
LEMMA AtTheEnd ==
  ASSUME Inv, AllDone
  PROVE  /\ log = AllMessages
         /\ \A c \in Consumers : i[c] = per_consumer_num
         /\ Cardinality(Taken) = total_consume_num
         /\ total_consume_num \in Nat
<1>1. Basis /\ TypeOK /\ Loops /\ Queue
  BY DEF Inv, Basis
<1>2. (\A p \in Producers : i[p] = per_producer_num) /\ (\A c \in Consumers : i[c] = per_consumer_num)
  BY <1>1, ThreadFacts DEF AllDone, Loops
<1>3. Cardinality(Published) = P * per_producer_num
  BY <1>2, ThreadNumbers, Shares, EveryTurn DEF Published
<1>4. log = AllMessages
  BY <1>1, <1>3, Shares, ThreadAssumption DEF Queue, AllMessages
<1>5. /\ per_consumer_num \in Nat /\ AllMessages \in Nat
      /\ \A c \in Consumers : i[c] \in 0 .. per_consumer_num /\ i[c] \in 0 .. AllMessages
  BY <1>2, Shares
<1>6. Taken = Turns(Consumers, per_consumer_num, i)
  BY <1>5, SmallerBound DEF Taken
<1>7. Cardinality(Taken) = C * per_consumer_num
  BY <1>2, <1>5, <1>6, ThreadNumbers, EveryTurn
<1>8. C * per_consumer_num = total_consume_num /\ total_consume_num \in Nat
  BY <1>5, ThreadAssumption DEF total_consume_num
<1>9. QED
  BY <1>2, <1>4, <1>7, <1>8

(* go: what a run that returns reports is what really happened.            *)
THEOREM TotalsAddUpHolds == Spec => []TotalsAddUp
<1>1. Inv => TotalsAddUp
  <2> SUFFICES ASSUME Inv, main = "returned"
               PROVE  /\ total_msg_published = log /\ log = per_producer_num * P
                      /\ total_msg_consumed = total_consume_num
                      /\ \A c \in Consumers : log - cursor[Reader(c)] < (IF multicast THEN 1 ELSE C)
    BY DEF TotalsAddUp
  <2>1. Basis /\ Queue /\ Sums /\ AllDone
    BY DEF Inv, Over
  <2>2. total_msg_published = log /\ log = per_producer_num * P
    BY <2>1, AllTotals, AtTheEnd DEF AllMessages
  <2>3. total_msg_consumed = total_consume_num
    BY <2>1, AllTotals
  <2>4. ASSUME NEW c \in Consumers
        PROVE  log - cursor[Reader(c)] < (IF multicast THEN 1 ELSE C)
    <3>1. CASE multicast
      <4>1. cursor[Reader(c)] = log /\ log \in Nat
        BY <2>1, <3>1, AtTheEnd, Shares DEF Queue, Reader
      <4>2. QED
        BY <3>1, <4>1
    <3>2. CASE ~ multicast
      <4>1. cursor[Reader(c)] = per_consumer_num * C
        BY <2>1, <3>2, AtTheEnd DEF Queue, Reader, total_consume_num
      <4>2. log < per_consumer_num * C + C /\ log \in Nat
        BY <2>1, <3>2, AtTheEnd, Shares
      <4>3. per_consumer_num * C \in Nat
        BY Shares, ThreadAssumption
      <4>4. QED
        BY <3>2, <4>1, <4>2, <4>3, ThreadAssumption
    <3>3. QED
      BY <3>1, <3>2
  <2>5. QED
    BY <2>2, <2>3, <2>4
<1>2. QED
  BY <1>1, InvHolds, PTL

(* mgark's loops test the count after a message only, so a consumer told   *)
(* to take none takes all it can get.                                      *)
EnoughMessages == Vendor = "mgark" => AllMessages >= C

LEMMA WorkBound ==
  ASSUME Inv, EnoughMessages
  PROVE  /\ log + Cardinality(Consumed) \in Nat
         /\ log + Cardinality(Consumed) <= per_producer_num * P + total_consume_num
         /\ per_producer_num * P + total_consume_num \in Nat
<1>1. TypeOK /\ Loops /\ Queue /\ Consumed = Taken
  BY ConsumedIsTaken DEF Inv, Basis
<1>2. Vendor = "mgark" => per_consumer_num > 0
  <2>1. CASE multicast
    BY <2>1, Shares, ThreadAssumption DEF EnoughMessages
  <2>2. CASE ~ multicast
    <3>1. AllMessages < per_consumer_num * C + C
      BY <2>2, Shares
    <3>2. per_consumer_num = 0 => AllMessages < C
      BY <3>1, ThreadAssumption
    <3>3. QED
      BY <3>2, Shares, ThreadAssumption DEF EnoughMessages
  <2>3. QED
    BY <2>1, <2>2
<1>3. \A c \in Consumers : i[c] \in 0 .. per_consumer_num
  BY <1>1, <1>2, Shares, ThreadFacts DEF Loops, TypeOK
<1>4. \A c \in Consumers : i[c] \in 0 .. AllMessages
  BY <1>3, Shares
<1>5. Taken = Turns(Consumers, per_consumer_num, i)
  BY <1>3, <1>4, Shares, SmallerBound DEF Taken
<1>6. Cardinality(Taken) \in 0 .. C * per_consumer_num
  BY <1>5, Shares, ThreadNumbers, TurnsBound
<1>7. C * per_consumer_num = total_consume_num /\ total_consume_num \in Nat
  BY Shares, ThreadAssumption DEF total_consume_num
<1>8. log \in 0 .. AllMessages /\ AllMessages \in Nat /\ AllMessages = per_producer_num * P
  BY <1>1, LogBound, Shares DEF AllMessages
<1>9. QED
  BY <1>1, <1>6, <1>7, <1>8

(* A run of the throughput benchmark is a run of a benchmark: the clock is *)
(* stored once and before the first message, go returns only when all      *)
(* messages are published and every consumer has had its share, and        *)
(* nothing is published or consumed after.                                 *)
THEOREM ImplementsBenchmarkRun ==
  ASSUME EnoughMessages
  PROVE  Spec => BR!Spec
<1> DEFINE done == log + Cardinality(Consumed)
           all  == per_producer_num * P + total_consume_num
<1>1. Init => BR!Init
  <2> SUFFICES ASSUME Init PROVE BR!Init
    OBVIOUS
  <2>1. Inv
    BY BasisInit, QueueInit, SumsInit, ThreadFacts DEF Inv, Init, Over, Clock
  <2>2. \A c \in Consumers : i[c] = 0
    BY ThreadFacts DEF Init
  <2>3. Cardinality(Consumed) = 0
    BY <2>1, <2>2, Shares, ConsumedIsTaken, NoTurns DEF Taken
  <2>4. QED
    BY <2>3 DEF Init, BR!Init, Unset, BR!Unset
<1>2. Inv /\ Inv' /\ [Next]_vars => [BR!Next]_(BR!vars)
  <2> SUFFICES ASSUME Inv, Inv', [Next]_vars PROVE [BR!Next]_(BR!vars)
    OBVIOUS
  <2>t. Basis /\ TypeOK /\ Loops /\ Queue /\ Over /\ Clock
    BY DEF Inv, Basis
  <2>w. done \in Nat /\ done <= all /\ all \in Nat
    BY WorkBound
  <2>k. all' = all
    BY SharesFixed DEF per_producer_num, total_consume_num
  <2>v. done' <= all
    <3>1. (done <= all)'
      BY WorkBound, PTL
    <3>2. QED
      BY <2>k, <3>1
  <2>c. Consumed = Taken /\ Consumed' = Taken'
    <3>1. Consumed = Taken
      BY ConsumedIsTaken
    <3>2. (Consumed = Taken)'
      BY ConsumedIsTaken, PTL
    <3>3. QED
      BY <3>1, <3>2
  <2>a. ASSUME UNCHANGED <<main, start_time, i, log>> PROVE [BR!Next]_(BR!vars)
    BY <2>a DEF BR!vars, Consumed
  <2>b. ASSUME done' = done + 1, start_time # Unset, UNCHANGED <<main, start_time>>
        PROVE  [BR!Next]_(BR!vars)
    <3>1. done < all
      BY <2>b, <2>w, <2>v
    <3>2. UNCHANGED (main = "returned")
      BY <2>b
    <3>3. QED
      BY <2>b, <3>1, <3>2 DEF BR!Next, BR!DoWork, BR!Unset, Unset
  <2>s. start_time = Unset => done = 0 /\ log = 0
    <3> SUFFICES ASSUME start_time = Unset PROVE done = 0 /\ log = 0
      OBVIOUS
    <3>1. \A p \in Producers : i[p] = 0
      BY <2>t DEF Clock, Loops
    <3>2. log = 0
      BY <2>t, <3>1, Shares, NoTurns DEF Queue, Published
    <3>3. \A c \in Consumers : i[c] = 0
      BY <3>2, ConsumedIsTaken
    <3>4. Cardinality(Taken) = 0
      BY <3>3, Shares, NoTurns DEF Taken
    <3>5. QED
      BY <2>c, <3>2, <3>4
  <2>1. ASSUME NEW p \in Producers, ProducerReady(p) \/ AddPublished(p) PROVE [BR!Next]_(BR!vars)
    BY <2>1, <2>a DEF ProducerReady, AddPublished, mainVars, queueVars
  <2>2. ASSUME NEW p \in Producers, StartTime(p) PROVE [BR!Next]_(BR!vars)
    <3>1. UNCHANGED <<main, i, log>> /\ start_time' = StartedAt
      BY <2>2 DEF StartTime, mainVars, queueVars
    <3>2. CASE start_time = Unset
      <4>1. start_time' = done /\ done = 0 /\ done' = done
        BY <2>s, <3>1, <3>2 DEF StartedAt, Consumed
      <4>2. UNCHANGED (main = "returned")
        BY <3>1
      <4>3. QED
        BY <3>2, <4>1, <4>2 DEF BR!Next, BR!StartClock, BR!Unset, Unset
    <3>3. CASE start_time # Unset
      BY <2>a, <3>1, <3>3 DEF StartedAt
    <3>4. QED
      BY <3>2, <3>3
  <2>3. ASSUME NEW p \in Producers, NEW b \in BOOLEAN, Emplace(p, b) PROVE [BR!Next]_(BR!vars)
    <3>1. UNCHANGED <<main, start_time>> /\ i' = [i EXCEPT ![p] = Counted(@, b)]
      BY <2>3 DEF Emplace, mainVars
    <3>2. CASE b
      <4>1. log' = log + 1
        BY <2>3, <3>2 DEF Emplace, QueueEmplace
      <4>2. \A c \in Consumers : i'[c] = i[c]
        BY <2>t, <3>1, ThreadFacts DEF TypeOK
      <4>3. Consumed' = Consumed
        BY <2>c, <4>2, SameTaken
      <4>4. start_time # Unset
        BY <2>3, <2>t DEF Emplace, Goto, Clock
      <4>5. Cardinality(Consumed) \in Nat /\ log \in Nat
        BY <2>c, <2>t, ThreadNumbers, Shares, TurnsBound DEF TypeOK, Taken
      <4>6. done' = done + 1
        BY <4>1, <4>3, <4>5
      <4>7. QED
        BY <2>b, <3>1, <4>4, <4>6
    <3>3. CASE ~ b
      <4>1. UNCHANGED <<i, log>>
        BY <2>3, <2>t, <3>1, <3>3 DEF Emplace, QueueEmplace, Counted, TypeOK
      <4>2. QED
        BY <2>a, <3>1, <4>1
    <3>4. QED
      BY <3>2, <3>3
  <2>4. ASSUME NEW c \in Consumers, Consume(c) PROVE [BR!Next]_(BR!vars)
    <3>1. /\ UNCHANGED <<main, start_time, log>> /\ i' = [i EXCEPT ![c] = @ + 1]
          /\ cursor[Reader(c)] < log
      BY <2>4 DEF Consume, QueueConsume, HasMessage, mainVars
    <3>2. i[c] < AllMessages /\ i[c] \in Nat /\ cursor[Reader(c)] \in Nat /\ log \in Nat
      <4>1. i[c] \in Nat /\ i[c] <= cursor[Reader(c)] /\ cursor[Reader(c)] \in Nat
        BY <2>t, ThreadFacts DEF TypeOK, Queue
      <4>2. log \in Nat /\ log <= AllMessages /\ AllMessages \in Nat
        BY <2>t, LogBound, Shares
      <4>3. QED
        BY <3>1, <4>1, <4>2
    <3>3. i'[c] = i[c] + 1 /\ \A u \in Consumers : u # c => i'[u] = i[u]
      BY <2>t, <3>1, ThreadFacts DEF TypeOK
    <3>4. Cardinality(Taken') = Cardinality(Taken) + 1
      BY <3>2, <3>3, OneTaken
    <3>5. start_time # Unset
      BY <2>s, <3>1, <3>2
    <3>6. Cardinality(Taken) \in Nat
      BY ThreadNumbers, Shares, TurnsBound DEF Taken
    <3>7. done' = done + 1
      BY <2>c, <3>1, <3>2, <3>4, <3>6
    <3>8. QED
      BY <2>b, <3>1, <3>5, <3>7
  <2>5. ASSUME NEW c \in Consumers,
               Join(c) \/ ConsumerReady(c) \/ SeeAll(c) \/ AddConsumed(c) \/ MaxConsumed(c)
        PROVE  [BR!Next]_(BR!vars)
    BY <2>5, <2>a DEF Join, QueueJoin, ConsumerReady, SeeAll, AddConsumed, MaxConsumed,
                      mainVars, queueVars
  <2>6. CASE Spawn
    BY <2>6, <2>a DEF Spawn, queueVars
  <2>7. CASE JoinAndCheck
    <3>1. UNCHANGED <<start_time, i, log>> /\ AllDone
          /\ main = "running" /\ main' \in {"thrown", "returned"}
      BY <2>7 DEF JoinAndCheck, queueVars
    <3>2. UNCHANGED done
      BY <3>1 DEF Consumed
    <3>3. CASE main' = "thrown"
      <4>1. UNCHANGED (main = "returned")
        BY <3>1, <3>3
      <4>2. QED
        BY <3>1, <3>2, <4>1 DEF BR!vars
    <3>4. CASE main' = "returned"
      <4>1. done = all
        BY <2>c, <3>1, AtTheEnd DEF AllMessages
      <4>2. start_time # Unset
        BY <2>t, <3>1, ThreadFacts DEF Clock, AllDone
      <4>3. (main = "returned")' = TRUE
        BY <3>4
      <4>4. BR!Return
        BY <3>1, <3>2, <4>1, <4>2, <4>3 DEF BR!Return, BR!Unset, Unset
      <4>5. QED
        BY <4>4 DEF BR!Next
    <3>5. QED
      BY <3>1, <3>3, <3>4
  <2>8. CASE UNCHANGED vars
    BY <2>8, <2>a DEF vars, mainVars, queueVars
  <2>9. QED
    BY <2>1, <2>2, <2>3, <2>4, <2>5, <2>6, <2>7, <2>8 DEF Next, MainStep, ProducerStep, ConsumerStep
<1>3. QED
  BY <1>1, <1>2, InvHolds, PTL DEF Spec, BR!Spec
=============================================================================
