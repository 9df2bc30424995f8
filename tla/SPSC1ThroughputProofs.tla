------------------------ MODULE SPSC1ThroughputProofs ------------------------
(***************************************************************************)
(* Proofs about SPSC1Throughput, for every ring size and every number of   *)
(* messages.                                                               *)
(*                                                                         *)
(* The composition is put together from two proofs about its parts.  Its   *)
(* steps are steps of SPSC1, so what SPSC1Proofs shows of the queue holds  *)
(* here; by that the queue has the room and the messages Throughput asks   *)
(* for, so the steps are steps of Throughput as well, and what             *)
(* ThroughputProofs shows of the benchmark holds here.                     *)
(***************************************************************************)
EXTENDS SPSC1Throughput, TLAPS

QP == INSTANCE SPSC1Proofs

HP == INSTANCE ThroughputProofs
        WITH P <- 1, C <- 1, N <- MsgNum, Capacity <- N_, Vendor <- "spsc1", MaxFailures <- 0,
             log <- p_i, cursor <- [t \in {c} |-> c_i],
             i <- [t \in {p, c} |-> IF t = p THEN p_i ELSE c_i]

LEMMA Sizes ==
  /\ N_ \in Nat \ {0} /\ (\E k \in 0 .. N_ : N_ = 2 ^ k) /\ MsgNum \in Nat
BY SizeAssumption, MsgNumAssumption

-----------------------------------------------------------------------------
(* The queue.                                                              *)

LEMMA QueueInit == Init => QP!Init
BY DEF Init, Q!Init, QP!Init, Q!Slots, QP!Slots, Q!Threads, QP!Threads, Q!Nothing, QP!Nothing

LEMMA QueueSteps ==
  /\ Q!EmplaceWait = QP!EmplaceWait /\ Q!EmplaceWrite = QP!EmplaceWrite
  /\ Q!EmplacePublish = QP!EmplacePublish
  /\ Q!PeekWait = QP!PeekWait /\ Q!Process = QP!Process /\ Q!Skip = QP!Skip
<1> USE DEF Q!prodVars, QP!prodVars, Q!consVars, QP!consVars
<1>1. Q!EmplaceWait = QP!EmplaceWait
  BY DEF Q!EmplaceWait, QP!EmplaceWait, Q!Free, QP!Free, Q!Acquire, QP!Acquire, Q!Join, QP!Join
<1>2. Q!EmplaceWrite = QP!EmplaceWrite
  BY DEF Q!EmplaceWrite, QP!EmplaceWrite, Q!Message, QP!Message, Q!Wrote, QP!Wrote
<1>3. Q!EmplacePublish = QP!EmplacePublish
  BY DEF Q!EmplacePublish, QP!EmplacePublish, Q!Advance, QP!Advance, Q!Release, QP!Release
<1>4. Q!PeekWait = QP!PeekWait
  BY DEF Q!PeekWait, QP!PeekWait, Q!Acquire, QP!Acquire, Q!Join, QP!Join
<1>5. Q!Process = QP!Process
  BY DEF Q!Process, QP!Process, Q!Read, QP!Read
<1>6. Q!Skip = QP!Skip
  BY DEF Q!Skip, QP!Skip, Q!skipped_node, QP!skipped_node, Q!Advance, QP!Advance, Q!Release, QP!Release
<1>7. QED
  BY <1>1, <1>2, <1>3, <1>4, <1>5, <1>6

LEMMA QueueStep == [Next]_vars => [QP!Next]_(QP!vars)
<1>1. UNCHANGED queueVars => UNCHANGED QP!vars
  BY DEF queueVars, QP!vars, QP!prodVars, QP!consVars, QP!hbVars
<1>2. Q!Producer \/ Q!Consumer => QP!Next
  BY QueueSteps DEF Q!Producer, Q!Consumer, QP!Next, QP!Producer, QP!Consumer
<1>3. QED
  BY <1>1, <1>2 DEF Next, ProducerStep, Produce, ConsumerStep, ConsumeStep, MainStep, vars

(* Every step of the composition is a step of SPSC1 or leaves it alone.    *)
THEOREM ImplementsQueue == Spec => QP!Spec
BY QueueInit, QueueStep, PTL DEF Spec, QP!Spec

QueueFacts == QP!TypeOK /\ QP!Handshake /\ QP!Ring /\ QP!InOrder

LEMMA QueueFactsHold == Spec => []QueueFacts
<1>1. QP!Spec => []QP!TypeOK
  BY Sizes, QP!TypeCorrect
<1>2. QP!Spec => []QP!Handshake
  BY Sizes, QP!HandshakeHolds
<1>3. QP!Spec => []QP!Ring
  BY Sizes, QP!RingHolds
<1>4. QP!Spec => []QP!InOrder
  BY Sizes, QP!InOrderHolds
<1>5. QED
  BY <1>1, <1>2, <1>3, <1>4, ImplementsQueue, PTL DEF QueueFacts

-----------------------------------------------------------------------------
(* The benchmark.                                                          *)

LEMMA TwoThreads ==
  /\ p # c
  /\ H!Producers = {p} /\ H!Consumers = {c} /\ H!Threads = {p, c}
  /\ HP!Producers = {p} /\ HP!Consumers = {c} /\ HP!Threads = {p, c}
<1>1. 1 .. 1 = {1}
  OBVIOUS
<1>2. {"p"} \X {1} = {p} /\ {"c"} \X {1} = {c}
  BY DEF p, c
<1>3. QED
  BY <1>1, <1>2 DEF p, c, H!Producers, H!Consumers, H!Threads,
                        HP!Producers, HP!Consumers, HP!Threads

LEMMA AllOfThem ==
  /\ H!per_producer_num = MsgNum /\ HP!per_producer_num = MsgNum
  /\ ~ multicast => H!per_consumer_num = MsgNum /\ HP!per_consumer_num = MsgNum
<1>1. MsgNum \div 1 = MsgNum /\ (MsgNum * 1) \div 1 = MsgNum
  BY Sizes
<1>2. QED
  BY <1>1 DEF H!per_producer_num, HP!per_producer_num, H!per_consumer_num, HP!per_consumer_num

Shape == multicast = FALSE /\ pc = [t \in {p, c} |-> pc[t]]

LEMMA ShapeHolds == Spec => []Shape
<1>1. Init => Shape
  BY TwoThreads DEF Init, H!Init, Shape
<1>2. ASSUME Shape, [Next]_vars PROVE Shape'
  <2> USE <1>2 DEF Shape
  <2>1. CASE Produce
    BY <2>1 DEF Produce, harnessVars
  <2>2. CASE ConsumeStep
    BY <2>2 DEF ConsumeStep, harnessVars
  <2>3. CASE H!ProducerReady(p) \/ H!StartTime(p) \/ H!AddPublished(p)
    BY <2>3 DEF H!ProducerReady, H!StartTime, H!AddPublished, H!Goto, H!mainVars
  <2>4. CASE H!Join(c) \/ H!ConsumerReady(c) \/ H!SeeAll(c) \/ H!AddConsumed(c) \/ H!MaxConsumed(c)
    BY <2>4 DEF H!Join, H!ConsumerReady, H!SeeAll, H!AddConsumed, H!MaxConsumed, H!Goto, H!mainVars
  <2>5. CASE H!Spawn
    BY <2>5 DEF H!Spawn, H!Goto
  <2>6. CASE H!JoinAndCheck
    BY <2>6 DEF H!JoinAndCheck
  <2>7. CASE UNCHANGED vars
    BY <2>7 DEF vars, harnessVars
  <2>8. QED
    BY <2>1, <2>2, <2>3, <2>4, <2>5, <2>6, <2>7
       DEF Next, ProducerStep, ConsumerStep, MainStep, H!MainStep
<1>3. QED
  BY <1>1, <1>2, PTL DEF Spec

(* Where emplace stores the flag, the queue has the room that Throughput   *)
(* asks for; where skip stores it, it has the message.                     *)
LEMMA RoomAndMessage ==
  ASSUME QueueFacts
  PROVE  /\ p_i \in Nat /\ c_i \in Nat
         /\ p_pc = "publish" => p_i - c_i < N_
         /\ c_pc = "skip" => c_i < p_i /\ c_i < MsgNum
<1> USE Sizes
<1>1. p_i \in Nat /\ c_i \in Nat /\ (c_pc = "skip" => c_i < MsgNum)
  BY DEF QueueFacts, QP!TypeOK
<1>2. p_pc = "publish" => p_i - c_i < N_
  BY QP!Room DEF QueueFacts, QP!Handshake, QP!Occupied
<1>3. ASSUME c_pc = "skip" PROVE c_i < p_i
  <2>1. busy[read_idx_] /\ read_idx_ \in QP!Slots
    BY <1>3 DEF QueueFacts, QP!Handshake, QP!TypeOK
  <2>2. QP!Ahead(read_idx_) < QP!Occupied
    BY <2>1 DEF QueueFacts, QP!Ring
  <2>3. read_idx_ \in Nat
    BY <2>1 DEF QP!Slots
  <2>4. QED
    BY <1>1, <2>2, <2>3 DEF QP!Ahead, QP!Occupied
<1>4. QED
  BY <1>1, <1>2, <1>3

LEMMA ProduceIsEmplace ==
  ASSUME QueueFacts, Shape, Produce
  PROVE  H!Emplace(p, TRUE) \/ UNCHANGED H!vars
<1> USE DEF Shape
<1>1. CASE Q!EmplacePublish
  <2>1. p_i - c_i < N_ /\ p_i \in Nat
    BY <1>1, RoomAndMessage DEF Q!EmplacePublish
  <2>2. H!QueueEmplace(TRUE)
    BY <1>1, <2>1, TwoThreads
       DEF H!QueueEmplace, H!HasRoom, Q!EmplacePublish, Q!consVars, Produce, harnessVars, c
  <2>3. [t \in {p, c} |-> IF t = p THEN p_i' ELSE c_i']
          = [[t \in {p, c} |-> IF t = p THEN p_i ELSE c_i] EXCEPT ![p] = p_i + 1]
    BY <1>1, TwoThreads DEF Q!EmplacePublish, Q!consVars
  <2>4. H!Goto(p, "emplace", H!ProduceLoop(p_i + 1))
    BY <1>1, AllOfThem DEF Produce, Q!EmplacePublish, H!Goto, H!ProduceLoop
  <2>5. QED
    BY <2>2, <2>3, <2>4, TwoThreads
       DEF H!Emplace, H!Counted, Produce, harnessVars, H!mainVars, H!readyVars, H!totalVars
<1>2. CASE Q!EmplaceWait \/ Q!EmplaceWrite
  <2>1. p_i' = p_i /\ c_i' = c_i /\ p_pc' # "done"
    BY <1>2 DEF Q!EmplaceWait, Q!EmplaceWrite, Q!consVars
  <2>2. pc' = pc
    BY <2>1 DEF Produce
  <2>3. QED
    BY <2>1, <2>2
       DEF Produce, harnessVars, H!vars, H!mainVars, H!readyVars, H!totalVars, H!queueVars
<1>3. QED
  BY <1>1, <1>2 DEF Produce, Q!Producer

LEMMA ConsumeStepIsConsume ==
  ASSUME QueueFacts, Shape, ConsumeStep
  PROVE  H!Consume(c) \/ UNCHANGED H!vars
<1> USE DEF Shape
<1>1. CASE Q!Skip
  <2>1. c_i < p_i /\ c_i < MsgNum /\ p_i \in Nat /\ c_i \in Nat
    BY <1>1, RoomAndMessage DEF Q!Skip
  <2>2. H!Reader(c) = c
    BY DEF H!Reader, c
  <2>3. H!QueueConsume(c)
    BY <1>1, <2>1, <2>2
       DEF H!QueueConsume, H!HasMessage, Q!Skip, Q!prodVars, ConsumeStep, harnessVars
  <2>4. [t \in {p, c} |-> IF t = p THEN p_i' ELSE c_i']
          = [[t \in {p, c} |-> IF t = p THEN p_i ELSE c_i] EXCEPT ![c] = c_i + 1]
    <3>1. p_i' = p_i /\ c_i' = c_i + 1
      BY <1>1 DEF Q!Skip, Q!prodVars
    <3>2. p # c
      BY TwoThreads
    <3>3. ASSUME NEW t \in {p, c}
          PROVE  (IF t = p THEN p_i' ELSE c_i')
                   = [[s \in {p, c} |-> IF s = p THEN p_i ELSE c_i] EXCEPT ![c] = c_i + 1][t]
      BY <3>1, <3>2
    <3>4. QED
      BY <3>3
  <2>5. H!Goto(c, "consume", IF c_i + 1 = H!per_consumer_num THEN "add" ELSE "consume")
    <3>1. H!per_consumer_num = MsgNum
      BY AllOfThem
    <3>2. c_i + 1 = MsgNum <=> ~ (c_i + 1 < MsgNum)
      BY <2>1, Sizes
    <3>3. c_pc' = IF c_i + 1 < MsgNum THEN "wait" ELSE "done"
      BY <1>1 DEF Q!Skip
    <3>4. QED
      BY <3>1, <3>2, <3>3 DEF ConsumeStep, H!Goto
  <2>6. QED
    BY <2>3, <2>4, <2>5, TwoThreads
       DEF H!Consume, ConsumeStep, harnessVars, H!mainVars, H!readyVars, H!totalVars
<1>2. CASE Q!PeekWait \/ Q!Process
  <2>1. p_i' = p_i /\ c_i' = c_i /\ c_pc' # "done"
    BY <1>2 DEF Q!PeekWait, Q!Process, Q!prodVars
  <2>2. pc' = pc
    BY <2>1 DEF ConsumeStep
  <2>3. QED
    BY <2>1, <2>2
       DEF ConsumeStep, harnessVars, H!vars, H!mainVars, H!readyVars, H!totalVars, H!queueVars
<1>3. QED
  BY <1>1, <1>2 DEF ConsumeStep, Q!Consumer

LEMMA HarnessStep ==
  ASSUME QueueFacts, Shape, [Next]_vars
  PROVE  [H!Next]_(H!vars)
<1>1. CASE Produce
  BY <1>1, ProduceIsEmplace, TwoThreads DEF H!Next, H!ProducerStep
<1>2. CASE ConsumeStep
  BY <1>2, ConsumeStepIsConsume, TwoThreads DEF H!Next, H!ConsumerStep
<1>3. CASE H!ProducerReady(p) \/ H!StartTime(p) \/ H!AddPublished(p)
  BY <1>3, TwoThreads DEF H!Next, H!ProducerStep
<1>4. CASE H!Join(c) \/ H!ConsumerReady(c) \/ H!SeeAll(c) \/ H!AddConsumed(c) \/ H!MaxConsumed(c)
  BY <1>4, TwoThreads DEF H!Next, H!ConsumerStep
<1>5. CASE H!MainStep
  BY <1>5 DEF H!Next
<1>6. CASE UNCHANGED vars
  BY <1>6 DEF vars, queueVars, harnessVars, H!vars, H!mainVars, H!readyVars, H!totalVars, H!queueVars
<1>7. QED
  BY <1>1, <1>2, <1>3, <1>4, <1>5, <1>6 DEF Next, ProducerStep, ConsumerStep, MainStep

(* Every step of the composition is a step of the benchmark on a queue     *)
(* that is taken as given, or leaves the benchmark alone: the safety part  *)
(* of ImplementsThroughput.                                                *)
THEOREM ImplementsThroughputSafety == Spec => H!Spec
<1>1. Init => H!Init
  BY DEF Init
<1>2. QED
  BY <1>1, HarnessStep, QueueFactsHold, ShapeHolds, PTL DEF Spec, H!Spec

-----------------------------------------------------------------------------
(* What ThroughputProofs shows of the benchmark, here.                     *)

LEMMA SameProducerStep == H!ProducerStep(p) => HP!ProducerStep(p)
<1> USE DEF H!mainVars, HP!mainVars, H!readyVars, HP!readyVars, H!totalVars, HP!totalVars,
            H!queueVars, HP!queueVars, H!Goto, HP!Goto
<1>1. H!ProducerReady(p) => HP!ProducerReady(p)
  BY DEF H!ProducerReady, HP!ProducerReady, H!ConsumersReady, HP!ConsumersReady
<1>2. H!StartTime(p) => HP!StartTime(p)
  BY DEF H!StartTime, HP!StartTime, H!ProducersReady, HP!ProducersReady, H!StartedAt, HP!StartedAt,
         H!Unset, HP!Unset, H!ProduceLoop, HP!ProduceLoop, H!per_producer_num, HP!per_producer_num
<1>3. H!AddPublished(p) => HP!AddPublished(p)
  BY DEF H!AddPublished, HP!AddPublished
<1>4. ASSUME NEW published \in BOOLEAN, H!Emplace(p, published)
      PROVE  HP!Emplace(p, published)
  BY <1>4, TwoThreads
     DEF H!Emplace, HP!Emplace, H!QueueEmplace, HP!QueueEmplace, H!HasRoom, HP!HasRoom,
         H!Joined, HP!Joined, H!Counted, HP!Counted, H!ProduceLoop, HP!ProduceLoop,
         H!per_producer_num, HP!per_producer_num
<1>5. QED
  BY <1>1, <1>2, <1>3, <1>4 DEF H!ProducerStep, HP!ProducerStep

LEMMA SameConsumerStep == H!ConsumerStep(c) => HP!ConsumerStep(c)
<1> USE DEF H!mainVars, HP!mainVars, H!readyVars, HP!readyVars, H!totalVars, HP!totalVars,
            H!queueVars, HP!queueVars, H!Goto, HP!Goto, H!Reader, HP!Reader
<1>n. H!per_consumer_num = HP!per_consumer_num
  BY DEF H!per_consumer_num, HP!per_consumer_num, H!per_producer_num, HP!per_producer_num
<1>1. H!Join(c) => HP!Join(c)
  BY DEF H!Join, HP!Join, H!QueueJoin, HP!QueueJoin
<1>2. H!ConsumerReady(c) => HP!ConsumerReady(c)
  BY DEF H!ConsumerReady, HP!ConsumerReady
<1>3. H!SeeAll(c) => HP!SeeAll(c)
  BY <1>n DEF H!SeeAll, HP!SeeAll, H!ProducersReady, HP!ProducersReady, H!ConsumersReady, HP!ConsumersReady
<1>4. H!Consume(c) => HP!Consume(c)
  BY <1>n DEF H!Consume, HP!Consume, H!QueueConsume, HP!QueueConsume, H!HasMessage, HP!HasMessage
<1>5. H!AddConsumed(c) => HP!AddConsumed(c)
  BY <1>n DEF H!AddConsumed, HP!AddConsumed
<1>6. H!MaxConsumed(c) => HP!MaxConsumed(c)
  BY DEF H!MaxConsumed, HP!MaxConsumed
<1>7. QED
  BY <1>1, <1>2, <1>3, <1>4, <1>5, <1>6 DEF H!ConsumerStep, HP!ConsumerStep

LEMMA SameBenchmark == H!Spec => HP!Spec
<1>1. H!Init => HP!Init
  BY TwoThreads DEF H!Init, HP!Init, H!Unset, HP!Unset
<1>2. UNCHANGED H!vars => UNCHANGED HP!vars
  BY DEF H!vars, HP!vars, H!mainVars, HP!mainVars, H!readyVars, HP!readyVars,
         H!totalVars, HP!totalVars, H!queueVars, HP!queueVars
<1>3. H!MainStep => HP!MainStep
  <2>1. H!Spawn => HP!Spawn
    BY DEF H!Spawn, HP!Spawn, H!Goto, HP!Goto, H!readyVars, HP!readyVars,
           H!totalVars, HP!totalVars, H!queueVars, HP!queueVars
  <2>2. H!total_consume_num = HP!total_consume_num /\ H!per_producer_num = HP!per_producer_num
    BY DEF H!total_consume_num, HP!total_consume_num, H!per_consumer_num, HP!per_consumer_num,
           H!per_producer_num, HP!per_producer_num
  <2>3. H!JoinAndCheck => HP!JoinAndCheck
    BY <2>2, TwoThreads
       DEF H!JoinAndCheck, HP!JoinAndCheck, H!AllDone, HP!AllDone, H!readyVars, HP!readyVars,
           H!totalVars, HP!totalVars, H!queueVars, HP!queueVars
  <2>4. QED
    BY <2>1, <2>3 DEF H!MainStep, HP!MainStep
<1>4. H!Next => HP!Next
  BY <1>3, SameProducerStep, SameConsumerStep, TwoThreads DEF H!Next, HP!Next
<1>5. QED
  BY <1>1, <1>2, <1>4, PTL DEF H!Spec, HP!Spec

(* The assumptions of Throughput about its constants.                      *)
LEMMA Constants ==
  /\ 1 \in Nat \ {0} /\ MsgNum \in Nat /\ N_ \in Nat \ {0}
  /\ "spsc1" \in {"mgark", "atomic_queue", "spsc1", "spsc2"}
  /\ 0 \in Nat /\ (0 > 0 => "spsc1" = "mgark")
BY Sizes

(* With SPSC1, go throws nothing, and no thread does: all messages are     *)
(* published, all are consumed, and the totals say so.                     *)
THEOREM BenchmarkIsRight == Spec => [](HP!NoFalseAlarm /\ HP!TotalsAddUp)
<1>1. 1 <= 1
  OBVIOUS
<1>2. HP!Spec => []HP!NoFalseAlarm
  BY <1>1, Constants, HP!NoFalseAlarmHolds
<1>3. HP!Spec => []HP!TotalsAddUp
  BY Constants, HP!TotalsAddUpHolds
<1>4. QED
  BY <1>2, <1>3, ImplementsThroughputSafety, SameBenchmark, PTL

(* Every run is a run of a benchmark: the clock is stored once, before the *)
(* first message.                                                          *)
THEOREM ImplementsBenchmarkRun == Spec => HP!BR!Spec
<1>1. HP!EnoughMessages
  BY DEF HP!EnoughMessages
<1>2. HP!Spec => HP!BR!Spec
  BY <1>1, Constants, HP!ImplementsBenchmarkRun
<1>3. QED
  BY <1>2, ImplementsThroughputSafety, SameBenchmark, PTL

(* When go returns, the last value ConsumeAndStore was given is that of    *)
(* the last message produced: through queue, loops, barrier and joins.     *)
THEOREM LastValueStoredHolds == Spec => []LastValueStored
<1>1. ASSUME QueueFacts, Shape, HP!TotalsAddUp, main = "returned"
      PROVE  last_val >= H!per_producer_num
  <2>1. /\ p_i \in Nat /\ c_i \in 0 .. MsgNum /\ MsgNum \in Nat
        /\ c_pc # "done" => c_i < MsgNum
        /\ received \in Seq(Nat) /\ (c_pc # "skip" => Len(received) = c_i)
        /\ \A k \in 1 .. Len(received) : received[k] = k - 1 + 1
    BY <1>1, Sizes DEF QueueFacts, QP!TypeOK, QP!Ring, QP!InOrder, QP!Message
  <2>2. p_i = MsgNum
    BY <1>1, AllOfThem, <2>1 DEF HP!TotalsAddUp
  <2>3. p_i - c_i < 1
    <3>1. HP!Reader(c) = c /\ multicast = FALSE
      BY <1>1 DEF HP!Reader, c, Shape
    <3>2. QED
      BY <1>1, <3>1, TwoThreads DEF HP!TotalsAddUp
  <2>4. c_i = MsgNum /\ Len(received) = MsgNum
    BY <2>1, <2>2, <2>3
  <2>5. CASE MsgNum = 0
    BY <2>1, <2>4, <2>5, AllOfThem DEF last_val
  <2>6. CASE MsgNum > 0
    <3>1. received # << >> /\ received[Len(received)] = MsgNum
      BY <2>1, <2>4, <2>6
    <3>2. QED
      BY <3>1, <2>1, AllOfThem DEF last_val
  <2>7. QED
    BY <2>1, <2>5, <2>6
<1>2. QED
  BY <1>1, QueueFactsHold, ShapeHolds, BenchmarkIsRight, PTL DEF LastValueStored
=============================================================================
