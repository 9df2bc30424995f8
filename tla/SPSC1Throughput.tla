--------------------------- MODULE SPSC1Throughput ---------------------------
(***************************************************************************)
(* The throughput benchmark on the repository's own queue SPSC1, as        *)
(* playground.cpp runs it: one producer, one consumer.  The threads of     *)
(* Throughput run the loops of SPSC1, access by access, where Throughput   *)
(* alone takes a queue of another vendor as given.                         *)
(*                                                                         *)
(* Q is the queue with its loops; H is the benchmark, whose steps outside  *)
(* the loops are taken over as they are.  What H counts is read off Q.     *)
(***************************************************************************)
EXTENDS Integers, Sequences

CONSTANTS N_, MsgNum   (* as in SPSC1: slots, messages                     *)

ASSUME SizeAssumption == N_ \in Nat \ {0} /\ \E k \in 0 .. N_ : N_ = 2 ^ k
ASSUME MsgNumAssumption == MsgNum \in Nat

VARIABLES
  (* of SPSC1 *)
  payload, busy, write_idx_, read_idx_, p_pc, p_i, c_pc, c_i, received,
  view, seen, lastWrite, lastRead,
  (* of Throughput *)
  multicast, main, spawned, pc, failures, producers_ready_num, consumers_ready_num,
  start_time, total_msg_published, total_msg_consumed, max_consumed

Q == INSTANCE SPSC1

(* The two threads.                                                        *)
p == <<"p", 1>>
c == <<"c", 1>>

H == INSTANCE Throughput
       WITH P <- 1, C <- 1, N <- MsgNum, Capacity <- N_, Vendor <- "spsc1", MaxFailures <- 0,
            log <- p_i, cursor <- [t \in {c} |-> c_i],
            i <- [t \in {p, c} |-> IF t = p THEN p_i ELSE c_i]

queueVars   == <<payload, busy, write_idx_, read_idx_, p_pc, p_i, c_pc, c_i, received,
                 view, seen, lastWrite, lastRead>>
harnessVars == <<multicast, main, spawned, failures, producers_ready_num, consumers_ready_num,
                 start_time, total_msg_published, total_msg_consumed, max_consumed>>
vars == <<queueVars, harnessVars, pc>>

Init == Q!Init /\ H!Init

-----------------------------------------------------------------------------

(* ProduceAll: a step of the queue's producer.  When its loop ends, the    *)
(* thread goes on to add up.                                               *)
Produce ==
  /\ pc[p] = "emplace" /\ Q!Producer
  /\ pc' = [pc EXCEPT ![p] = IF p_pc' = "done" THEN "add" ELSE @]
  /\ UNCHANGED harnessVars

(* ConsumeAll, in the same way.                                            *)
ConsumeStep ==
  /\ pc[c] = "consume" /\ Q!Consumer
  /\ pc' = [pc EXCEPT ![c] = IF c_pc' = "done" THEN "add" ELSE @]
  /\ UNCHANGED harnessVars

(* The steps of the benchmark outside the loops.                           *)
ProducerStep ==
  \/ Produce
  \/ /\ UNCHANGED queueVars
     /\ H!ProducerReady(p) \/ H!StartTime(p) \/ H!AddPublished(p)

ConsumerStep ==
  \/ ConsumeStep
  \/ /\ UNCHANGED queueVars
     /\ H!Join(c) \/ H!ConsumerReady(c) \/ H!SeeAll(c) \/ H!AddConsumed(c) \/ H!MaxConsumed(c)

MainStep == UNCHANGED queueVars /\ H!MainStep

Next == ProducerStep \/ ConsumerStep \/ MainStep

Spec == Init /\ [][Next]_vars

(* Every thread is scheduled again and again.                              *)
FairSpec == Spec /\ WF_vars(ProducerStep) /\ WF_vars(ConsumerStep) /\ WF_vars(MainStep)

-----------------------------------------------------------------------------

(* With SPSC1 in the place of the queue that Throughput takes as given,    *)
(* every run of the benchmark is one of Throughput: the queue has the room *)
(* and the messages a correct bounded queue has, and each thread that      *)
(* Throughput lets go on goes on.                                          *)
ImplementsThroughput == H!FairSpec

(* ConsumeAndStore keeps the last value it was given, 0 before the first.  *)
last_val == IF received = << >> THEN 0 ELSE received[Len(received)]

(* "Consumer should has last value at least as [per_producer_num]": when   *)
(* go returns, the value ConsumeAndStore holds is that of the last message *)
(* of ProduceIncremental.                                                  *)
LastValueStored == main = "returned" => last_val >= H!per_producer_num
=============================================================================
