------------------------------ MODULE Throughput ------------------------------
(***************************************************************************)
(* One run of ThroughputBenchmark (framework/benchmark_throughput.h, go):  *)
(* the main thread starts the producers, then the consumers, joins them    *)
(* all and checks what they did.  The threads meet at a barrier of two     *)
(* counters, take the start time under a mutex and run the loops of the    *)
(* vendor's adapter (vendor_specs/mgark_spec.h, atomic_queue_spec.h,       *)
(* spsc1_spec.h, spsc2_spec.h).                                            *)
(*                                                                         *)
(* The queues of mgark and atomic_queue are not part of the repository.    *)
(* They are taken as correct bounded queues of Capacity messages: a        *)
(* multicast queue gives every consumer each message published after it    *)
(* joined, an anycast queue gives each message to one consumer.  Messages  *)
(* are counted and their contents left out.                                *)
(*                                                                         *)
(* A barrier only opens and never closes, so the load that finds it open   *)
(* is part of the action that follows it.                                  *)
(***************************************************************************)
EXTENDS Integers, FiniteSets

CONSTANTS
  P, C,        (* _PRODUCER_N_, _CONSUMER_N_                               *)
  N,           (* messages asked of the run                                *)
  Capacity,    (* ring_buffer_sz                                           *)
  Vendor,      (* whose loops the threads run                              *)
  MaxFailures  (* bound: how often emplace does not publish                *)

ASSUME ThreadAssumption == P \in Nat \ {0} /\ C \in Nat \ {0}
ASSUME SizeAssumption == N \in Nat /\ Capacity \in Nat \ {0}
ASSUME VendorAssumption == Vendor \in {"mgark", "atomic_queue", "spsc1", "spsc2"}
ASSUME FailureAssumption == MaxFailures \in Nat /\ (MaxFailures > 0 => Vendor = "mgark")

VARIABLES
  multicast,    (* multicast_consumers, and a queue of that kind (mgark    *)
                (* has one): a template parameter, it never changes        *)
  main,         (* main thread: running, returned, thrown                  *)
  spawned,      (* threads started: first the producers                    *)
  pc, i,        (* each thread: control point, loop counter                *)
  producers_ready_num, consumers_ready_num,
  start_time,   (* start_time_ns: messages published by then, or Unset     *)
  total_msg_published, total_msg_consumed,
  max_consumed, (* max_consumed_num_per_consumer                           *)
  log,          (* queue: number of messages published                     *)
  cursor,       (* queue: messages passed by each consumer if it is        *)
                (* multicast; by all of them, in cursor of the first, if   *)
                (* it is not                                               *)
  failures      (* emplace calls that did not publish                      *)

mainVars  == <<multicast, main, spawned>>
readyVars == <<producers_ready_num, consumers_ready_num>>
totalVars == <<total_msg_published, total_msg_consumed, max_consumed>>
queueVars == <<log, cursor, failures>>
vars == <<mainVars, pc, i, readyVars, start_time, totalVars, queueVars>>

Producers == {"p"} \X (1 .. P)
Consumers == {"c"} \X (1 .. C)
Threads   == Producers \cup Consumers

Unset == -1

per_producer_num == N \div P

(* Without multicast the quotient, a double, is cut to an integer.         *)
per_consumer_num ==
  IF multicast THEN per_producer_num * P
               ELSE (per_producer_num * P) \div C

total_consume_num == per_consumer_num * C

Init ==
  /\ multicast \in BOOLEAN /\ (multicast => Vendor = "mgark")
  /\ main = "running" /\ spawned = 0
  /\ pc = [t \in Threads |-> "unborn"] /\ i = [t \in Threads |-> 0]
  /\ producers_ready_num = 0 /\ consumers_ready_num = 0
  /\ start_time = Unset
  /\ total_msg_published = 0 /\ total_msg_consumed = 0 /\ max_consumed = 0
  /\ log = 0 /\ cursor = [c \in Consumers |-> 0] /\ failures = 0

Goto(t, from, to) == pc[t] = from /\ pc' = [pc EXCEPT ![t] = to]

-----------------------------------------------------------------------------
(* The queue.                                                              *)

(* Whose position consumer c reads from.                                   *)
Reader(c) == IF multicast THEN c ELSE <<"c", 1>>

(* Consumers a reliable multicast queue waits for: joined and not left.    *)
Joined == {c \in Consumers : pc[c] \notin {"unborn", "join", "done"}}

HasRoom ==
  \A c \in (IF multicast THEN Joined ELSE {<<"c", 1>>}) : log - cursor[c] < Capacity

HasMessage(c) == cursor[Reader(c)] < log

(* emplace or push: it publishes, or it returns another code.              *)
QueueEmplace(published) ==
  IF published
  THEN HasRoom /\ log' = log + 1 /\ UNCHANGED <<cursor, failures>>
  ELSE failures < MaxFailures /\ failures' = failures + 1 /\ UNCHANGED <<log, cursor>>

(* A multicast consumer starts behind what is already published.           *)
QueueJoin(c) ==
  /\ cursor' = IF multicast THEN [cursor EXCEPT ![c] = log] ELSE cursor
  /\ UNCHANGED <<log, failures>>

QueueConsume(c) ==
  /\ HasMessage(c)
  /\ cursor' = [cursor EXCEPT ![Reader(c)] = @ + 1]
  /\ UNCHANGED <<log, failures>>

-----------------------------------------------------------------------------
(* Producer threads.                                                       *)

(* Mutant: nobody waits for the consumers.                                 *)
ConsumersReady_Always == TRUE

(* consumers_ready_num.load() < _CONSUMER_N_ is false.                     *)
ConsumersReady == consumers_ready_num >= C

ProducersReady == producers_ready_num >= P

(* When all consumers are ready, build ProduceAllMessage;                  *)
(* ++producers_ready_num.                                                  *)
ProducerReady(p) ==
  /\ ConsumersReady
  /\ producers_ready_num' = producers_ready_num + 1
  /\ Goto(p, "begin", "await")
  /\ UNCHANGED <<mainVars, i, consumers_ready_num, start_time, totalVars, queueVars>>

(* Mutant: the loop of the producer runs once too often.                   *)
ProduceLoop_OneMore(n) == IF n <= per_producer_num THEN "emplace" ELSE "add"

(* The test of ProduceAll's loop, after n messages.                        *)
ProduceLoop(n) == IF n < per_producer_num THEN "emplace" ELSE "add"

(* Mutant: every producer stores the time, not only the first.             *)
StartedAt_Always == log

(* Under the mutex: the time is stored if none is.                         *)
StartedAt == IF start_time = Unset THEN log ELSE start_time

(* When all producers are ready: the start time, then ProduceAll.          *)
StartTime(p) ==
  /\ ProducersReady
  /\ start_time' = StartedAt
  /\ Goto(p, "await", ProduceLoop(0))
  /\ UNCHANGED <<mainVars, i, readyVars, totalVars, queueVars>>

(* Mutant: a message is counted whether it was published or not.           *)
Counted_Always(n, published) == n + 1

(* if (Published == ret_code) ++i;                                         *)
Counted(n, published) == IF published THEN n + 1 ELSE n

(* One turn of the loop.  A turn that does not publish is made again, with *)
(* a new message.                                                          *)
Emplace(p, published) ==
  /\ QueueEmplace(published)
  /\ i' = [i EXCEPT ![p] = Counted(@, published)]
  /\ Goto(p, "emplace", ProduceLoop(Counted(i[p], published)))
  /\ UNCHANGED <<mainVars, readyVars, start_time, totalVars>>

(* total_msg_published.fetch_add(published_num), and the thread ends.      *)
AddPublished(p) ==
  /\ total_msg_published' = total_msg_published + i[p]
  /\ Goto(p, "add", "done")
  /\ UNCHANGED <<mainVars, i, readyVars, start_time, total_msg_consumed, max_consumed, queueVars>>

-----------------------------------------------------------------------------
(* Consumer threads.                                                       *)

(* Build ConsumeAllMessage: the consumer joins the queue.                  *)
Join(c) ==
  /\ QueueJoin(c)
  /\ Goto(c, "begin", "ready")
  /\ UNCHANGED <<mainVars, i, readyVars, start_time, totalVars>>

(* ++consumers_ready_num.                                                  *)
ConsumerReady(c) ==
  /\ consumers_ready_num' = consumers_ready_num + 1
  /\ Goto(c, "ready", "await")
  /\ UNCHANGED <<mainVars, i, producers_ready_num, start_time, totalVars, queueVars>>

(* When all are ready, ConsumeAll is entered.  The loops of mgark test the *)
(* count only after a message, the others before the first one as well.    *)
SeeAll(c) ==
  /\ ProducersReady /\ ConsumersReady
  /\ Goto(c, "await", IF per_consumer_num = 0 /\ Vendor # "mgark" THEN "add" ELSE "consume")
  /\ UNCHANGED <<mainVars, i, readyVars, start_time, totalVars, queueVars>>

(* One message consumed, and the loop's test: ++i == N_.                   *)
Consume(c) ==
  /\ QueueConsume(c)
  /\ i' = [i EXCEPT ![c] = @ + 1]
  /\ Goto(c, "consume", IF i[c] + 1 = per_consumer_num THEN "add" ELSE "consume")
  /\ UNCHANGED <<mainVars, readyVars, start_time, totalVars>>

(* total_msg_consumed.fetch_add.  A count other than per_consumer_num      *)
(* would throw out of the thread, and end the program.                     *)
AddConsumed(c) ==
  /\ total_msg_consumed' = total_msg_consumed + i[c]
  /\ Goto(c, "add", IF i[c] = per_consumer_num THEN "max" ELSE "terminate")
  /\ UNCHANGED <<mainVars, i, readyVars, start_time, total_msg_published, max_consumed, queueVars>>

(* Under the mutex: the largest count, and the thread ends.                *)
MaxConsumed(c) ==
  /\ max_consumed' = IF max_consumed >= i[c] THEN max_consumed ELSE i[c]
  /\ Goto(c, "max", "done")
  /\ UNCHANGED <<mainVars, i, readyVars, start_time, total_msg_published, total_msg_consumed, queueVars>>

-----------------------------------------------------------------------------
(* The main thread.                                                        *)

(* The next thread is started: all producers, then all consumers.          *)
Spawn ==
  /\ spawned < P + C
  /\ spawned' = spawned + 1
  /\ Goto(IF spawned < P THEN <<"p", spawned + 1>> ELSE <<"c", spawned + 1 - P>>, "unborn", "begin")
  /\ UNCHANGED <<multicast, main, i, readyVars, start_time, totalVars, queueVars>>

(* Mutant: the checks are made when the producers have been joined.        *)
AllDone_ProducersOnly == \A t \in Producers : pc[t] = "done"

AllDone == \A t \in Threads : pc[t] = "done"

(* All threads are joined; then the check on the count of the consumer     *)
(* that got most (compiled in for ProduceIncremental with ConsumeAndStore, *)
(* which all the uint32 programs use) and the check on the total.          *)
JoinAndCheck ==
  /\ main = "running" /\ AllDone
  /\ main' = IF max_consumed < per_producer_num \/ total_msg_consumed # total_consume_num
             THEN "thrown" ELSE "returned"
  /\ UNCHANGED <<multicast, spawned, pc, i, readyVars, start_time, totalVars, queueVars>>

-----------------------------------------------------------------------------

ProducerStep(p) ==
  \/ ProducerReady(p) \/ StartTime(p) \/ AddPublished(p)
  \/ \E published \in BOOLEAN : Emplace(p, published)

ConsumerStep(c) ==
  \/ Join(c) \/ ConsumerReady(c) \/ SeeAll(c)
  \/ Consume(c) \/ AddConsumed(c) \/ MaxConsumed(c)

MainStep == Spawn \/ JoinAndCheck

Next ==
  \/ MainStep
  \/ \E p \in Producers : ProducerStep(p)
  \/ \E c \in Consumers : ConsumerStep(c)

Spec == Init /\ [][Next]_vars

(* Every thread is scheduled again and again.  Nothing more is assumed: a  *)
(* consumer that competes for anycast messages may lose every time.        *)
FairSpec ==
  /\ Spec /\ WF_vars(MainStep)
  /\ \A p \in Producers : WF_vars(ProducerStep(p))
  /\ \A c \in Consumers : WF_vars(ConsumerStep(c))

-----------------------------------------------------------------------------

(* Types of the variables; no producer's loop runs past its bound and no   *)
(* reader past the messages published.                                     *)
TypeOK ==
  /\ multicast \in BOOLEAN
  /\ main \in {"running", "returned", "thrown"} /\ spawned \in 0 .. P + C
  /\ pc \in [Threads -> {"unborn", "begin", "ready", "await", "emplace", "consume",
                         "add", "max", "terminate", "done"}]
  /\ i \in [Threads -> Nat] /\ \A p \in Producers : i[p] <= per_producer_num
  /\ producers_ready_num \in 0 .. P /\ consumers_ready_num \in 0 .. C
  /\ start_time \in Nat \cup {Unset}
  /\ total_msg_published \in Nat /\ total_msg_consumed \in Nat /\ max_consumed \in Nat
  /\ log \in Nat /\ cursor \in [Consumers -> 0 .. log] /\ failures \in 0 .. MaxFailures

(* No message is published before every consumer has joined the queue: a   *)
(* multicast consumer that joins later would miss messages and wait for    *)
(* ever for the number it was told to consume.                             *)
JoinedBeforeMessages ==
  /\ log > 0 => \A c \in Consumers : pc[c] \notin {"unborn", "begin", "ready"}
  /\ multicast => \A c \in Consumers : cursor[c] = i[c]

(* go never takes a run on a correct queue for a failed one.               *)
NoFalseAlarm ==
  /\ main # "thrown"
  /\ \A c \in Consumers : pc[c] # "terminate"

(* A run that returns reports the messages that really are in the queue,   *)
(* all that it was asked for, however many emplace calls failed; every     *)
(* consumer has had its share, and fewer messages are left unread than     *)
(* there are anycast consumers, none by multicast consumers.               *)
TotalsAddUp ==
  main = "returned" =>
    /\ total_msg_published = log /\ log = per_producer_num * P
    /\ total_msg_consumed = total_consume_num
    /\ \A c \in Consumers : log - cursor[Reader(c)] < (IF multicast THEN 1 ELSE C)

(* Messages consumed: each consumer's first, second, ...                   *)
Consumed == UNION {{c} \X (1 .. i[c]) : c \in Consumers}

BR == INSTANCE BenchmarkRun
        WITH Work     <- per_producer_num * P + total_consume_num,
             progress <- log + Cardinality(Consumed),
             returned <- main = "returned"

(* The start time is taken once and before the first message, by whichever *)
(* producer comes first; all messages are published and each consumer gets *)
(* its share, and no more; and go returns: nobody waits for ever at the    *)
(* barrier, for room or for a message.                                     *)
ImplementsRun == BR!FairSpec

(* go returns or throws.                                                   *)
Completes == <>(main \in {"returned", "thrown"})
=============================================================================
