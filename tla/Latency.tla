------------------------------- MODULE Latency -------------------------------
(***************************************************************************)
(* One run of LatencyBenchmark (framework/benchmark_round_trip_latency.h,  *)
(* go): as many A threads as B threads play ping-pong over two queues.  An *)
(* A thread sends on queue a and receives on queue b, a B thread the other *)
(* way round (the adapters LatencyA and LatencyB of mgark_spec.h and       *)
(* atomic_queue_spec.h).  Only the first A thread sends without having     *)
(* received, so there is one ball, and it times the round trips.           *)
(*                                                                         *)
(* The queues, of vendors outside the repository, are taken as correct     *)
(* blocking anycast queues of Capacity messages, of which only the number  *)
(* matters.                                                                *)
(***************************************************************************)
EXTENDS Integers, FiniteSets

CONSTANTS
  P,         (* _PRODUCER_N_, by which the messages are divided            *)
  T,         (* _THREAD_N_: A threads, and B threads                       *)
  N,         (* round trips asked of the run                               *)
  Capacity   (* ring_buffer_sz                                             *)

ASSUME ThreadAssumption == T \in Nat \ {0} /\ P \in Nat /\ P >= T
ASSUME SizeAssumption == N \in Nat /\ Capacity \in Nat \ {0}

VARIABLES
  main,       (* main thread: running, returned, thrown                    *)
  spawned,    (* threads started: first the A threads                      *)
  pc, i,      (* each thread: control point, loop counter                  *)
  ready,      (* each side: a_ready_num, b_ready_num                       *)
  now,        (* each A thread's clock reading: messages sent by then      *)
  start_time, (* start_time_ns, in the same unit; or Unset                 *)
  total,      (* each side: a_total_iteration_num, b_total_iteration_num   *)
  q,          (* messages in queue a and in queue b                        *)
  sent        (* history: messages sent so far                             *)

mainVars  == <<main, spawned>>
timeVars  == <<now, start_time>>
queueVars == <<q, sent>>
vars == <<mainVars, pc, i, ready, timeVars, total, queueVars>>

Sides == {"a", "b"}
AThreads == {"a"} \X (0 .. T - 1)
BThreads == {"b"} \X (0 .. T - 1)
Threads  == AThreads \cup BThreads
Other(side) == IF side = "a" THEN "b" ELSE "a"

Unset == -1

(* Round trips of each thread.                                             *)
per_thread_num == N \div P

Init ==
  /\ main = "running" /\ spawned = 0
  /\ pc = [t \in Threads |-> "unborn"] /\ i = [t \in Threads |-> 0]
  /\ ready = [s \in Sides |-> 0]
  /\ now = [t \in AThreads |-> Unset] /\ start_time = Unset
  /\ total = [s \in Sides |-> 0]
  /\ q = [s \in Sides |-> 0] /\ sent = 0

Goto(t, from, to) == pc[t] = from /\ pc' = [pc EXCEPT ![t] = to]

-----------------------------------------------------------------------------
(* What both kinds of threads do.                                          *)

(* Build LatencyA or LatencyB, which joins the queue it will receive from; *)
(* then ++a_ready_num or ++b_ready_num.                                    *)
Ready(t) ==
  /\ ready' = [ready EXCEPT ![t[1]] = @ + 1]
  /\ Goto(t, "begin", "await")
  /\ UNCHANGED <<mainVars, i, timeVars, total, queueVars>>

(* Mutant: a thread waits for the threads of one side only.                *)
BarrierOpen_OneSide == \E s \in Sides : ready[s] >= T

(* The loops on a_ready_num and b_ready_num end.  Both only grow, so the   *)
(* two loads count as one.                                                 *)
BarrierOpen == \A s \in Sides : ready[s] >= T

(* One message into the queue of t's side, when it has room.               *)
Send(t) ==
  /\ q[t[1]] < Capacity
  /\ q' = [q EXCEPT ![t[1]] = @ + 1] /\ sent' = sent + 1

(* One message out of the queue of the other side, when it has one.        *)
Receive(t) ==
  /\ q[Other(t[1])] > 0
  /\ q' = [q EXCEPT ![Other(t[1])] = @ - 1] /\ UNCHANGED sent

(* fetch_add of the iterations; the object is handed to the collection     *)
(* under the mutex, and the thread ends.                                   *)
Add(t) ==
  /\ total' = [total EXCEPT ![t[1]] = @ + i[t]]
  /\ Goto(t, "add", "done")
  /\ UNCHANGED <<mainVars, i, ready, timeVars, queueVars>>

-----------------------------------------------------------------------------
(* A threads.                                                              *)

(* The barrier, then now = system_clock::now().                            *)
ANow(t) ==
  /\ BarrierOpen
  /\ now' = [now EXCEPT ![t] = sent]
  /\ Goto(t, "await", "start")
  /\ UNCHANGED <<mainVars, i, ready, start_time, total, queueVars>>

(* Mutant: every A thread sends a bootstrap message.                       *)
AHead_All(t, n) == "send"

(* The head of the loop in turn n: all but the first A thread leave out    *)
(* the bootstrap message.                                                  *)
AHead(t, n) ==
  IF n > 0 \/ t[2] = 0 THEN "send"
  ELSE IF per_thread_num = 0 THEN "add" ELSE "receive"

(* Mutant: the time is stored without a comparison.                        *)
Exchanged_Always(t) == now[t]

(* compare_exchange_strong(time_point{}, now).                             *)
Exchanged(t) == IF start_time = Unset THEN now[t] ELSE start_time

AStart(t) ==
  /\ start_time' = Exchanged(t)
  /\ Goto(t, "start", AHead(t, 0))
  /\ UNCHANGED <<mainVars, i, ready, now, total, queueVars>>

(* Send on queue a; the loop ends when i == N.                             *)
ASend(t) ==
  /\ Send(t)
  /\ Goto(t, "send", IF i[t] = per_thread_num THEN "add" ELSE "receive")
  /\ UNCHANGED <<mainVars, i, ready, timeVars, total>>

(* Receive on queue b, ++i.                                                *)
AReceive(t) ==
  /\ Receive(t)
  /\ i' = [i EXCEPT ![t] = @ + 1]
  /\ Goto(t, "receive", AHead(t, i[t] + 1))
  /\ UNCHANGED <<mainVars, ready, timeVars, total>>

-----------------------------------------------------------------------------
(* B threads.                                                              *)

(* Mutant: the loop of a B thread runs once too often.                     *)
BHead_OneMore(n) == IF n <= per_thread_num THEN "receive" ELSE "add"

(* The head of the loop in turn n.                                         *)
BHead(n) == IF n < per_thread_num THEN "receive" ELSE "add"

BAwait(t) ==
  /\ BarrierOpen
  /\ Goto(t, "await", BHead(0))
  /\ UNCHANGED <<mainVars, i, ready, timeVars, total, queueVars>>

(* Receive on queue a.                                                     *)
BReceive(t) ==
  /\ Receive(t)
  /\ Goto(t, "receive", "send")
  /\ UNCHANGED <<mainVars, i, ready, timeVars, total>>

(* Send on queue b, ++i.                                                   *)
BSend(t) ==
  /\ Send(t)
  /\ i' = [i EXCEPT ![t] = @ + 1]
  /\ Goto(t, "send", BHead(i[t] + 1))
  /\ UNCHANGED <<mainVars, ready, timeVars, total>>

-----------------------------------------------------------------------------
(* The main thread.                                                        *)

(* The next thread is started: all A threads, then all B threads.          *)
Spawn ==
  /\ spawned < 2 * T
  /\ spawned' = spawned + 1
  /\ Goto(<<IF spawned < T THEN "a" ELSE "b", spawned % T>>, "unborn", "begin")
  /\ UNCHANGED <<main, i, ready, timeVars, total, queueVars>>

(* Mutant: the B threads are not joined before the totals are compared.    *)
AllDone_AOnly == \A t \in AThreads : pc[t] = "done"

AllDone == \A t \in Threads : pc[t] = "done"

(* All threads are joined, and the totals compared.                        *)
JoinAndCheck ==
  /\ main = "running" /\ AllDone
  /\ main' = IF total["a"] # total["b"] THEN "thrown" ELSE "returned"
  /\ UNCHANGED <<spawned, pc, i, ready, timeVars, total, queueVars>>

-----------------------------------------------------------------------------

AStep(t) == Ready(t) \/ ANow(t) \/ AStart(t) \/ ASend(t) \/ AReceive(t) \/ Add(t)
BStep(t) == Ready(t) \/ BAwait(t) \/ BReceive(t) \/ BSend(t) \/ Add(t)
MainStep == Spawn \/ JoinAndCheck

Next == MainStep \/ (\E t \in AThreads : AStep(t)) \/ (\E t \in BThreads : BStep(t))

Spec == Init /\ [][Next]_vars

(* Every thread is scheduled again and again, and spins when it must wait. *)
FairSpec ==
  /\ Spec /\ WF_vars(MainStep)
  /\ \A t \in AThreads : WF_vars(AStep(t))
  /\ \A t \in BThreads : WF_vars(BStep(t))

-----------------------------------------------------------------------------

(* Types of the variables; no loop runs past its bound.                    *)
TypeOK ==
  /\ main \in {"running", "returned", "thrown"} /\ spawned \in 0 .. 2 * T
  /\ pc \in [Threads -> {"unborn", "begin", "await", "start", "send", "receive", "add", "done"}]
  /\ i \in [Threads -> 0 .. per_thread_num]
  /\ ready \in [Sides -> 0 .. T]
  /\ now \in [AThreads -> Nat \cup {Unset}] /\ start_time \in Nat \cup {Unset}
  /\ total \in [Sides -> Nat] /\ q \in [Sides -> 0 .. Capacity] /\ sent \in Nat

(* Threads that have received the ball and not sent it back yet.           *)
Holders == {t \in Threads : pc[t] = "send" /\ (t[1] = "b" \/ i[t] > 0)}

(* Once the bootstrap message is sent there is exactly one ball, in a      *)
(* queue or in a thread's hands, to the end: the average over round trips  *)
(* is the time of a round trip, since no two of them overlap.              *)
OneBall ==
  q["a"] + q["b"] + Cardinality(Holders) = IF sent > 0 THEN 1 ELSE 0

(* Nobody sends before every consumer has joined its queue.                *)
JoinedBeforeBall ==
  sent > 0 => \A t \in Threads : pc[t] \notin {"unborn", "begin"}

(* go does not fail, and when it returns both sides have made every round  *)
(* trip; the ball lies in queue a, where A's last answer left it.          *)
RoundTripsAddUp ==
  /\ main # "thrown"
  /\ main = "returned" =>
       /\ \A s \in Sides : total[s] = per_thread_num * T
       /\ q = [s \in Sides |-> IF s = "a" THEN 1 ELSE 0]

BR == INSTANCE BenchmarkRun
        WITH Work <- 2 * per_thread_num * T + 1,
             progress <- sent, returned <- main = "returned"

(* The start time is read and stored before the ball is in play, and a     *)
(* slower A thread does not replace it; every message of every round trip  *)
(* is sent, and no more; and go returns: no thread waits for a ball that   *)
(* does not come.                                                          *)
ImplementsRun == BR!FairSpec
=============================================================================
