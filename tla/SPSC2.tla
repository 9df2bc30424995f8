-------------------------------- MODULE SPSC2 --------------------------------
(***************************************************************************)
(* The queue SPSC2 (benchmark/vendor_specs/spsc2_spec.h) driven by its two *)
(* client loops: one producer thread runs Spsc2SingleQueueProduceAll, one  *)
(* consumer thread runs Spsc2QueueConsumeAll.                              *)
(*                                                                         *)
(* Unlike SPSC1, the threads share two counters that only grow: write_idx_ *)
(* (stored by the producer) and read_idx_ (stored by the consumer, once a  *)
(* batch).  Each side works on the copy of the other's counter it loaded   *)
(* last, and loads again when that copy stops it.  The consumer moves      *)
(* BatchBuf messages at a time into a private buffer when that many are    *)
(* ready, and reads the ring in place when they are not.                   *)
(*                                                                         *)
(* Memory order.  A load may return any store not older than the one the   *)
(* thread loaded before (coherence), so an acquire load chooses among      *)
(* them; the threads must be correct whichever it gets.  What a load makes *)
(* known by happens-before is kept in p_known and c_known.                 *)
(*                                                                         *)
(* The loop counters of the two clients equal write_idx_ and               *)
(* local_read_idx_, so the model does not repeat them.                     *)
(***************************************************************************)
EXTENDS Integers, Sequences

CONSTANTS
  N_,         (* slots of the ring                                         *)
  BATCH_NUM,  (* batches per lap: how often read_idx_ is published         *)
  BatchBuf,   (* _batch_buffer_size_: messages that fit in 256 bytes       *)
  MsgNum      (* messages the producer publishes and the consumer consumes *)

(* As in SPSC1, the constructor rejects sizes that are no power of two.    *)
(* BATCH_NUM = 0 passes the static_assert, then divides by zero.           *)
ASSUME SizeAssumption == N_ \in Nat \ {0}
ASSUME PowerOfTwo == \E k \in 0 .. N_ : N_ = 2 ^ k
ASSUME BatchAssumption == BATCH_NUM \in Nat \ {0}
ASSUME BatchPowerOfTwo == \E k \in 0 .. BATCH_NUM : BATCH_NUM = 2 ^ k
ASSUME BatchBufAssumption == BatchBuf \in Nat
ASSUME MsgNumAssumption == MsgNum \in Nat

(* Mutant: read_idx_ is published once a lap, whatever BATCH_NUM says.     *)
items_per_batch_Lap == N_

(* Rounds down: 0 when BATCH_NUM > N_.                                     *)
items_per_batch_ == N_ \div BATCH_NUM

VARIABLES
  data_,                (* payload of each slot; 0 before the first write  *)
  write_idx_,           (* messages published                              *)
  readStores,           (* stores of read_idx_, from the one the producer  *)
                        (* loaded last to the latest: value and knowledge  *)
  p_pc,                 (* producer: control point                         *)
  last_read_idx_,       (* producer: read_idx_ as loaded last              *)
  p_known,              (* history: ring reads the producer knows of       *)
  c_pc,                 (* consumer: control point                         *)
  local_read_idx_,      (* consumer: messages skipped                      *)
  last_write_idx_,      (* consumer: write_idx_ as loaded last             *)
  next_checkpoint_idx_, (* consumer: when to publish read_idx_             *)
  batch,                (* consumer: rest of batch_buffer_, empty when     *)
                        (* batch_buffer_idx_ >= _batch_buffer_size_        *)
  c_known,              (* history: ring writes the consumer knows of      *)
  received              (* history: values given to the message processor  *)

prodVars == <<p_pc, last_read_idx_, p_known>>
consVars == <<c_pc, local_read_idx_, last_write_idx_, next_checkpoint_idx_, batch, c_known, received>>
memVars  == <<data_, write_idx_, readStores>>
vars     == <<memVars, prodVars, consVars>>

Slots == 0 .. N_ - 1

(* What lies in memory behind the last slot: not a message.                *)
Garbage == 0

(* The slot of a counter value: idx & (N_ - 1).                            *)
Slot(idx) == idx % N_

(* The k-th cell of memory from a slot on, in or behind the ring.          *)
Cell(slot, k) == IF slot + k < N_ THEN data_[slot + k] ELSE Garbage

(* The value of the message with counter value i: ProduceIncremental.      *)
Message(i) == i + 1

(* read_idx_ itself: the latest store.                                     *)
read_idx_ == readStores[Len(readStores)].idx

Larger(a, b) == IF a >= b THEN a ELSE b

-----------------------------------------------------------------------------

Init ==
  /\ data_ = [s \in Slots |-> 0]
  /\ write_idx_ = 0
  /\ readStores = << [idx |-> 0, known |-> 0] >>
  /\ p_pc = IF MsgNum = 0 THEN "done" ELSE "wait"
  /\ last_read_idx_ = 0
  /\ p_known = 0
  /\ c_pc = IF MsgNum = 0 THEN "done" ELSE "wait"
  /\ local_read_idx_ = 0
  /\ last_write_idx_ = 0
  /\ next_checkpoint_idx_ = items_per_batch_
  /\ batch = << >>
  /\ c_known = 0
  /\ received = << >>

(***************************************************************************)
(* Producer: emplace(message_creator_())                                   *)
(***************************************************************************)

(* Mutant: the ring is taken to have one more slot than it has.            *)
HasRoom_OneMore == write_idx_ <= last_read_idx_ + N_

(* The loop's test, write_idx >= last_read_idx_ + N_, is false.            *)
HasRoom == write_idx_ < last_read_idx_ + N_

(* last_read_idx_ = read_idx_ while there is no room: one load, of the     *)
(* n-th store that coherence still allows.                                 *)
EmplaceLoad(n) ==
  /\ p_pc = "wait" /\ ~ HasRoom
  /\ last_read_idx_' = readStores[n].idx
  /\ p_known' = Larger(p_known, readStores[n].known)
  /\ readStores' = SubSeq(readStores, n, Len(readStores))
  /\ UNCHANGED <<data_, write_idx_, p_pc, consVars>>

(* The loop ends, and the payload is constructed in its slot.              *)
EmplaceWrite ==
  /\ p_pc = "wait" /\ HasRoom
  /\ data_' = [data_ EXCEPT ![Slot(write_idx_)] = Message(write_idx_)]
  /\ p_pc' = "publish"
  /\ UNCHANGED <<write_idx_, readStores, last_read_idx_, p_known, consVars>>

(* Mutant: a loop of a client runs once too often.                         *)
Loop_OneMore(i) == IF i <= MsgNum THEN "wait" ELSE "done"

(* The test of the clients' loops, i < N_, after i messages.               *)
Loop(i) == IF i < MsgNum THEN "wait" ELSE "done"

(* write_idx_.store(write_idx + 1, release), then the client's ++i.        *)
EmplacePublish ==
  /\ p_pc = "publish"
  /\ write_idx_' = write_idx_ + 1
  /\ p_pc' = Loop(write_idx_ + 1)
  /\ UNCHANGED <<data_, readStores, last_read_idx_, p_known, consVars>>

(***************************************************************************)
(* Consumer: peek(), the message processor, skip()                         *)
(***************************************************************************)

(* Mutant: write_idx_ is stored with memory_order_relaxed.                 *)
Published_Relaxed(v) == 0

(* The payload writes that the release store of value v carries with it.   *)
Published(v) == v

items_ready_num == last_write_idx_ - local_read_idx_

(* last_write_idx_ = write_idx_ while no message is seen: one load; the    *)
(* producer stored every value up to write_idx_.                           *)
PeekLoad(v) ==
  /\ c_pc = "wait" /\ batch = << >> /\ items_ready_num <= 0
  /\ last_write_idx_' = v
  /\ c_known' = Larger(c_known, Published(v))
  /\ UNCHANGED <<memVars, prodVars, c_pc, local_read_idx_, next_checkpoint_idx_, batch, received>>

(* peek returns value, leaving rest in batch_buffer_; the processor reads  *)
(* the value.                                                              *)
Consume(value, rest) ==
  /\ c_pc = "wait" /\ c_pc' = "skip"
  /\ received' = Append(received, value)
  /\ batch' = rest
  /\ UNCHANGED <<memVars, prodVars, local_read_idx_, last_write_idx_, next_checkpoint_idx_, c_known>>

(* The next message of batch_buffer_.                                      *)
ConsumeBatched ==
  /\ batch # << >>
  /\ Consume(Head(batch), Tail(batch))

(* Mutant: the first message is returned but left in the buffer.           *)
Rest_Twice(copied) == copied

(* What batch_buffer_idx_++ leaves of the buffer.                          *)
Rest(copied) == SubSeq(copied, 2, BatchBuf)

(* At least BatchBuf messages are ready: peek copies as many cells from    *)
(* the slot on, past the end of the ring if need be, and returns the first *)
(* one.  A buffer of no bytes (BatchBuf = 0) has no first one.             *)
ConsumeCopy ==
  /\ batch = << >> /\ items_ready_num > 0 /\ items_ready_num >= BatchBuf
  /\ LET copied == [k \in 1 .. BatchBuf |-> Cell(Slot(local_read_idx_), k - 1)]
     IN  Consume(IF BatchBuf = 0 THEN Garbage ELSE copied[1], Rest(copied))

(* Fewer are ready: the processor reads the message in its slot.           *)
ConsumeDirect ==
  /\ batch = << >> /\ items_ready_num > 0 /\ items_ready_num < BatchBuf
  /\ Consume(data_[Slot(local_read_idx_)], << >>)

(* Mutant: the checkpoint is compared with > instead of >=.                *)
AtCheckpoint_Late == local_read_idx_ > next_checkpoint_idx_

AtCheckpoint == local_read_idx_ >= next_checkpoint_idx_

(* skip: if (local_read_idx_++ >= next_checkpoint_idx_), read_idx_.store   *)
(* with memory_order_release; then the client's ++i.                       *)
Skip ==
  /\ c_pc = "skip"
  /\ local_read_idx_' = local_read_idx_ + 1
  /\ IF AtCheckpoint
     THEN /\ readStores' = Append(readStores,
                             [idx   |-> local_read_idx_ + 1,
                              known |-> local_read_idx_ + 1 + Len(batch)])
          /\ next_checkpoint_idx_' = next_checkpoint_idx_ + items_per_batch_
     ELSE UNCHANGED <<readStores, next_checkpoint_idx_>>
  /\ c_pc' = Loop(local_read_idx_ + 1)
  /\ UNCHANGED <<data_, write_idx_, prodVars, last_write_idx_, batch, c_known, received>>

-----------------------------------------------------------------------------

ProducerStep == EmplaceWrite \/ EmplacePublish
Producer == ProducerStep \/ \E n \in 1 .. Len(readStores) : EmplaceLoad(n)

ConsumerStep == ConsumeBatched \/ ConsumeCopy \/ ConsumeDirect \/ Skip
Consumer == ConsumerStep \/ \E v \in last_write_idx_ .. write_idx_ : PeekLoad(v)

Next == Producer \/ Consumer

Spec == Init /\ [][Next]_vars

(* The two loops run on threads of their own and never block.  A thread    *)
(* that keeps loading a counter eventually loads its latest value: stores  *)
(* become visible to other threads in a finite time.                       *)
Fairness ==
  /\ WF_vars(ProducerStep) /\ WF_vars(EmplaceLoad(Len(readStores)))
  /\ WF_vars(ConsumerStep) /\ WF_vars(PeekLoad(write_idx_))

FairSpec == Spec /\ Fairness

(* A copy of peek, if the step makes one, ends inside the ring.            *)
CopyInside == ConsumeCopy => BatchBuf # 0 /\ Slot(local_read_idx_) + BatchBuf <= N_

(* The executions in which no copy runs over the end of the ring.  Copies  *)
(* and reads in place still alternate in them.                             *)
InsideSpec == Init /\ [][Next /\ CopyInside]_vars /\ Fairness

-----------------------------------------------------------------------------

(* Types of the variables; the producer's copy of read_idx_ is the first   *)
(* of the stores it may still load.                                        *)
Types ==
  /\ data_ \in [Slots -> Nat]
  /\ write_idx_ \in 0 .. MsgNum /\ local_read_idx_ \in 0 .. MsgNum
  /\ readStores \in Seq([idx : Nat, known : Nat]) /\ Len(readStores) > 0
  /\ p_pc \in {"wait", "publish", "done"} /\ c_pc \in {"wait", "skip", "done"}
  /\ p_pc # "done" => write_idx_ < MsgNum
  /\ c_pc # "done" => local_read_idx_ < MsgNum
  /\ last_read_idx_ \in Nat /\ last_write_idx_ \in Nat
  /\ last_read_idx_ = readStores[1].idx
  /\ next_checkpoint_idx_ \in Nat
  /\ p_known \in Nat /\ c_known \in Nat
  /\ batch \in Seq(Nat) /\ received \in Seq(Nat)

(* Besides, neither copy of a counter is ahead of the messages there are,  *)
(* and the buffer never holds as many messages as it has room for: the     *)
(* first one is returned at once.                                          *)
TypeOK ==
  /\ Types
  /\ last_read_idx_ <= MsgNum /\ last_write_idx_ <= MsgNum
  /\ batch = << >> \/ Len(batch) < BatchBuf

(* How many messages the consumer has taken out of the ring, counting      *)
(* those it copied to its buffer.                                          *)
Taken == Len(received) + Len(batch)

(* The two counters order every access to a slot after the other thread's  *)
(* last access to it: emplace knows of the read of the message that its    *)
(* slot held one lap ago, peek of the write of every message it may read.  *)
NoDataRace ==
  /\ p_pc = "wait" /\ HasRoom => write_idx_ < p_known + N_
  /\ c_pc = "wait" /\ batch = << >> /\ items_ready_num > 0 => last_write_idx_ <= c_known

(* Every published message not yet taken out of the ring is in its slot:   *)
(* the producer does not lap the consumer, however stale the counters on   *)
(* which the two threads act.                                              *)
NoOverwrite ==
  \A i \in Taken .. write_idx_ - 1 : data_[Slot(i)] = Message(i)

(* The k-th message may be lost in a copy that runs over the end of the    *)
(* ring: it is in a later lap than the first and in one of the first       *)
(* BatchBuf - 1 slots.  (Or the buffer has no room for any.)               *)
BehindRing(k) == BatchBuf = 0 \/ (k > N_ /\ Slot(k - 1) + 1 < BatchBuf)

(* The k-th value the processor is handed is the k-th message, or else was *)
(* copied from behind the ring in the place of a message of the first      *)
(* slots: never a message of another lap, nor one skipped or handed over   *)
(* twice when peek switches between buffer and ring.                       *)
NoStaleMessage ==
  \A k \in 1 .. Len(received) :
    received[k] = Message(k - 1) \/ (received[k] = Garbage /\ BehindRing(k))

(* The processor is handed the messages 1, 2, 3, ...  It holds when no     *)
(* copy runs over the end of the ring (InsideSpec).                        *)
InOrder ==
  \A k \in 1 .. Len(received) : received[k] = Message(k - 1)

(* The consumer holds back the slots of at most items_per_batch_ messages  *)
(* it has skipped.                                                         *)
ConsumerLag == local_read_idx_ - read_idx_ <= items_per_batch_

(* The threads never wait for each other: when the ring is full as the     *)
(* producer sees it with read_idx_ up to date, the consumer has a message. *)
NoMutualWait ==
  write_idx_ >= read_idx_ + N_ => local_read_idx_ < write_idx_

(* The messages published so far, as the code holds them: those processed, *)
(* those left in the buffer, and those in the ring.                        *)
PublishedMsgs ==
  [k \in 1 .. write_idx_ |->
     IF k <= Len(received) THEN received[k]
     ELSE IF k <= Taken    THEN batch[k - Len(received)]
                           ELSE data_[Slot(k - 1)]]

Fifo == INSTANCE BoundedFifo
          WITH Msg <- 1 .. MsgNum, Capacity <- N_,
               published <- PublishedMsgs, received <- received

(* When no copy runs over the end of the ring (InsideSpec), SPSC2          *)
(* implements a FIFO of capacity N_, whose consumer eventually receives    *)
(* every message that was published.                                       *)
ImplementsFifo == Fifo!FairSpec

(* The values of s with the messages put where Garbage is.                 *)
Mended(s) == [k \in DOMAIN s |-> IF s[k] = Garbage THEN Message(k - 1) ELSE s[k]]

MendedFifo == INSTANCE BoundedFifo
                WITH Msg <- 1 .. MsgNum, Capacity <- N_,
                     published <- Mended(PublishedMsgs), received <- Mended(received)

(* Wherever the copies end, SPSC2 implements that FIFO but for the values  *)
(* from behind the ring: each stands for one message, the others are       *)
(* handed on in order, and every message is waited for.                    *)
ImplementsMendedFifo == MendedFifo!FairSpec

(* Both loops return: no message is left unpublished or unnoticed because  *)
(* a thread acts on its copy of the other's counter.                       *)
Finished  == p_pc = "done" /\ c_pc = "done"
Completes == <>Finished

(* "Consumer should has last value at least as [per_producer_num]": once   *)
(* both loops have returned, the last value processed is the last one that *)
(* was produced.                                                           *)
LastValueArrives == Finished /\ MsgNum > 0 => received[Len(received)] >= MsgNum
=============================================================================
