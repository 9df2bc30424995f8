----------------------------- MODULE SPSC2Proofs -----------------------------
(***************************************************************************)
(* Proofs about SPSC2, for every ring size, number of batches, size of the *)
(* private buffer and number of messages.                                  *)
(*                                                                         *)
(* The argument is in four layers.  Stores: every store of read_idx_ that  *)
(* the producer may still load is one of a message already taken, and the  *)
(* stores grow.  Window: the copies on which the threads act lie on the    *)
(* safe side, so write_idx_ stays within one lap of the messages taken.    *)
(* Contents: the cells of that window hold the messages, and so does the   *)
(* private buffer, but for cells behind the ring.  (Exact: when no copy    *)
(* runs over the end of the ring, there are none of those.)  Lag:          *)
(* read_idx_ is one batch behind at most.                                  *)
(***************************************************************************)
EXTENDS SPSC2, SequenceTheorems, TLAPS

Position == Len(received) = IF c_pc = "skip" THEN local_read_idx_ + 1 ELSE local_read_idx_

Stores ==
  /\ \A n \in 1 .. Len(readStores) :
       /\ readStores[n].idx <= local_read_idx_
       /\ readStores[n].idx <= readStores[n].known
       /\ readStores[n].known <= Taken
  /\ \A m, n \in 1 .. Len(readStores) : m <= n => readStores[m].idx <= readStores[n].idx

Window ==
  /\ last_read_idx_ <= p_known
  /\ write_idx_ <= last_read_idx_ + N_
  /\ p_pc = "publish" => write_idx_ < last_read_idx_ + N_
  /\ last_write_idx_ <= write_idx_ /\ last_write_idx_ <= c_known
  /\ Taken <= last_write_idx_

BufferRoom == batch = << >> \/ Len(batch) < BatchBuf

(* What may stand in the place of the k-th message.                        *)
RightOrLost(value, k) == value = Message(k - 1) \/ (value = Garbage /\ BehindRing(k))

Contents ==
  /\ NoOverwrite
  /\ p_pc = "publish" => data_[Slot(write_idx_)] = Message(write_idx_)
  /\ \A k \in 1 .. Len(received) : RightOrLost(received[k], k)
  /\ \A j \in 1 .. Len(batch) : RightOrLost(batch[j], Len(received) + j)

Lag ==
  /\ next_checkpoint_idx_ <= read_idx_ + items_per_batch_
  /\ local_read_idx_ <= next_checkpoint_idx_ \/ local_read_idx_ = read_idx_

Exact ==
  /\ InOrder
  /\ \A j \in 1 .. Len(batch) : batch[j] = Message(Len(received) + j - 1)

-----------------------------------------------------------------------------
(* The arithmetic of the ring.                                             *)

LEMMA Multiples ==
  ASSUME NEW n \in Nat \ {0}, NEW d \in Int
  PROVE  /\ n * d \in Int
         /\ d >= 1 => n * d >= n
         /\ d <= 0 => n * d <= 0
OBVIOUS

LEMMA Division ==
  ASSUME NEW i \in Nat
  PROVE  \E q \in Nat : i = N_ * q + Slot(i)
<1>1. i = N_ * (i \div N_) + (i % N_) /\ i \div N_ \in Nat
  BY SizeAssumption
<1>2. QED
  BY <1>1 DEF Slot

LEMMA SlotInRing ==
  ASSUME NEW i \in Nat
  PROVE  Slot(i) \in Slots
BY SizeAssumption DEF Slot, Slots

(* Within one lap no two counter values share a slot.                      *)
LEMMA SlotsApart ==
  ASSUME NEW i \in Nat, NEW j \in Nat, i < j, j < i + N_
  PROVE  Slot(i) # Slot(j)
<1>1. PICK q \in Nat : i = N_ * q + Slot(i)
  BY Division
<1>2. PICK r \in Nat : j = N_ * r + Slot(j)
  BY Division
<1>3. N_ * r - N_ * q = N_ * (r - q)
  BY SizeAssumption
<1>4. N_ * (r - q) <= 0 \/ N_ * (r - q) >= N_
  BY SizeAssumption, Multiples
<1>5. Slot(i) \in Int /\ Slot(j) \in Int /\ N_ * r \in Int /\ N_ * q \in Int
  BY SlotInRing, SizeAssumption DEF Slots
<1>6. QED
  BY <1>1, <1>2, <1>3, <1>4, <1>5, SizeAssumption

(* Up to the end of the ring, consecutive counters have consecutive slots. *)
LEMMA SlotAfter ==
  ASSUME NEW i \in Nat, NEW k \in Nat, Slot(i) + k < N_
  PROVE  Slot(i + k) = Slot(i) + k
<1>1. PICK q \in Nat : i = N_ * q + Slot(i)
  BY Division
<1>2. PICK r \in Nat : i + k = N_ * r + Slot(i + k)
  BY Division
<1>3. N_ * r - N_ * q = N_ * (r - q)
  BY SizeAssumption
<1>4. /\ r - q >= 1 => N_ * (r - q) >= N_
      /\ q - r >= 1 => N_ * (q - r) >= N_
      /\ N_ * (q - r) = - (N_ * (r - q))
  BY SizeAssumption, Multiples
<1>5. /\ Slot(i) \in Slots /\ Slot(i + k) \in Slots
      /\ N_ * r \in Int /\ N_ * q \in Int /\ N_ * (r - q) \in Int
  BY SlotInRing, SizeAssumption
<1>6. r - q = 0
  BY <1>1, <1>2, <1>3, <1>4, <1>5, SizeAssumption DEF Slots
<1>7. QED
  BY <1>1, <1>2, <1>5, <1>6, SizeAssumption DEF Slots

(* Beyond the end of the ring, they are in the next lap, in its first      *)
(* slots.                                                                  *)
LEMMA SlotBehind ==
  ASSUME NEW i \in Nat, NEW k \in Nat, k < N_, N_ <= Slot(i) + k
  PROVE  N_ <= i + k /\ Slot(i + k) + 1 <= k
<1>1. PICK q \in Nat : i = N_ * q + Slot(i)
  BY Division
<1>2. PICK r \in Nat : i + k = N_ * r + Slot(i + k)
  BY Division
<1>3. N_ * r - N_ * q = N_ * (r - q)
  BY SizeAssumption
<1>4. r - q >= 1 => N_ * (r - q) >= N_
  BY SizeAssumption, Multiples
<1>5. r - q <= 0 => N_ * (r - q) <= 0
  BY SizeAssumption, Multiples
<1>6. N_ * q \in Nat
  BY SizeAssumption
<1>7. /\ Slot(i) \in Slots /\ Slot(i + k) \in Slots
      /\ N_ * r \in Int /\ N_ * (r - q) \in Int
  BY SlotInRing, SizeAssumption
<1>8. r - q >= 1
  BY <1>1, <1>2, <1>3, <1>5, <1>6, <1>7, SizeAssumption DEF Slots
<1>9. QED
  BY <1>1, <1>2, <1>3, <1>4, <1>6, <1>7, <1>8, SizeAssumption DEF Slots

LEMMA ItemsPerBatch ==
  /\ items_per_batch_ \in Nat
  /\ BATCH_NUM > 1 => items_per_batch_ < N_
BY SizeAssumption, BatchAssumption DEF items_per_batch_

-----------------------------------------------------------------------------
(* What the steps do to the sequences.                                     *)

Store == [idx : Nat, known : Nat]

(* A load forgets the stores before the one it got.                        *)
LEMMA LoadedStores ==
  ASSUME Types, NEW n \in 1 .. Len(readStores), EmplaceLoad(n)
  PROVE  /\ readStores' \in Seq(Store) /\ Len(readStores') = Len(readStores) - n + 1
         /\ \A m \in 1 .. Len(readStores') : readStores'[m] = readStores[n + m - 1]
         /\ readStores[n] \in Store
         /\ last_read_idx_' = readStores[n].idx /\ last_read_idx_' = readStores'[1].idx
<1>1. /\ readStores \in Seq(Store) /\ Len(readStores) \in Nat
      /\ \A m \in n .. Len(readStores) : readStores[m] \in Store
  <2>1. readStores \in Seq(Store)
    BY DEF Types, Store
  <2>2. Len(readStores) \in Nat
    BY <2>1, LenProperties
  <2>3. QED
    BY <2>1, <2>2, ElementOfSeq
<1>2. readStores' = SubSeq(readStores, n, Len(readStores)) /\ last_read_idx_' = readStores[n].idx
  BY DEF EmplaceLoad
<1>3. QED
  BY <1>1, <1>2, SubSeqProperties

(* A skip adds a store when it is at the checkpoint.                       *)
LEMMA SkippedStores ==
  ASSUME Types, Skip, AtCheckpoint
  PROVE  /\ readStores' \in Seq(Store) /\ Len(readStores') = Len(readStores) + 1
         /\ \A m \in 1 .. Len(readStores) : readStores'[m] = readStores[m]
         /\ readStores'[Len(readStores) + 1] =
              [idx |-> local_read_idx_ + 1, known |-> local_read_idx_ + 1 + Len(batch)]
<1> DEFINE store == [idx |-> local_read_idx_ + 1, known |-> local_read_idx_ + 1 + Len(batch)]
<1>1. readStores \in Seq(Store) /\ store \in Store
  BY MsgNumAssumption DEF Types, Store
<1>2. readStores' = Append(readStores, store)
  BY DEF Skip
<1> HIDE DEF store
<1>3. /\ readStores' \in Seq(Store) /\ Len(readStores') = Len(readStores) + 1
      /\ \A m \in 1 .. Len(readStores) : readStores'[m] = readStores[m]
      /\ readStores'[Len(readStores) + 1] = store
  BY <1>1, <1>2, AppendProperties
<1>4. QED
  BY <1>3 DEF store

(* What peek copies, and what is left when the first message is taken.     *)
LEMMA CopiedCells ==
  ASSUME Types, NEW copied, copied = [k \in 1 .. BatchBuf |-> Cell(Slot(local_read_idx_), k - 1)]
  PROVE  /\ \A k \in 1 .. BatchBuf : copied[k] \in Nat
         /\ Rest(copied) \in Seq(Nat)
         /\ Len(Rest(copied)) = IF BatchBuf = 0 THEN 0 ELSE BatchBuf - 1
         /\ \A j \in 1 .. Len(Rest(copied)) : Rest(copied)[j] = copied[j + 1]
<1>1. Slot(local_read_idx_) \in Slots /\ data_ \in [Slots -> Nat]
  BY SlotInRing, MsgNumAssumption DEF Types
<1>2. ASSUME NEW k \in 1 .. BatchBuf PROVE copied[k] \in Nat
  <2>1. Cell(Slot(local_read_idx_), k - 1) \in Nat
    <3> DEFINE s == Slot(local_read_idx_)
    <3>1. s \in Int /\ 0 <= s /\ k - 1 \in Int /\ 0 <= k - 1
      BY <1>1, BatchBufAssumption, SizeAssumption DEF Slots
    <3>2. CASE s + (k - 1) < N_
      <4>1. s + (k - 1) \in Slots
        BY <3>1, <3>2, SizeAssumption DEF Slots
      <4>2. data_[s + (k - 1)] \in Nat
        BY <1>1, <4>1
      <4>3. QED
        BY <3>2, <4>2 DEF Cell
    <3>3. CASE ~ (s + (k - 1) < N_)
      BY <3>3 DEF Cell, Garbage
    <3>4. QED
      BY <3>2, <3>3
  <2>2. QED
    BY <2>1
<1>3. \A k \in 2 .. BatchBuf : copied[k] \in Nat
  BY <1>2
<1>4. /\ SubSeq(copied, 2, BatchBuf) \in Seq(Nat)
      /\ Len(SubSeq(copied, 2, BatchBuf)) = IF 2 <= BatchBuf THEN BatchBuf - 1 ELSE 0
      /\ \A j \in 1 .. BatchBuf - 1 : SubSeq(copied, 2, BatchBuf)[j] = copied[j + 1]
  <2>1. /\ SubSeq(copied, 2, BatchBuf) \in Seq(Nat)
        /\ Len(SubSeq(copied, 2, BatchBuf)) = IF 2 <= BatchBuf THEN BatchBuf - 2 + 1 ELSE 0
        /\ \A j \in 1 .. BatchBuf - 2 + 1 : SubSeq(copied, 2, BatchBuf)[j] = copied[2 + j - 1]
    <3> DEFINE two == 2
               Values == Nat
    <3>1. two \in Int /\ BatchBuf \in Int /\ \A k \in two .. BatchBuf : copied[k] \in Values
      BY <1>3, BatchBufAssumption
    <3> HIDE DEF two, Values
    <3>2. /\ SubSeq(copied, two, BatchBuf) \in Seq(Values)
          /\ Len(SubSeq(copied, two, BatchBuf)) = IF two <= BatchBuf THEN BatchBuf - two + 1 ELSE 0
          /\ \A j \in 1 .. BatchBuf - two + 1 : SubSeq(copied, two, BatchBuf)[j] = copied[two + j - 1]
      BY <3>1, SubSeqProperties
    <3>3. QED
      BY <3>2, ZenonT(30) DEF two, Values
  <2>2. BatchBuf - 2 + 1 = BatchBuf - 1 /\ \A j \in 1 .. BatchBuf - 1 : 2 + j - 1 = j + 1
    BY BatchBufAssumption
  <2>3. QED
    BY <2>1, <2>2, Zenon
<1>5. QED
  BY <1>2, <1>4, BatchBufAssumption DEF Rest

(* Processing a message appends one value.                                 *)
LEMMA Handed ==
  ASSUME Types, NEW value \in Nat, NEW rest, Consume(value, rest)
  PROVE  /\ received' \in Seq(Nat) /\ Len(received') = Len(received) + 1
         /\ \A k \in 1 .. Len(received) : received'[k] = received[k]
         /\ received'[Len(received) + 1] = value
BY AppendProperties DEF Types, Consume

(* The next message of the buffer is taken off its front.                  *)
LEMMA BatchedRest ==
  ASSUME Types, batch # << >>
  PROVE  /\ Head(batch) = batch[1] /\ Head(batch) \in Nat /\ Tail(batch) \in Seq(Nat)
         /\ Len(batch) > 0 /\ Len(Tail(batch)) = Len(batch) - 1
         /\ \A j \in 1 .. Len(Tail(batch)) : Tail(batch)[j] = batch[j + 1]
<1>1. batch \in Seq(Nat)
  BY DEF Types
<1>2. QED
  BY <1>1, HeadTailProperties, EmptySeq

-----------------------------------------------------------------------------

LEMMA TypesHold == Spec => []Types
<1>1. Init => Types
  <2> SUFFICES ASSUME Init PROVE Types
    OBVIOUS
  <2>1. Len(<<[idx |-> 0, known |-> 0]>>) = 1 /\ readStores \in Seq(Store)
    BY DEF Init, Store
  <2>2. batch \in Seq(Nat) /\ received \in Seq(Nat)
    BY DEF Init
  <2>3. QED
    BY <2>1, <2>2, SizeAssumption, MsgNumAssumption, ItemsPerBatch
       DEF Init, Types, Slots, Store
<1>2. ASSUME Types, [Next]_vars PROVE Types'
  <2> USE MsgNumAssumption DEF Store
  <2>t. /\ write_idx_ \in Nat /\ local_read_idx_ \in Nat /\ last_write_idx_ \in Nat
        /\ c_known \in Nat /\ p_known \in Nat
    BY <1>2 DEF Types
  <2>1. ASSUME NEW n \in 1 .. Len(readStores), EmplaceLoad(n) PROVE Types'
    <3>1. /\ readStores' \in Seq(Store) /\ Len(readStores') > 0
          /\ last_read_idx_' \in Nat /\ last_read_idx_' = readStores'[1].idx
          /\ readStores[n].known \in Nat
      <4>1. /\ readStores' \in Seq(Store) /\ Len(readStores') = Len(readStores) - n + 1
            /\ readStores[n] \in Store
            /\ last_read_idx_' = readStores[n].idx /\ last_read_idx_' = readStores'[1].idx
        BY <1>2, <2>1, LoadedStores
      <4>2. Len(readStores) \in Nat
        BY <1>2, LenProperties DEF Types
      <4>3. readStores[n].idx \in Nat /\ readStores[n].known \in Nat
        BY <4>1
      <4>4. QED
        BY <4>1, <4>2, <4>3
    <3>2. p_known' \in Nat
      BY <2>1, <2>t, <3>1 DEF EmplaceLoad, Larger
    <3>3. QED
      BY <1>2, <2>1, <3>1, <3>2 DEF Types, EmplaceLoad, consVars
  <2>2. CASE EmplaceWrite
    <3>1. data_' \in [Slots -> Nat]
      <4>1. data_ \in [Slots -> Nat] /\ Message(write_idx_) \in Nat
        BY <1>2, <2>t DEF Types, Message
      <4>2. QED
        BY <2>2, <4>1 DEF EmplaceWrite
    <3>2. QED
      BY <1>2, <2>2, <3>1 DEF Types, EmplaceWrite, consVars
  <2>3. CASE EmplacePublish
    BY <1>2, <2>3, SMTT(30) DEF Types, EmplacePublish, Loop, consVars
  <2>4. ASSUME NEW v \in last_write_idx_ .. write_idx_, PeekLoad(v) PROVE Types'
    <3>1. last_write_idx_' \in Nat /\ c_known' \in Nat
      BY <2>4, <2>t DEF PeekLoad, Larger, Published
    <3>2. QED
      BY <1>2, <2>4, <3>1 DEF Types, PeekLoad, memVars, prodVars
  <2>5. ASSUME NEW value \in Nat, NEW rest \in Seq(Nat), Consume(value, rest) PROVE Types'
    <3>1. received' \in Seq(Nat) /\ batch' \in Seq(Nat)
      BY <1>2, <2>5, Handed DEF Consume
    <3>2. QED
      BY <1>2, <2>5, <3>1 DEF Types, Consume, memVars, prodVars
  <2>6. CASE ConsumeBatched
    BY <1>2, <2>5, <2>6, BatchedRest DEF ConsumeBatched
  <2>7. CASE ConsumeCopy
    <3> DEFINE copied == [k \in 1 .. BatchBuf |-> Cell(Slot(local_read_idx_), k - 1)]
               first == IF BatchBuf = 0 THEN Garbage ELSE copied[1]
    <3>1. /\ \A k \in 1 .. BatchBuf : copied[k] \in Nat
          /\ Rest(copied) \in Seq(Nat)
      BY <1>2, CopiedCells
    <3>2. Consume(first, Rest(copied))
      BY <2>7 DEF ConsumeCopy
    <3> HIDE DEF copied
    <3>3. first \in Nat
      BY <3>1, BatchBufAssumption DEF Garbage
    <3>4. QED
      BY <2>5, <3>1, <3>2, <3>3
  <2>8. CASE ConsumeDirect
    <3>1. data_[Slot(local_read_idx_)] \in Nat /\ << >> \in Seq(Nat)
      BY <1>2, <2>t, SlotInRing DEF Types
    <3>2. QED
      BY <2>5, <2>8, <3>1 DEF ConsumeDirect
  <2>9. CASE Skip
    <3>1. CASE AtCheckpoint
      <4>1. /\ readStores' \in Seq(Store) /\ Len(readStores') > 0
            /\ readStores'[1] = readStores[1]
        <5>1. /\ readStores' \in Seq(Store) /\ Len(readStores') = Len(readStores) + 1
              /\ \A m \in 1 .. Len(readStores) : readStores'[m] = readStores[m]
          BY <1>2, <2>9, <3>1, SkippedStores
        <5>2. Len(readStores) \in Nat /\ Len(readStores) > 0
          BY <1>2, LenProperties DEF Types
        <5>3. QED
          BY <5>1, <5>2
      <4>2. next_checkpoint_idx_' \in Nat
        BY <1>2, <2>9, <3>1, ItemsPerBatch DEF Types, Skip
      <4>3. QED
        BY <1>2, <2>9, <4>1, <4>2 DEF Types, Skip, Loop, prodVars
    <3>2. CASE ~ AtCheckpoint
      BY <1>2, <2>9, <3>2 DEF Types, Skip, Loop, prodVars
    <3>3. QED
      BY <3>1, <3>2
  <2>10. CASE UNCHANGED vars
    BY <1>2, <2>10 DEF Types, vars, memVars, prodVars, consVars
  <2>11. QED
    BY <1>2, <2>1, <2>2, <2>3, <2>4, <2>6, <2>7, <2>8, <2>9, <2>10
       DEF Next, Producer, ProducerStep, Consumer, ConsumerStep
<1>3. QED
  BY <1>1, <1>2, PTL DEF Spec

-----------------------------------------------------------------------------
(* The window between the messages taken and the messages published.       *)

(* What the arithmetic needs of the types.                                 *)
Numbers ==
  /\ write_idx_ \in Nat /\ local_read_idx_ \in Nat /\ last_read_idx_ \in Nat
  /\ last_write_idx_ \in Nat /\ p_known \in Nat /\ c_known \in Nat
  /\ next_checkpoint_idx_ \in Nat
  /\ Len(readStores) \in Nat /\ Len(readStores) > 0
  /\ \A n \in 1 .. Len(readStores) :
       readStores[n].idx \in Nat /\ readStores[n].known \in Nat
  /\ Len(batch) \in Nat /\ Len(received) \in Nat /\ Taken \in Nat
  /\ last_read_idx_ = readStores[1].idx

LEMMA NumbersFromTypes == Types => Numbers
<1> SUFFICES ASSUME Types PROVE Numbers
  OBVIOUS
<1>1. /\ readStores \in Seq(Store) /\ Len(readStores) \in Nat
      /\ Len(batch) \in Nat /\ Len(received) \in Nat
  BY LenProperties DEF Types, Store
<1>2. \A n \in 1 .. Len(readStores) : readStores[n] \in Store
  BY <1>1, ElementOfSeq
<1>3. Len(readStores) > 0 /\ last_read_idx_ = readStores[1].idx
  BY DEF Types
<1>4. \A n \in 1 .. Len(readStores) : readStores[n].idx \in Nat /\ readStores[n].known \in Nat
  BY <1>2 DEF Store
<1>5. Taken \in Nat
  BY <1>1 DEF Taken
<1>6. /\ write_idx_ \in Nat /\ local_read_idx_ \in Nat /\ last_read_idx_ \in Nat
      /\ last_write_idx_ \in Nat /\ p_known \in Nat /\ c_known \in Nat
      /\ next_checkpoint_idx_ \in Nat
  BY MsgNumAssumption DEF Types
<1>7. QED
  BY ONLY <1>1, <1>3, <1>4, <1>5, <1>6 DEF Numbers

(* Each way in which peek returns a message is a Consume that takes no     *)
(* message back, and none that the consumer has not seen published.        *)
LEMMA Consumption ==
  ASSUME Types, Position, Window, ConsumeBatched \/ ConsumeCopy \/ ConsumeDirect
  PROVE  \E value \in Nat, rest \in Seq(Nat) :
           /\ Consume(value, rest)
           /\ Taken <= Len(received) + 1 + Len(rest)
           /\ Len(received) + 1 + Len(rest) <= last_write_idx_
<1>n. Numbers
  BY NumbersFromTypes
<1> USE <1>n DEF Numbers
<1>1. CASE ConsumeBatched
  <2>1. /\ Head(batch) \in Nat /\ Tail(batch) \in Seq(Nat)
        /\ Len(Tail(batch)) = Len(batch) - 1 /\ Consume(Head(batch), Tail(batch))
    BY <1>1, BatchedRest DEF ConsumeBatched
  <2>2. Taken = Len(received) + 1 + Len(Tail(batch)) /\ Taken <= last_write_idx_
    BY <2>1 DEF Taken, Window
  <2>3. /\ Taken <= Len(received) + 1 + Len(Tail(batch))
        /\ Len(received) + 1 + Len(Tail(batch)) <= last_write_idx_
    BY <2>1, <2>2
  <2>4. QED
    BY <2>1, <2>3
<1>2. CASE ConsumeCopy
  <2> DEFINE copied == [k \in 1 .. BatchBuf |-> Cell(Slot(local_read_idx_), k - 1)]
             first == IF BatchBuf = 0 THEN Garbage ELSE copied[1]
  <2>1. /\ \A k \in 1 .. BatchBuf : copied[k] \in Nat
        /\ Rest(copied) \in Seq(Nat)
        /\ Len(Rest(copied)) = IF BatchBuf = 0 THEN 0 ELSE BatchBuf - 1
    BY CopiedCells
  <2>2. /\ Consume(first, Rest(copied)) /\ batch = << >>
        /\ items_ready_num > 0 /\ items_ready_num >= BatchBuf
    BY <1>2 DEF ConsumeCopy
  <2> HIDE DEF copied
  <2>3. first \in Nat
    BY <2>1, BatchBufAssumption DEF Garbage
  <2>4. Len(received) = local_read_idx_ /\ Taken = Len(received)
    BY <2>2 DEF Position, Consume, Taken
  <2>5. /\ Taken <= Len(received) + 1 + Len(Rest(copied))
        /\ Len(received) + 1 + Len(Rest(copied)) <= last_write_idx_
    BY <2>1, <2>2, <2>4, BatchBufAssumption DEF items_ready_num
  <2>6. QED
    BY <2>1, <2>2, <2>3, <2>5
<1>3. CASE ConsumeDirect
  <2>1. /\ Consume(data_[Slot(local_read_idx_)], << >>) /\ batch = << >>
        /\ items_ready_num > 0 /\ Len(<< >>) = 0 /\ << >> \in Seq(Nat)
    BY <1>3 DEF ConsumeDirect
  <2>2. data_[Slot(local_read_idx_)] \in Nat
    BY SlotInRing DEF Types
  <2>3. Len(received) = local_read_idx_ /\ Taken = Len(received)
    BY <2>1 DEF Position, Consume, Taken
  <2>4. /\ Taken <= Len(received) + 1 + Len(<< >>)
        /\ Len(received) + 1 + Len(<< >>) <= last_write_idx_
    BY <2>1, <2>3 DEF items_ready_num
  <2>5. QED
    BY <2>1, <2>2, <2>4
<1>4. QED
  BY <1>1, <1>2, <1>3

(* What the producer may write, it may write after a newer load.           *)
LEMMA MoreRoom ==
  ASSUME NEW w \in Nat, NEW l \in Nat, NEW m \in Nat, NEW n \in Nat, l <= m
  PROVE  (w <= l + n => w <= m + n) /\ (w < l + n => w < m + n)
OBVIOUS

(* The window is kept however old the counters are that the threads load.  *)
LEMMA WindowStep ==
  ASSUME Types, Types', Position, Stores, Window, [Next]_vars
  PROVE  Position' /\ Stores' /\ Window'
<1>n. Numbers /\ N_ \in Nat
  BY NumbersFromTypes, SizeAssumption
<1> USE <1>n DEF Numbers
<1>1. ASSUME NEW n \in 1 .. Len(readStores), EmplaceLoad(n)
      PROVE  Position' /\ Stores' /\ Window'
  <2>1. /\ Len(readStores') = Len(readStores) - n + 1
        /\ \A m \in 1 .. Len(readStores') : readStores'[m] = readStores[n + m - 1]
        /\ last_read_idx_' = readStores[n].idx
    BY <1>1, LoadedStores
  <2>2. /\ p_known' = Larger(p_known, readStores[n].known)
        /\ UNCHANGED <<data_, write_idx_, p_pc, consVars>>
    BY <1>1 DEF EmplaceLoad
  <2>3. Position' /\ Taken' = Taken
    BY <2>2 DEF Position, Taken, consVars
  <2>4. Stores'
    <3>1. \A m \in 1 .. Len(readStores') : n + m - 1 \in 1 .. Len(readStores)
      BY <2>1, SMTT(30)
    <3>2. local_read_idx_' = local_read_idx_
      BY <2>2 DEF consVars
    <3>3. ASSUME NEW m \in 1 .. Len(readStores')
          PROVE  /\ readStores'[m].idx <= local_read_idx_'
                 /\ readStores'[m].idx <= readStores'[m].known
                 /\ readStores'[m].known <= Taken'
      BY <2>1, <2>3, <3>1, <3>2 DEF Stores
    <3>4. ASSUME NEW l \in 1 .. Len(readStores'), NEW m \in 1 .. Len(readStores'), l <= m
          PROVE  readStores'[l].idx <= readStores'[m].idx
      <4>1. n + l - 1 \in 1 .. Len(readStores) /\ n + m - 1 \in 1 .. Len(readStores)
        BY <3>1
      <4>2. n + l - 1 <= n + m - 1
        BY <3>4
      <4>3. readStores[n + l - 1].idx <= readStores[n + m - 1].idx
        BY <4>1, <4>2 DEF Stores
      <4>4. QED
        BY <2>1, <4>3
    <3>5. QED
      BY <3>3, <3>4 DEF Stores
  <2>5. Window'
    <3>1. last_read_idx_ <= last_read_idx_' /\ last_read_idx_' <= readStores[n].known
      <4>1. 1 \in 1 .. Len(readStores) /\ 1 <= n
        OBVIOUS
      <4>2. readStores[1].idx <= readStores[n].idx /\ readStores[n].idx <= readStores[n].known
        BY <4>1 DEF Stores
      <4>3. QED
        BY <2>1, <4>2
    <3>2. last_read_idx_' \in Nat /\ readStores[n].known \in Nat
      BY <2>1
    <3>3. last_read_idx_' <= p_known'
      BY <2>2, <3>1, <3>2 DEF Larger
    <3>4. UNCHANGED <<write_idx_, p_pc, last_write_idx_, c_known>>
      BY <2>2 DEF consVars
    <3>5. /\ write_idx_' <= last_read_idx_' + N_
          /\ p_pc' = "publish" => write_idx_' < last_read_idx_' + N_
      <4>1. write_idx_' = write_idx_ /\ p_pc' = p_pc
        BY <3>4
      <4>2. write_idx_ <= last_read_idx_ + N_ /\ (p_pc = "publish" => write_idx_ < last_read_idx_ + N_)
        BY DEF Window
      <4>3. write_idx_ \in Nat /\ last_read_idx_ \in Nat /\ N_ \in Nat /\ last_read_idx_ <= last_read_idx_'
        BY <3>1
      <4> HIDE <1>n DEF Numbers
      <4>4. QED
        BY <3>2, <4>1, <4>2, <4>3, MoreRoom
    <3>6. last_write_idx_' <= write_idx_' /\ last_write_idx_' <= c_known' /\ Taken' <= last_write_idx_'
      BY <2>3, <3>4 DEF Window
    <3> HIDE DEF Stores, Taken
    <3>7. QED
      BY <3>3, <3>5, <3>6 DEF Window
  <2>6. QED
    BY <2>3, <2>4, <2>5
<1>2. CASE EmplaceWrite
  BY <1>2 DEF Position, Stores, Window, Taken, EmplaceWrite, HasRoom, consVars
<1>3. CASE EmplacePublish
  <2>1. /\ p_pc = "publish" /\ p_pc' # "publish" /\ write_idx_' = write_idx_ + 1
        /\ UNCHANGED <<readStores, last_read_idx_, p_known, consVars>>
    BY <1>3 DEF EmplacePublish, Loop
  <2>2. Position' /\ Stores' /\ Taken' = Taken
    BY <2>1 DEF Position, Stores, Taken, consVars
  <2>3. Window'
    <3>1. /\ last_read_idx_ <= p_known /\ write_idx_ < last_read_idx_ + N_
          /\ last_write_idx_ <= write_idx_ /\ last_write_idx_ <= c_known
          /\ Taken <= last_write_idx_
      BY <2>1 DEF Window
    <3>2. UNCHANGED <<last_write_idx_, c_known>>
      BY <2>1 DEF consVars
    <3>3. write_idx_' \in Nat /\ write_idx_ \in Nat /\ last_read_idx_ + N_ \in Nat /\ last_write_idx_ \in Nat
      BY <2>1
    <3> HIDE <1>n DEF Numbers
    <3>4. /\ write_idx_' <= last_read_idx_ + N_ /\ last_write_idx_ <= write_idx_'
      BY <2>1, <3>1, <3>3
    <3>5. QED
      BY <2>1, <2>2, <3>1, <3>2, <3>4 DEF Window
  <2>4. QED
    BY <2>2, <2>3
<1>4. ASSUME NEW v \in last_write_idx_ .. write_idx_, PeekLoad(v)
      PROVE  Position' /\ Stores' /\ Window'
  <2>1. /\ last_write_idx_' = v /\ last_write_idx_ <= v /\ v <= write_idx_
        /\ c_known' \in {c_known, v} /\ v <= c_known' /\ v \in Nat
        /\ UNCHANGED <<memVars, prodVars, c_pc, local_read_idx_, batch, received>>
    BY <1>4 DEF PeekLoad, Larger, Published
  <2>2. Position' /\ Taken' = Taken
    BY <2>1 DEF Position, Taken
  <2>3. Stores'
    BY <2>1, <2>2 DEF Stores, memVars
  <2>4. Window'
    <3>1. Taken <= v
      BY <2>1 DEF Window
    <3>2. QED
      BY <2>1, <2>2, <3>1 DEF Window, memVars, prodVars
  <2>5. QED
    BY <2>2, <2>3, <2>4
<1>5. ASSUME ConsumeBatched \/ ConsumeCopy \/ ConsumeDirect
      PROVE  Position' /\ Stores' /\ Window'
  <2>1. PICK value \in Nat, rest \in Seq(Nat) :
          /\ Consume(value, rest)
          /\ Taken <= Len(received) + 1 + Len(rest)
          /\ Len(received) + 1 + Len(rest) <= last_write_idx_
    BY <1>5, Consumption
  <2>2. Len(received') = Len(received) + 1 /\ batch' = rest
    BY <2>1, Handed DEF Consume
  <2>3. /\ c_pc = "wait" /\ c_pc' = "skip"
        /\ UNCHANGED <<memVars, prodVars, local_read_idx_, last_write_idx_, c_known>>
    BY <2>1 DEF Consume
  <2>4. Taken' = Len(received) + 1 + Len(rest) /\ Taken' \in Nat
    BY <2>2, LenProperties DEF Taken
  <2>5. Position'
    BY <2>2, <2>3 DEF Position
  <2>6. Taken <= Taken' /\ Taken' <= last_write_idx_
    BY <2>1, <2>4
  <2>7. Stores'
    BY <2>3, <2>4, <2>6 DEF Stores, memVars
  <2>8. Window'
    BY <2>3, <2>6 DEF Window, memVars, prodVars
  <2>9. QED
    BY <2>5, <2>7, <2>8
<1>6. CASE Skip
  <2>1. /\ local_read_idx_' = local_read_idx_ + 1 /\ c_pc = "skip" /\ c_pc' # "skip"
        /\ UNCHANGED <<data_, write_idx_, prodVars, last_write_idx_, batch, c_known, received>>
    BY <1>6 DEF Skip, Loop
  <2>2. Position' /\ Taken' = Taken /\ local_read_idx_ + 1 + Len(batch) = Taken
    BY <2>1 DEF Position, Taken
  <2>3. Window'
    BY <2>1, <2>2 DEF Window, prodVars
  <2>4. Stores'
    <3>1. CASE AtCheckpoint
      <4>1. /\ Len(readStores') = Len(readStores) + 1
            /\ \A m \in 1 .. Len(readStores) : readStores'[m] = readStores[m]
            /\ readStores'[Len(readStores) + 1].idx = local_read_idx_ + 1
            /\ readStores'[Len(readStores) + 1].known = Taken
        BY <1>6, <2>2, <3>1, SkippedStores
      <4>2. \A n \in 1 .. Len(readStores') :
              /\ readStores'[n].idx <= local_read_idx_'
              /\ readStores'[n].idx <= readStores'[n].known
              /\ readStores'[n].known <= Taken'
        <5>1. TAKE n \in 1 .. Len(readStores')
        <5>2. CASE n = Len(readStores) + 1
          BY <2>1, <2>2, <4>1, <5>2
        <5>3. CASE n \in 1 .. Len(readStores)
          <6>1. readStores'[n] = readStores[n]
            BY <4>1, <5>3
          <6>2. /\ readStores[n].idx <= local_read_idx_ /\ readStores[n].known <= Taken
                /\ readStores[n].idx <= readStores[n].known
                /\ readStores[n].idx \in Nat /\ readStores[n].known \in Nat
            BY <5>3 DEF Stores
          <6>3. readStores[n].idx <= local_read_idx_'
            BY <2>1, <6>2
          <6>4. QED
            BY <2>2, <6>1, <6>2, <6>3
        <5>4. n = Len(readStores) + 1 \/ n \in 1 .. Len(readStores)
          BY <4>1
        <5>5. QED
          BY <5>2, <5>3, <5>4
      <4>3. \A m, n \in 1 .. Len(readStores') : m <= n => readStores'[m].idx <= readStores'[n].idx
        <5>1. SUFFICES ASSUME NEW m \in 1 .. Len(readStores'), NEW n \in 1 .. Len(readStores'), m <= n
                       PROVE  readStores'[m].idx <= readStores'[n].idx
          OBVIOUS
        <5>2. CASE n = Len(readStores) + 1
          BY <2>1, <4>1, <4>2, <5>2
        <5>3. CASE n \in 1 .. Len(readStores)
          <6>1. m \in 1 .. Len(readStores)
            BY <5>1, <5>3
          <6>2. readStores[m].idx <= readStores[n].idx
            BY <5>1, <5>3, <6>1 DEF Stores
          <6>3. QED
            BY <4>1, <5>3, <6>1, <6>2
        <5>4. QED
          BY <4>1, <5>2, <5>3
      <4>4. QED
        BY <4>2, <4>3 DEF Stores
    <3>2. CASE ~ AtCheckpoint
      BY <1>6, <2>1, <2>2, <3>2, SMTT(30) DEF Stores, Skip
    <3>3. QED
      BY <3>1, <3>2
  <2>5. QED
    BY <2>2, <2>3, <2>4
<1>7. CASE UNCHANGED vars
  BY <1>7 DEF Position, Stores, Window, Taken, vars, memVars, prodVars, consVars
<1>8. QED
  BY <1>1, <1>2, <1>3, <1>4, <1>5, <1>6, <1>7
     DEF Next, Producer, ProducerStep, Consumer, ConsumerStep

LEMMA WindowHolds == Spec => [](Position /\ Stores /\ Window)
<1>1. Init => Position /\ Stores /\ Window
  <2> SUFFICES ASSUME Init PROVE Position /\ Stores /\ Window
    OBVIOUS
  <2>1. /\ Len(readStores) = 1 /\ readStores[1].idx = 0 /\ readStores[1].known = 0
        /\ Len(received) = 0 /\ Len(batch) = 0
    BY DEF Init
  <2>2. QED
    BY <2>1, SizeAssumption DEF Init, Position, Stores, Window, Taken
<1>2. Types /\ Types' /\ (Position /\ Stores /\ Window) /\ [Next]_vars
        => (Position /\ Stores /\ Window)'
  BY WindowStep
<1>3. QED
  BY <1>1, <1>2, TypesHold, PTL DEF Spec

LEMMA BufferRoomStep ==
  ASSUME Types, BufferRoom, [Next]_vars
  PROVE  BufferRoom'
<1>1. ASSUME batch' = batch PROVE BufferRoom'
  BY <1>1 DEF BufferRoom
<1>2. CASE ConsumeBatched
  <2>1. Len(Tail(batch)) = Len(batch) - 1 /\ batch' = Tail(batch)
    BY <1>2, BatchedRest DEF ConsumeBatched, Consume
  <2>2. Len(batch) \in Nat /\ Len(batch) < BatchBuf
    BY <1>2, LenProperties DEF Types, BufferRoom, ConsumeBatched
  <2>3. QED
    BY <2>1, <2>2, BatchBufAssumption DEF BufferRoom
<1>3. CASE ConsumeCopy
  <2> DEFINE copied == [k \in 1 .. BatchBuf |-> Cell(Slot(local_read_idx_), k - 1)]
  <2>1. /\ Rest(copied) \in Seq(Nat)
        /\ Len(Rest(copied)) = IF BatchBuf = 0 THEN 0 ELSE BatchBuf - 1
    BY CopiedCells
  <2>2. batch' = Rest(copied)
    BY <1>3 DEF ConsumeCopy, Consume
  <2> HIDE DEF copied
  <2>3. BatchBuf = 0 => Rest(copied) = << >>
    BY <2>1, EmptySeq
  <2>4. QED
    BY <2>1, <2>2, <2>3, BatchBufAssumption DEF BufferRoom
<1>4. CASE ConsumeDirect
  BY <1>4 DEF ConsumeDirect, Consume, BufferRoom
<1>5. ASSUME NEW n \in 1 .. Len(readStores), EmplaceLoad(n) PROVE BufferRoom'
  BY <1>1, <1>5 DEF EmplaceLoad, consVars
<1>6. ASSUME NEW v \in last_write_idx_ .. write_idx_, PeekLoad(v) PROVE BufferRoom'
  BY <1>1, <1>6 DEF PeekLoad
<1>7. CASE EmplaceWrite \/ EmplacePublish \/ Skip \/ UNCHANGED vars
  BY <1>1, <1>7 DEF EmplaceWrite, EmplacePublish, Skip, vars, consVars
<1>8. QED
  BY <1>2, <1>3, <1>4, <1>5, <1>6, <1>7
     DEF Next, Producer, ProducerStep, Consumer, ConsumerStep

(* Types: the counters and the two stale copies of them stay within the    *)
(* messages there are, and the buffer within its size, whatever the        *)
(* constants.                                                              *)
THEOREM TypeCorrect == Spec => []TypeOK
<1>1. Init => BufferRoom
  BY DEF Init, BufferRoom
<1>2. Types /\ BufferRoom /\ [Next]_vars => BufferRoom'
  BY BufferRoomStep
<1>3. Types /\ Stores /\ Window /\ BufferRoom => TypeOK
  <2> SUFFICES ASSUME Types, Stores, Window, BufferRoom PROVE TypeOK
    OBVIOUS
  <2>1. Numbers
    BY NumbersFromTypes
  <2>2. write_idx_ <= MsgNum /\ local_read_idx_ <= MsgNum
    BY MsgNumAssumption DEF Types
  <2>3. last_write_idx_ <= MsgNum
    BY <2>1, <2>2, MsgNumAssumption DEF Numbers, Window
  <2>4. last_read_idx_ <= local_read_idx_
    BY <2>1 DEF Numbers, Stores
  <2>5. last_read_idx_ <= MsgNum
    BY <2>1, <2>2, <2>4, MsgNumAssumption DEF Numbers
  <2>6. QED
    BY <2>3, <2>5 DEF TypeOK, BufferRoom
<1>4. QED
  BY <1>1, <1>2, <1>3, TypesHold, WindowHolds, PTL DEF Spec

(* The two counters order every access to a slot after the other thread's  *)
(* last access to it, for every ring, batch and buffer.                    *)
THEOREM NoDataRaceHolds == Spec => []NoDataRace
<1>1. Types /\ Window => NoDataRace
  BY NumbersFromTypes, SizeAssumption DEF Window, NoDataRace, HasRoom, Numbers
<1>2. QED
  BY <1>1, TypesHold, WindowHolds, PTL

-----------------------------------------------------------------------------
(* What the cells of the window hold.                                      *)

(* The consumer's three ways to return a message read the ring or the      *)
(* buffer where the messages are, or else cells behind the ring.           *)
LEMMA ConsumedContents ==
  ASSUME Types, Position, Stores, Window, Contents,
         ConsumeBatched \/ ConsumeCopy \/ ConsumeDirect
  PROVE  \E value \in Nat, rest \in Seq(Nat) :
           /\ Consume(value, rest)
           /\ RightOrLost(value, Len(received) + 1)
           /\ \A j \in 1 .. Len(rest) : RightOrLost(rest[j], Len(received) + 1 + j)
           /\ CopyInside /\ Exact =>
                /\ value = Message(Len(received))
                /\ \A j \in 1 .. Len(rest) : rest[j] = Message(Len(received) + j)
<1>n. Numbers /\ N_ \in Nat /\ BatchBuf \in Nat
  BY NumbersFromTypes, SizeAssumption, BatchBufAssumption
<1> USE <1>n DEF Numbers
<1>1. CASE ConsumeBatched
  <2>1. /\ Head(batch) = batch[1] /\ Head(batch) \in Nat /\ Tail(batch) \in Seq(Nat)
        /\ Len(batch) > 0 /\ Len(Tail(batch)) = Len(batch) - 1
        /\ \A j \in 1 .. Len(Tail(batch)) : Tail(batch)[j] = batch[j + 1]
        /\ Consume(Head(batch), Tail(batch))
    BY <1>1, BatchedRest DEF ConsumeBatched
  <2>2. RightOrLost(Head(batch), Len(received) + 1)
    BY <2>1 DEF Contents
  <2>3. ASSUME NEW j \in 1 .. Len(Tail(batch))
        PROVE  /\ RightOrLost(Tail(batch)[j], Len(received) + 1 + j)
               /\ Exact => Tail(batch)[j] = Message(Len(received) + j)
    <3>1. /\ j + 1 \in 1 .. Len(batch) /\ Len(received) + (j + 1) - 1 = Len(received) + j
          /\ Len(received) + (j + 1) = Len(received) + 1 + j
      <4>1. j \in 1 .. Len(batch) - 1
        BY <2>1
      <4>2. QED
        BY <4>1
    <3>2. RightOrLost(batch[j + 1], Len(received) + (j + 1))
      BY <3>1 DEF Contents
    <3>3. Exact => batch[j + 1] = Message(Len(received) + (j + 1) - 1)
      BY <3>1 DEF Exact
    <3>4. QED
      BY <2>1, <3>1, <3>2, <3>3
  <2>4. Exact => Head(batch) = Message(Len(received))
    BY <2>1 DEF Exact, Message
  <2>5. QED
    BY <2>1, <2>2, <2>3, <2>4
<1>2. CASE ConsumeCopy
  <2> DEFINE copied == [k \in 1 .. BatchBuf |-> Cell(Slot(local_read_idx_), k - 1)]
             first == IF BatchBuf = 0 THEN Garbage ELSE copied[1]
  <2>1. /\ \A k \in 1 .. BatchBuf : copied[k] \in Nat
        /\ Rest(copied) \in Seq(Nat)
        /\ Len(Rest(copied)) = IF BatchBuf = 0 THEN 0 ELSE BatchBuf - 1
        /\ \A j \in 1 .. Len(Rest(copied)) : Rest(copied)[j] = copied[j + 1]
    BY CopiedCells
  <2>2. /\ Consume(first, Rest(copied)) /\ batch = << >>
        /\ items_ready_num > 0 /\ items_ready_num >= BatchBuf
    BY <1>2 DEF ConsumeCopy
  <2>3. Len(received) = local_read_idx_ /\ Taken = Len(received)
    BY <2>2 DEF Position, Consume, Taken
  <2>4. /\ local_read_idx_ + BatchBuf <= write_idx_ /\ Taken < write_idx_ /\ BatchBuf <= N_
        /\ CopyInside => BatchBuf # 0 /\ Slot(local_read_idx_) + BatchBuf <= N_
    <3>1. /\ local_read_idx_ + BatchBuf <= last_write_idx_ /\ local_read_idx_ < last_write_idx_
      BY <2>2 DEF items_ready_num
    <3>2. last_write_idx_ <= write_idx_ /\ write_idx_ <= last_read_idx_ + N_
      BY DEF Window
    <3>3. last_read_idx_ <= local_read_idx_
      BY DEF Stores
    <3>4. /\ local_read_idx_ + BatchBuf <= write_idx_ /\ Taken < write_idx_ /\ BatchBuf <= N_
      BY <2>3, <3>1, <3>2, <3>3
    <3>5. QED
      BY <1>2, <3>4 DEF CopyInside
  <2>5. ASSUME NEW k \in 1 .. BatchBuf
        PROVE  /\ RightOrLost(copied[k], Len(received) + k)
               /\ CopyInside => copied[k] = Message(Len(received) + k - 1)
    <3>1. copied[k] = Cell(Slot(local_read_idx_), k - 1)
      OBVIOUS
    <3>2. /\ Slot(local_read_idx_) \in Int /\ Slot(local_read_idx_) < N_
          /\ k - 1 \in Nat
      <4>1. Slot(local_read_idx_) \in Slots
        BY SlotInRing
      <4>2. k - 1 \in Nat
        OBVIOUS
      <4>3. QED
        BY <4>1, <4>2 DEF Slots
    <3>3. CASE Slot(local_read_idx_) + (k - 1) < N_
      <4>1. Slot(local_read_idx_ + (k - 1)) = Slot(local_read_idx_) + (k - 1)
        BY <3>2, <3>3, SlotAfter
      <4>2. local_read_idx_ + (k - 1) \in Taken .. write_idx_ - 1
        BY <2>3, <2>4
      <4>3. data_[Slot(local_read_idx_ + (k - 1))] = Message(local_read_idx_ + (k - 1))
        BY <4>2 DEF Contents, NoOverwrite
      <4>4. Message(local_read_idx_ + (k - 1)) = Message(Len(received) + k - 1)
        BY <2>3 DEF Message
      <4>5. QED
        BY <3>1, <3>3, <4>1, <4>3, <4>4 DEF Cell, RightOrLost
    <3>4. CASE ~ (Slot(local_read_idx_) + (k - 1) < N_)
      <4>1. ~ CopyInside
        BY <2>4, <3>2, <3>4
      <4>2. N_ <= local_read_idx_ + (k - 1) /\ Slot(local_read_idx_ + (k - 1)) + 1 <= k - 1
        <5>1. k - 1 < N_ /\ N_ <= Slot(local_read_idx_) + (k - 1)
          BY <2>4, <3>2, <3>4
        <5>2. QED
          BY <3>2, <5>1, SlotBehind
      <4>3. Len(received) + k - 1 = local_read_idx_ + (k - 1)
        BY <2>3
      <4>4. Slot(local_read_idx_ + (k - 1)) \in Nat
        <5>1. local_read_idx_ + (k - 1) \in Nat
          BY <3>2
        <5>2. Slot(local_read_idx_ + (k - 1)) \in Slots
          BY ONLY <5>1, SlotInRing
        <5>3. QED
          BY ONLY <5>2 DEF Slots
      <4>5. BehindRing(Len(received) + k)
        BY <2>3, <3>2, <4>2, <4>3, <4>4 DEF BehindRing
      <4>6. copied[k] = Garbage
        BY <3>1, <3>4 DEF Cell
      <4>7. QED
        BY <4>1, <4>5, <4>6 DEF RightOrLost
    <3>5. QED
      BY <3>3, <3>4
  <2> HIDE DEF copied
  <2>6. /\ first \in Nat /\ RightOrLost(first, Len(received) + 1)
        /\ CopyInside => first = Message(Len(received))
    <3>1. CASE BatchBuf = 0
      BY <2>4, <3>1 DEF Garbage, RightOrLost, BehindRing
    <3>2. CASE BatchBuf # 0
      <4>1. 1 \in 1 .. BatchBuf /\ Len(received) + 1 - 1 = Len(received) /\ first = copied[1]
        BY <3>2
      <4>2. QED
        BY <2>1, <2>5, <4>1
    <3>3. QED
      BY <3>1, <3>2
  <2>7. ASSUME NEW j \in 1 .. Len(Rest(copied))
        PROVE  /\ RightOrLost(Rest(copied)[j], Len(received) + 1 + j)
               /\ CopyInside => Rest(copied)[j] = Message(Len(received) + j)
    <3>1. /\ j + 1 \in 1 .. BatchBuf /\ Len(received) + (j + 1) - 1 = Len(received) + j
          /\ Len(received) + (j + 1) = Len(received) + 1 + j
      <4>1. BatchBuf # 0 /\ j \in 1 .. BatchBuf - 1
        BY <2>1
      <4>2. QED
        BY <4>1
    <3>2. QED
      BY <2>1, <2>5, <3>1
  <2>8. QED
    BY <2>1, <2>2, <2>6, <2>7
<1>3. CASE ConsumeDirect
  <2>1. /\ Consume(data_[Slot(local_read_idx_)], << >>) /\ batch = << >>
        /\ items_ready_num > 0 /\ Len(<< >>) = 0 /\ << >> \in Seq(Nat)
    BY <1>3 DEF ConsumeDirect
  <2>2. data_[Slot(local_read_idx_)] \in Nat
    BY SlotInRing DEF Types
  <2>3. Len(received) = local_read_idx_ /\ Taken = Len(received)
    BY <2>1 DEF Position, Consume, Taken
  <2>4. local_read_idx_ \in Taken .. write_idx_ - 1
    BY <2>1, <2>3 DEF items_ready_num, Window
  <2>5. data_[Slot(local_read_idx_)] = Message(Len(received))
    BY <2>3, <2>4 DEF Contents, NoOverwrite
  <2>6. 1 .. Len(<< >>) = {}
    BY <2>1
  <2>7. RightOrLost(data_[Slot(local_read_idx_)], Len(received) + 1)
    BY <2>3, <2>5 DEF RightOrLost
  <2>8. QED
    BY <2>1, <2>2, <2>5, <2>6, <2>7
<1>4. QED
  BY <1>1, <1>2, <1>3

(* A write goes to a slot that no message of the window is in.             *)
LEMMA WriteMissesWindow ==
  ASSUME Types, Position, Stores, write_idx_ < last_read_idx_ + N_,
         NEW i \in Taken .. write_idx_ - 1
  PROVE  i \in Nat /\ Slot(i) # Slot(write_idx_)
<1>n. Numbers /\ N_ \in Nat
  BY NumbersFromTypes, SizeAssumption
<1> USE <1>n DEF Numbers
<1>1. last_read_idx_ <= local_read_idx_ /\ local_read_idx_ <= Taken
  BY DEF Position, Stores, Taken
<1>2. i \in Nat /\ i < write_idx_ /\ write_idx_ < i + N_
  BY <1>1
<1>3. QED
  BY <1>2, SlotsApart

LEMMA ContentsStep ==
  ASSUME Types, Position, Stores, Window, Contents, [Next]_vars
  PROVE  Contents' /\ ((CopyInside \/ UNCHANGED vars) /\ Exact => Exact')
<1>n. Numbers /\ N_ \in Nat
  BY NumbersFromTypes, SizeAssumption
<1> USE <1>n DEF Numbers
<1>1. ASSUME UNCHANGED <<data_, write_idx_, p_pc, batch, received>>
      PROVE  Contents' /\ (Exact => Exact')
  BY <1>1 DEF Contents, Exact, NoOverwrite, InOrder, Taken
<1>2. ASSUME NEW n \in 1 .. Len(readStores), EmplaceLoad(n)
      PROVE  UNCHANGED <<data_, write_idx_, p_pc, batch, received>>
  BY <1>2 DEF EmplaceLoad, consVars
<1>3. CASE EmplaceWrite
  <2>1. /\ data_' = [data_ EXCEPT ![Slot(write_idx_)] = Message(write_idx_)]
        /\ write_idx_ < last_read_idx_ + N_
        /\ UNCHANGED <<write_idx_, batch, received>>
    BY <1>3 DEF EmplaceWrite, HasRoom, consVars
  <2>2. Slot(write_idx_) \in Slots /\ DOMAIN data_ = Slots
    BY SlotInRing DEF Types
  <2>3. ASSUME NEW i \in Taken .. write_idx_ - 1
        PROVE  data_'[Slot(i)] = Message(i)
    <3>1. Slot(i) # Slot(write_idx_) /\ Slot(i) \in Slots
      BY <2>1, WriteMissesWindow, SlotInRing
    <3>2. data_[Slot(i)] = Message(i)
      BY DEF Contents, NoOverwrite
    <3>3. QED
      BY <2>1, <2>2, <3>1, <3>2
  <2>4. NoOverwrite'
    BY <2>1, <2>3 DEF NoOverwrite, Taken, Slot, Message
  <2>5. data_'[Slot(write_idx_)] = Message(write_idx_)
    BY <2>1, <2>2
  <2>6. QED
    BY <2>1, <2>4, <2>5 DEF Contents, Exact, InOrder, Message, Slot
<1>4. CASE EmplacePublish
  <2>1. /\ p_pc = "publish" /\ p_pc' # "publish" /\ write_idx_' = write_idx_ + 1
        /\ UNCHANGED <<data_, batch, received>>
    BY <1>4 DEF EmplacePublish, Loop, consVars
  <2>2. ASSUME NEW i \in Taken .. write_idx_
        PROVE  data_[Slot(i)] = Message(i)
    <3>1. CASE i = write_idx_
      BY <2>1, <3>1 DEF Contents
    <3>2. CASE i # write_idx_
      BY <3>2 DEF Contents, NoOverwrite
    <3>3. QED
      BY <3>1, <3>2
  <2>3. NoOverwrite'
    BY <2>1, <2>2 DEF NoOverwrite, Taken, Slot, Message
  <2>4. QED
    BY <2>1, <2>3 DEF Contents, Exact, InOrder, Message
<1>5. ASSUME NEW v \in last_write_idx_ .. write_idx_, PeekLoad(v)
      PROVE  UNCHANGED <<data_, write_idx_, p_pc, batch, received>>
  BY <1>5 DEF PeekLoad, memVars, prodVars
<1>6. ASSUME ConsumeBatched \/ ConsumeCopy \/ ConsumeDirect
      PROVE  Contents' /\ ((CopyInside \/ UNCHANGED vars) /\ Exact => Exact')
  <2>1. PICK value \in Nat, rest \in Seq(Nat) :
           /\ Consume(value, rest)
           /\ RightOrLost(value, Len(received) + 1)
           /\ \A j \in 1 .. Len(rest) : RightOrLost(rest[j], Len(received) + 1 + j)
           /\ CopyInside /\ Exact =>
                /\ value = Message(Len(received))
                /\ \A j \in 1 .. Len(rest) : rest[j] = Message(Len(received) + j)
    BY <1>6, ConsumedContents
  <2>2. /\ Len(received') = Len(received) + 1 /\ batch' = rest
        /\ \A k \in 1 .. Len(received) : received'[k] = received[k]
        /\ received'[Len(received) + 1] = value
        /\ UNCHANGED <<data_, write_idx_, p_pc>>
    BY <2>1, Handed DEF Consume, memVars, prodVars
  <2>3. Taken' >= Taken /\ Taken' \in Int
    <3>1. PICK v \in Nat, r \in Seq(Nat) : Consume(v, r) /\ Taken <= Len(received) + 1 + Len(r)
      BY <1>6, Consumption
    <3>2. Taken' = Len(received) + 1 + Len(r) /\ Len(r) \in Nat
      BY <2>2, <3>1, LenProperties DEF Consume, Taken
    <3>3. QED
      BY <3>1, <3>2
  <2>4. NoOverwrite'
    <3>1. ASSUME NEW i \in Taken' .. write_idx_ - 1
          PROVE  data_[Slot(i)] = Message(i)
      BY <2>3 DEF Contents, NoOverwrite
    <3>2. QED
      BY <2>2, <3>1 DEF NoOverwrite, Slot, Message
  <2>5. ASSUME NEW k \in 1 .. Len(received')
        PROVE  /\ RightOrLost(received'[k], k)
               /\ CopyInside /\ Exact => received'[k] = Message(k - 1)
    <3>1. CASE k = Len(received) + 1
      <4>1. k - 1 = Len(received)
        BY <3>1
      <4>2. QED
        BY <2>1, <2>2, <3>1, <4>1
    <3>2. CASE k \in 1 .. Len(received)
      BY <2>2, <3>2 DEF Contents, Exact, InOrder
    <3>3. k \in 1 .. Len(received) \/ k = Len(received) + 1
      <4>1. Len(received) \in Nat /\ k \in 1 .. Len(received) + 1
        BY <2>2
      <4> HIDE <1>n DEF Numbers
      <4>2. QED
        BY <4>1
    <3>4. QED
      BY <3>1, <3>2, <3>3, Zenon
  <2>6. ASSUME NEW j \in 1 .. Len(batch')
        PROVE  /\ RightOrLost(batch'[j], Len(received') + j)
               /\ CopyInside /\ Exact => batch'[j] = Message(Len(received') + j - 1)
    <3>1. Len(rest) \in Nat
      BY LenProperties
    <3>2. Len(received') + j - 1 = Len(received) + j /\ Len(received') + j = Len(received) + 1 + j
      BY <2>2, <3>1
    <3>3. QED
      BY <2>1, <2>2, <3>2
  <2>7. Contents'
    <3>1. \A k \in 1 .. Len(received') : RightOrLost(received'[k], k)
      BY <2>5
    <3>2. p_pc' = "publish" => data_'[Slot(write_idx_')] = Message(write_idx_')
      BY <2>2 DEF Contents
    <3>3. QED
      BY <2>4, <2>6, <3>1, <3>2 DEF Contents, RightOrLost, BehindRing, Slot, Message, Garbage
  <2>8. CopyInside /\ Exact => Exact'
    BY <2>5, <2>6 DEF Exact, InOrder, Message
  <2>9. c_pc' # c_pc
    BY <2>1 DEF Consume
  <2>10. QED
    BY <2>7, <2>8, <2>9 DEF vars, consVars
<1>7. ASSUME Skip
      PROVE  UNCHANGED <<data_, write_idx_, p_pc, batch, received>>
  BY <1>7 DEF Skip, prodVars
<1>8. ASSUME UNCHANGED vars
      PROVE  UNCHANGED <<data_, write_idx_, p_pc, batch, received>>
  BY <1>8 DEF vars, memVars, prodVars, consVars
<1>9. QED
  BY <1>1, <1>2, <1>3, <1>4, <1>5, <1>6, <1>7, <1>8
     DEF Next, Producer, ProducerStep, Consumer, ConsumerStep

LEMMA ContentsHolds == Spec => []Contents
<1>1. Init => Contents
  <2> SUFFICES ASSUME Init PROVE Contents
    OBVIOUS
  <2>1. Len(received) = 0 /\ Len(batch) = 0 /\ write_idx_ = 0 /\ p_pc # "publish"
    BY DEF Init
  <2>2. QED
    BY <2>1 DEF Contents, NoOverwrite, Taken
<1>2. Types /\ (Position /\ Stores /\ Window) /\ Contents /\ [Next]_vars => Contents'
  BY ContentsStep
<1>3. QED
  BY <1>1, <1>2, TypesHold, WindowHolds, PTL DEF Spec

(* The producer never writes over a message that the consumer has yet to   *)
(* take, however old the counters are that the two threads act on.         *)
THEOREM NoOverwriteHolds == Spec => []NoOverwrite
<1>1. Contents => NoOverwrite
  BY DEF Contents
<1>2. QED
  BY <1>1, ContentsHolds, PTL

(* A value that is not the right message comes from behind the ring and    *)
(* from nowhere else, in the place of a message of the first slots, for    *)
(* every ring, batch and buffer.                                           *)
THEOREM NoStaleMessageHolds == Spec => []NoStaleMessage
<1>1. Contents => NoStaleMessage
  BY DEF Contents, NoStaleMessage, RightOrLost
<1>2. QED
  BY <1>1, ContentsHolds, PTL

LEMMA InsideExact == InsideSpec => Spec /\ []Exact
<1>1. Init => Exact
  <2> SUFFICES ASSUME Init PROVE Exact
    OBVIOUS
  <2>1. Len(received) = 0 /\ Len(batch) = 0
    BY DEF Init
  <2>2. QED
    BY <2>1 DEF Exact, InOrder
<1>2. [Next /\ CopyInside]_vars => [Next]_vars
  OBVIOUS
<1>3. Types /\ (Position /\ Stores /\ Window) /\ Contents /\ Exact /\ [Next /\ CopyInside]_vars => Exact'
  BY ContentsStep
<1>4. QED
  BY <1>1, <1>2, <1>3, TypesHold, WindowHolds, ContentsHolds, PTL DEF Spec, InsideSpec

(* As long as no copy runs over the end of the ring, the processor is      *)
(* handed the messages in order, none lost or repeated, however buffer and *)
(* ring alternate.                                                         *)
THEOREM InOrderHolds == InsideSpec => []InOrder
<1>1. Exact => InOrder
  BY DEF Exact
<1>2. QED
  BY <1>1, InsideExact, PTL

-----------------------------------------------------------------------------
(* How far read_idx_ is behind.                                            *)

LEMMA LagStep ==
  ASSUME Types, Stores, Lag, [Next]_vars
  PROVE  Lag'
<1>n. Numbers /\ items_per_batch_ \in Nat
  BY NumbersFromTypes, ItemsPerBatch
<1> USE <1>n DEF Numbers
<1>1. ASSUME read_idx_' = read_idx_, UNCHANGED <<local_read_idx_, next_checkpoint_idx_>>
      PROVE  Lag'
  BY <1>1 DEF Lag, items_per_batch_
<1>2. ASSUME NEW n \in 1 .. Len(readStores), EmplaceLoad(n) PROVE Lag'
  <2>1. /\ Len(readStores') = Len(readStores) - n + 1
        /\ \A m \in 1 .. Len(readStores') : readStores'[m] = readStores[n + m - 1]
    BY <1>2, LoadedStores
  <2>2. /\ Len(readStores') \in 1 .. Len(readStores')
        /\ n + Len(readStores') - 1 = Len(readStores)
    BY <2>1
  <2>3. read_idx_' = read_idx_
    BY <2>1, <2>2 DEF read_idx_
  <2>4. QED
    BY <1>1, <1>2, <2>3 DEF EmplaceLoad, consVars
<1>3. ASSUME EmplaceWrite \/ EmplacePublish PROVE Lag'
  BY <1>1, <1>3 DEF EmplaceWrite, EmplacePublish, read_idx_, consVars
<1>4. ASSUME NEW v \in last_write_idx_ .. write_idx_, PeekLoad(v) PROVE Lag'
  BY <1>1, <1>4 DEF PeekLoad, read_idx_, memVars
<1>5. ASSUME ConsumeBatched \/ ConsumeCopy \/ ConsumeDirect PROVE Lag'
  BY <1>1, <1>5 DEF ConsumeBatched, ConsumeCopy, ConsumeDirect, Consume, read_idx_, memVars
<1>6. CASE Skip
  <2>1. local_read_idx_' = local_read_idx_ + 1
    BY <1>6 DEF Skip
  <2>2. CASE AtCheckpoint
    <3>1. /\ Len(readStores') = Len(readStores) + 1
          /\ readStores'[Len(readStores) + 1].idx = local_read_idx_ + 1
      BY <1>6, <2>2, SkippedStores
    <3>2. read_idx_' = local_read_idx_ + 1
      BY <3>1 DEF read_idx_
    <3>3. /\ next_checkpoint_idx_' = next_checkpoint_idx_ + items_per_batch_
          /\ next_checkpoint_idx_ <= local_read_idx_
      BY <1>6, <2>2 DEF Skip, AtCheckpoint
    <3>4. QED
      BY <2>1, <3>2, <3>3 DEF Lag, items_per_batch_
  <2>3. CASE ~ AtCheckpoint
    <3>1. UNCHANGED <<readStores, next_checkpoint_idx_>> /\ local_read_idx_ < next_checkpoint_idx_
      BY <1>6, <2>3 DEF Skip, AtCheckpoint
    <3>2. QED
      BY <2>1, <3>1 DEF Lag, read_idx_, items_per_batch_
  <2>4. QED
    BY <2>2, <2>3
<1>7. ASSUME UNCHANGED vars PROVE Lag'
  BY <1>1, <1>7 DEF vars, memVars, consVars, read_idx_
<1>8. QED
  BY <1>2, <1>3, <1>4, <1>5, <1>6, <1>7
     DEF Next, Producer, ProducerStep, Consumer, ConsumerStep

LEMMA LagHolds == Spec => []Lag
<1>1. Init => Lag
  <2> SUFFICES ASSUME Init PROVE Lag
    OBVIOUS
  <2>1. read_idx_ = 0 /\ local_read_idx_ = 0 /\ next_checkpoint_idx_ = items_per_batch_
    BY DEF Init, read_idx_
  <2>2. QED
    BY <2>1, ItemsPerBatch DEF Lag
<1>2. Types /\ (Position /\ Stores /\ Window) /\ Lag /\ [Next]_vars => Lag'
  BY LagStep
<1>3. QED
  BY <1>1, <1>2, TypesHold, WindowHolds, PTL DEF Spec

LEMMA LagBounds ==
  ASSUME Types, Stores, Lag
  PROVE  /\ read_idx_ \in Nat /\ local_read_idx_ \in Nat /\ write_idx_ \in Nat
         /\ local_read_idx_ - read_idx_ <= items_per_batch_
<1>1. Numbers /\ items_per_batch_ \in Nat
  BY NumbersFromTypes, ItemsPerBatch
<1>2. read_idx_ \in Nat
  BY <1>1 DEF Numbers, read_idx_
<1>3. QED
  BY <1>1, <1>2 DEF Numbers, Lag

(* The consumer never holds back the slots of more than one batch, for     *)
(* every size and number of batches, more batches than slots included.     *)
THEOREM ConsumerLagHolds == Spec => []ConsumerLag
<1>1. Types /\ (Position /\ Stores /\ Window) /\ Lag => ConsumerLag
  BY LagBounds DEF ConsumerLag
<1>2. QED
  BY <1>1, TypesHold, WindowHolds, LagHolds, PTL

(* With two batches a lap or more, the threads never wait for each other:  *)
(* one batch is less than the ring.  (With one, they do: see the runs.)    *)
THEOREM NoMutualWaitHolds ==
  ASSUME BATCH_NUM > 1
  PROVE  Spec => []NoMutualWait
<1>1. Types /\ (Position /\ Stores /\ Window) /\ Lag => NoMutualWait
  <2> SUFFICES ASSUME Types, Stores, Lag, write_idx_ >= read_idx_ + N_
               PROVE  local_read_idx_ < write_idx_
    BY DEF NoMutualWait
  <2>1. QED
    BY LagBounds, ItemsPerBatch, SizeAssumption
<1>2. QED
  BY <1>1, TypesHold, WindowHolds, LagHolds, PTL

-----------------------------------------------------------------------------
(* The refinement.                                                         *)

(* The mapped histories are 1, 2, 3, ...: the messages published run as    *)
(* far as write_idx_, those received are as many as the consumer was       *)
(* handed.                                                                 *)
UpTo(n) == [k \in 1 .. n |-> k]

LEMMA UpToFacts ==
  ASSUME NEW n \in Nat
  PROVE  /\ Len(UpTo(n)) = n /\ \A k \in 1 .. n : UpTo(n)[k] = k
         /\ UpTo(n + 1) = Append(UpTo(n), n + 1)
BY DEF UpTo

MendedCounted == Mended(PublishedMsgs) = UpTo(write_idx_) /\ Mended(received) = UpTo(Len(received))

Counted == PublishedMsgs = UpTo(write_idx_) /\ received = UpTo(Len(received))

(* Where each message published is held.                                   *)
LEMMA PublishedWhere ==
  ASSUME Types, Window, Contents, NEW k \in 1 .. write_idx_
  PROVE  /\ RightOrLost(PublishedMsgs[k], k)
         /\ Exact => PublishedMsgs[k] = k
<1>n. Numbers
  BY NumbersFromTypes
<1> USE <1>n DEF Numbers
<1>1. PublishedMsgs[k] = IF k <= Len(received) THEN received[k]
                         ELSE IF k <= Taken    THEN batch[k - Len(received)]
                                               ELSE data_[Slot(k - 1)]
  BY DEF PublishedMsgs
<1>2. CASE k <= Len(received)
  BY <1>1, <1>2 DEF Contents, Exact, InOrder, Message
<1>3. CASE ~ (k <= Len(received)) /\ k <= Taken
  <2>1. /\ k - Len(received) \in 1 .. Len(batch)
        /\ Len(received) + (k - Len(received)) - 1 = k - 1
        /\ Len(received) + (k - Len(received)) = k
    BY <1>3 DEF Taken
  <2>2. RightOrLost(batch[k - Len(received)], k)
    BY <2>1 DEF Contents
  <2>3. Exact => batch[k - Len(received)] = Message(k - 1)
    BY <2>1 DEF Exact
  <2>4. QED
    BY <1>1, <1>3, <2>2, <2>3 DEF Message
<1>4. CASE ~ (k <= Len(received)) /\ ~ (k <= Taken)
  <2>1. k - 1 \in Taken .. write_idx_ - 1
    BY <1>4
  <2>2. data_[Slot(k - 1)] = Message(k - 1)
    BY <2>1 DEF Contents, NoOverwrite
  <2>3. QED
    BY <1>1, <1>4, <2>2 DEF Message, RightOrLost
<1>5. QED
  BY <1>2, <1>3, <1>4

LEMMA HistoriesCounted ==
  ASSUME Types, Window, Contents
  PROVE  MendedCounted /\ (Exact => Counted)
<1>n. Numbers
  BY NumbersFromTypes
<1> USE <1>n DEF Numbers
<1>1. /\ PublishedMsgs = [k \in 1 .. write_idx_ |-> PublishedMsgs[k]]
      /\ received = [k \in 1 .. Len(received) |-> received[k]]
  BY DEF PublishedMsgs, Types
<1>2. ASSUME NEW v, NEW k \in Nat, RightOrLost(v, k)
      PROVE  (IF v = Garbage THEN Message(k - 1) ELSE v) = k
  BY <1>2 DEF RightOrLost, Message
<1>3. ASSUME NEW k \in 1 .. write_idx_
      PROVE  /\ (IF PublishedMsgs[k] = Garbage THEN Message(k - 1) ELSE PublishedMsgs[k]) = k
             /\ Exact => PublishedMsgs[k] = k
  BY <1>2, PublishedWhere
<1>4. ASSUME NEW k \in 1 .. Len(received)
      PROVE  /\ (IF received[k] = Garbage THEN Message(k - 1) ELSE received[k]) = k
             /\ Exact => received[k] = k
  <2>1. RightOrLost(received[k], k)
    BY DEF Contents
  <2>2. Exact => received[k] = k
    BY DEF Exact, InOrder, Message
  <2>3. QED
    BY <1>2, <2>1, <2>2
<1>5. DOMAIN PublishedMsgs = 1 .. write_idx_ /\ DOMAIN received = 1 .. Len(received)
  BY <1>1, Zenon
<1>6. MendedCounted
  BY <1>3, <1>4, <1>5, Zenon DEF MendedCounted, Mended, UpTo
<1>7. Exact => Counted
  BY <1>1, <1>3, <1>4, Zenon DEF Counted, UpTo
<1>8. QED
  BY <1>6, <1>7

(* Storing write_idx_ publishes a message, and there is room for it; each  *)
(* of the three ways to return one delivers the oldest; all other steps,   *)
(* loads and late stores of read_idx_ included, do neither.                *)
LEMMA FifoStep ==
  ASSUME Types, Position, Stores, Window, [Next]_vars
  PROVE  \/ /\ write_idx_' = write_idx_ + 1 /\ write_idx_ + 1 \in 1 .. MsgNum
            /\ write_idx_ - Len(received) < N_ /\ received' = received
         \/ /\ Len(received') = Len(received) + 1 /\ Len(received) < write_idx_
            /\ write_idx_' = write_idx_
         \/ UNCHANGED <<write_idx_, received>>
<1>n. Numbers /\ N_ \in Nat
  BY NumbersFromTypes, SizeAssumption
<1> USE <1>n DEF Numbers
<1>1. CASE EmplacePublish
  <2>1. /\ write_idx_' = write_idx_ + 1 /\ received' = received
        /\ p_pc = "publish" /\ write_idx_ + 1 \in 1 .. MsgNum
    <3>1. write_idx_' = write_idx_ + 1 /\ received' = received /\ p_pc = "publish"
      BY <1>1 DEF EmplacePublish, consVars
    <3>2. write_idx_ < MsgNum
      BY <3>1 DEF Types
    <3>3. QED
      BY <3>1, <3>2, MsgNumAssumption
  <2>2. write_idx_ < last_read_idx_ + N_
    BY <2>1 DEF Window
  <2>3. last_read_idx_ <= local_read_idx_ /\ local_read_idx_ <= Len(received)
    BY DEF Stores, Position
  <2>4. QED
    BY <2>1, <2>2, <2>3
<1>2. CASE ConsumeBatched \/ ConsumeCopy \/ ConsumeDirect
  <2>1. PICK v \in Nat, r \in Seq(Nat) :
          Consume(v, r) /\ Len(received) + 1 + Len(r) <= last_write_idx_
    BY <1>2, Consumption
  <2>2. Len(r) \in Nat /\ last_write_idx_ <= write_idx_
    BY LenProperties DEF Window
  <2>3. Len(received') = Len(received) + 1 /\ write_idx_' = write_idx_
    BY <2>1, Handed DEF Consume, memVars
  <2>4. QED
    BY <2>1, <2>2, <2>3
<1>3. CASE UNCHANGED <<write_idx_, received>>
  BY <1>3
<1>4. QED
  BY <1>1, <1>2, <1>3
     DEF Next, Producer, ProducerStep, Consumer, ConsumerStep, vars, memVars, prodVars, consVars,
         EmplaceLoad, EmplaceWrite, PeekLoad, Skip

(* SPSC2 implements the bounded FIFO but for the values from behind the    *)
(* ring, wherever the copies end.                                          *)
THEOREM ImplementsMendedBoundedFifo == Spec => MendedFifo!Spec
<1> DEFINE pub == Mended(PublishedMsgs)
           rec == Mended(received)
<1>1. ASSUME Init, MendedCounted PROVE MendedFifo!Init
  <2>1. write_idx_ = 0 /\ Len(received) = 0
    BY <1>1 DEF Init
  <2>2. UpTo(0) = << >>
    BY DEF UpTo
  <2>3. QED
    BY <1>1, <2>1, <2>2 DEF MendedFifo!Init, MendedCounted
<1>2. ASSUME Types, Position, Stores, Window, MendedCounted, MendedCounted', [Next]_vars
      PROVE  [MendedFifo!Next]_(MendedFifo!vars)
  <2>1. /\ pub = UpTo(write_idx_) /\ rec = UpTo(Len(received))
        /\ pub' = UpTo(write_idx_') /\ rec' = UpTo(Len(received'))
    BY <1>2 DEF MendedCounted, UpTo
  <2>2. write_idx_ \in Nat /\ Len(received) \in Nat
    BY <1>2, NumbersFromTypes DEF Numbers
  <2>3. Len(pub) = write_idx_ /\ Len(rec) = Len(received) /\ \A k \in 1 .. write_idx_ : pub[k] = k
    BY <2>1, <2>2, UpToFacts
  <2> HIDE DEF pub, rec
  <2>4. CASE /\ write_idx_' = write_idx_ + 1 /\ write_idx_ + 1 \in 1 .. MsgNum
             /\ write_idx_ - Len(received) < N_ /\ received' = received
    <3>1. pub' = Append(pub, write_idx_ + 1) /\ rec' = rec /\ Len(pub) - Len(rec) < N_
      BY <2>1, <2>2, <2>3, <2>4, UpToFacts
    <3>2. MendedFifo!Publish(write_idx_ + 1)
      BY <3>1 DEF MendedFifo!Publish, pub, rec
    <3>3. QED
      BY <2>4, <3>2 DEF MendedFifo!Next
  <2>5. CASE /\ Len(received') = Len(received) + 1 /\ Len(received) < write_idx_
             /\ write_idx_' = write_idx_
    <3>1. UpTo(Len(received) + 1) = Append(UpTo(Len(received)), Len(received) + 1)
      BY <2>2, UpToFacts
    <3>2. rec' = Append(rec, Len(received) + 1)
      BY <2>1, <2>5, <3>1
    <3>3. pub' = pub /\ pub[Len(rec) + 1] = Len(received) + 1
      BY <2>1, <2>2, <2>3, <2>5
    <3>4. MendedFifo!Deliver
      BY <2>3, <2>5, <3>2, <3>3 DEF MendedFifo!Deliver, pub, rec
    <3>5. QED
      BY <3>4 DEF MendedFifo!Next
  <2>6. CASE UNCHANGED <<write_idx_, received>>
    <3>1. pub' = pub /\ rec' = rec
      BY <2>1, <2>6
    <3>2. QED
      BY <3>1 DEF MendedFifo!vars, pub, rec
  <2>7. QED
    BY <1>2, <2>4, <2>5, <2>6, FifoStep
<1>3. Types /\ (Position /\ Stores /\ Window) /\ Contents => MendedCounted
  BY HistoriesCounted
<1>4. QED
  BY <1>1, <1>2, <1>3, TypesHold, WindowHolds, ContentsHolds, PTL DEF Spec, MendedFifo!Spec

(* As long as no copy runs over the end of the ring, SPSC2 implements the  *)
(* bounded FIFO with the values as they are.                               *)
THEOREM ImplementsBoundedFifo == InsideSpec => Fifo!Spec
<1>1. ASSUME Init, Counted PROVE Fifo!Init
  <2>1. write_idx_ = 0 /\ received = << >>
    BY <1>1 DEF Init
  <2>2. UpTo(0) = << >>
    BY DEF UpTo
  <2>3. QED
    BY <1>1, <2>1, <2>2 DEF Fifo!Init, Counted
<1>2. ASSUME Types, Position, Stores, Window, Counted, Counted', [Next]_vars
      PROVE  [Fifo!Next]_(Fifo!vars)
  <2>1. /\ PublishedMsgs = UpTo(write_idx_) /\ received = UpTo(Len(received))
        /\ PublishedMsgs' = UpTo(write_idx_') /\ received' = UpTo(Len(received'))
    BY <1>2 DEF Counted, UpTo
  <2>2. write_idx_ \in Nat /\ Len(received) \in Nat
    BY <1>2, NumbersFromTypes DEF Numbers
  <2>3. /\ Len(PublishedMsgs) = write_idx_
        /\ \A k \in 1 .. write_idx_ : PublishedMsgs[k] = k
    BY <2>1, <2>2, UpToFacts
  <2> HIDE DEF PublishedMsgs
  <2>4. CASE /\ write_idx_' = write_idx_ + 1 /\ write_idx_ + 1 \in 1 .. MsgNum
             /\ write_idx_ - Len(received) < N_ /\ received' = received
    <3>1. PublishedMsgs' = Append(PublishedMsgs, write_idx_ + 1)
      BY <2>1, <2>2, <2>4, UpToFacts
    <3>2. Fifo!Publish(write_idx_ + 1)
      BY <2>3, <2>4, <3>1 DEF Fifo!Publish
    <3>3. QED
      BY <2>4, <3>2 DEF Fifo!Next
  <2>5. CASE /\ Len(received') = Len(received) + 1 /\ Len(received) < write_idx_
             /\ write_idx_' = write_idx_
    <3>1. UpTo(Len(received) + 1) = Append(UpTo(Len(received)), Len(received) + 1)
      BY <2>2, UpToFacts
    <3>2. received' = Append(received, Len(received) + 1)
      BY <2>1, <2>5, <3>1
    <3>3. PublishedMsgs' = PublishedMsgs /\ PublishedMsgs[Len(received) + 1] = Len(received) + 1
      BY <2>1, <2>2, <2>3, <2>5
    <3>4. Fifo!Deliver
      BY <2>3, <2>5, <3>2, <3>3 DEF Fifo!Deliver
    <3>5. QED
      BY <3>4 DEF Fifo!Next
  <2>6. CASE UNCHANGED <<write_idx_, received>>
    BY <2>1, <2>6 DEF Fifo!vars
  <2>7. QED
    BY <1>2, <2>4, <2>5, <2>6, FifoStep
<1>3. Types /\ (Position /\ Stores /\ Window) /\ Contents /\ Exact => Counted
  BY HistoriesCounted
<1>4. QED
  BY <1>1, <1>2, <1>3, TypesHold, WindowHolds, ContentsHolds, InsideExact, PTL
     DEF Spec, Fifo!Spec
=============================================================================
