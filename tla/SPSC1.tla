-------------------------------- MODULE SPSC1 --------------------------------
(***************************************************************************)
(* The queue SPSC1 (benchmark/vendor_specs/spsc1_spec.h) driven by its two *)
(* client loops: one producer thread runs Spsc1SingleQueueProduceAll, one  *)
(* consumer thread runs Spsc1QueueConsumeAll.                              *)
(*                                                                         *)
(* Every slot of the ring has a payload (plain memory) and an atomic flag  *)
(* busy.  One action is one access to memory the two threads share; the    *)
(* indices write_idx_ and read_idx_ belong to one thread each, so they     *)
(* move in the same action as the flag store next to them.                 *)
(*                                                                         *)
(* Memory order is part of the model.  seen[t] is what thread t knows, by  *)
(* happens-before, of the payload writes and payload reads made so far; a  *)
(* release store puts the storing thread's knowledge into the flag (view)  *)
(* and an acquire load of the flag joins it to the knowledge of the        *)
(* loading thread.  A stale load of busy can only repeat the spin: while a *)
(* thread waits, the other one is the only writer of the flag, and reads   *)
(* of one atomic by one thread never go back (coherence).                  *)
(***************************************************************************)
EXTENDS Integers, Sequences

CONSTANTS
  N_,      (* slots of the ring                                            *)
  MsgNum   (* messages the producer publishes and the consumer consumes    *)

(* The constructor throws for a size that is not a power of two.  The size *)
(* 0 passes that test, but then every slot access is out of bounds.        *)
ASSUME SizeAssumption == N_ \in Nat \ {0}
ASSUME PowerOfTwo == \E k \in 0 .. N_ : N_ = 2 ^ k

ASSUME MsgNumAssumption == MsgNum \in Nat

VARIABLES
  payload,    (* contents of each slot; 0 before the first write           *)
  busy,       (* the atomic flag of each slot                              *)
  write_idx_, (* producer's slot index                                     *)
  read_idx_,  (* consumer's slot index                                     *)
  p_pc, p_i,  (* producer: control point, messages emplaced                *)
  c_pc, c_i,  (* consumer: control point, messages skipped                 *)
  received,   (* history: the values passed to the message processor       *)
  view,       (* history: knowledge carried by the last store to each flag *)
  seen,       (* history: knowledge of each thread                         *)
  lastWrite,  (* history: number of the last payload write of each slot    *)
  lastRead    (* history: number of the last payload read of each slot     *)

prodVars == <<p_pc, p_i, write_idx_>>
consVars == <<c_pc, c_i, read_idx_, received>>
hbVars   == <<view, seen, lastWrite, lastRead>>
vars     == <<payload, busy, prodVars, consVars, hbVars>>

Slots   == 0 .. N_ - 1
Threads == {"p", "c"}

(* Knowledge: how many payload writes (w) and payload reads (r) are known. *)
Knowledge == [w : Nat, r : Nat]
Nothing   == [w |-> 0, r |-> 0]

Join(a, b) ==
  [w |-> IF a.w >= b.w THEN a.w ELSE b.w,
   r |-> IF a.r >= b.r THEN a.r ELSE b.r]

(* The same knowledge after one more payload write, or payload read.       *)
Wrote(k) == [w |-> k.w + 1, r |-> k.r]
Read(k)  == [w |-> k.w, r |-> k.r + 1]

(* Mutant: the flag is stored with memory_order_relaxed.                   *)
Release_Relaxed(t, slot) == view' = [view EXCEPT ![slot] = Nothing]

(* load(memory_order_acquire) of a flag, and store(memory_order_release).  *)
Acquire(t, slot) == seen' = [seen EXCEPT ![t] = Join(@, view[slot])]
Release(t, slot) == view' = [view EXCEPT ![slot] = seen[t]]

(* Mutant: the index is not masked.                                        *)
Advance_Unmasked(idx) == idx + 1

(* (idx + 1) & (N_ - 1), for a power of two N_.                            *)
Advance(idx) == (idx + 1) % N_

(* Mutant: the value is returned before it is incremented.                 *)
Message_FromZero(i) == i

(* The value of the producer's i-th message (from 0): ProduceIncremental.  *)
Message(i) == i + 1

-----------------------------------------------------------------------------

(* The constructor: every flag false, and whatever it wrote is known to    *)
(* both threads, which are created later.                                  *)
Init ==
  /\ payload    = [s \in Slots |-> 0]
  /\ busy       = [s \in Slots |-> FALSE]
  /\ write_idx_ = 0 /\ read_idx_ = 0
  /\ p_i = 0 /\ p_pc = IF MsgNum = 0 THEN "done" ELSE "wait"
  /\ c_i = 0 /\ c_pc = IF MsgNum = 0 THEN "done" ELSE "wait"
  /\ received   = << >>
  /\ view       = [s \in Slots |-> Nothing]
  /\ seen       = [t \in Threads |-> Nothing]
  /\ lastWrite  = [s \in Slots |-> 0]
  /\ lastRead   = [s \in Slots |-> 0]

(***************************************************************************)
(* Producer: emplace(message_creator_())                                   *)
(***************************************************************************)

(* Mutant: emplace does not wait for the slot to be free.                  *)
Free_Always(slot) == TRUE

(* The test on which emplace spins.                                        *)
Free(slot) == ~ busy[slot]

(* while (node->busy.load(acquire)) ; -- the load that finds it free.      *)
EmplaceWait ==
  /\ p_pc = "wait"
  /\ Free(write_idx_)
  /\ Acquire("p", write_idx_)
  /\ p_pc' = "write"
  /\ UNCHANGED <<payload, busy, p_i, write_idx_, consVars, view, lastWrite, lastRead>>

(* ::new (node->paylod) T(...): the non-atomic write of the payload.       *)
EmplaceWrite ==
  /\ p_pc = "write"
  /\ payload'   = [payload EXCEPT ![write_idx_] = Message(p_i)]
  /\ seen'      = [seen EXCEPT !["p"] = Wrote(@)]
  /\ lastWrite' = [lastWrite EXCEPT ![write_idx_] = seen["p"].w + 1]
  /\ p_pc' = "publish"
  /\ UNCHANGED <<busy, p_i, write_idx_, consVars, view, lastRead>>

(* Advance write_idx_, then node->busy.store(true, release); ++i.          *)
EmplacePublish ==
  /\ p_pc = "publish"
  /\ write_idx_' = Advance(write_idx_)
  /\ busy' = [busy EXCEPT ![write_idx_] = TRUE]
  /\ Release("p", write_idx_)
  /\ p_i'  = p_i + 1
  /\ p_pc' = IF p_i + 1 < MsgNum THEN "wait" ELSE "done"
  /\ UNCHANGED <<payload, consVars, seen, lastWrite, lastRead>>

(***************************************************************************)
(* Consumer: peek(), the message processor, skip()                         *)
(***************************************************************************)

(* peek: while (!node->busy.load(acquire)) ; -- the load that finds a      *)
(* message.                                                                *)
PeekWait ==
  /\ c_pc = "wait"
  /\ busy[read_idx_]
  /\ Acquire("c", read_idx_)
  /\ c_pc' = "process"
  /\ UNCHANGED <<payload, busy, prodVars, c_i, read_idx_, received, view, lastWrite, lastRead>>

(* p_( *v ): the processor reads the payload in place.                     *)
Process ==
  /\ c_pc = "process"
  /\ received' = Append(received, payload[read_idx_])
  /\ seen'     = [seen EXCEPT !["c"] = Read(@)]
  /\ lastRead' = [lastRead EXCEPT ![read_idx_] = seen["c"].r + 1]
  /\ c_pc' = "skip"
  /\ UNCHANGED <<payload, busy, prodVars, c_i, read_idx_, view, lastWrite>>

(* Mutant: skip takes the node after it advanced read_idx_.                *)
skipped_node_Next == Advance(read_idx_)

(* The node skip takes before it advances read_idx_.                       *)
skipped_node == read_idx_

(* skip: advance read_idx_, then node->busy.store(false, release); ++i.    *)
Skip ==
  /\ c_pc = "skip"
  /\ read_idx_' = Advance(read_idx_)
  /\ busy' = [busy EXCEPT ![skipped_node] = FALSE]
  /\ Release("c", skipped_node)
  /\ c_i'  = c_i + 1
  /\ c_pc' = IF c_i + 1 < MsgNum THEN "wait" ELSE "done"
  /\ UNCHANGED <<payload, prodVars, received, seen, lastWrite, lastRead>>

-----------------------------------------------------------------------------

Producer == EmplaceWait \/ EmplaceWrite \/ EmplacePublish
Consumer == PeekWait \/ Process \/ Skip

Next == Producer \/ Consumer

Spec == Init /\ [][Next]_vars

(* Each loop runs on a thread of its own and spins without blocking, so a  *)
(* thread that can take its next step is scheduled eventually.             *)
FairSpec == Spec /\ WF_vars(Producer) /\ WF_vars(Consumer)

-----------------------------------------------------------------------------

(* Types of the variables; both indices stay inside the ring and both      *)
(* loops stop at MsgNum.                                                   *)
TypeOK ==
  /\ payload \in [Slots -> Nat]
  /\ busy \in [Slots -> BOOLEAN]
  /\ write_idx_ \in Slots /\ read_idx_ \in Slots
  /\ p_pc \in {"wait", "write", "publish", "done"} /\ p_i \in 0 .. MsgNum
  /\ c_pc \in {"wait", "process", "skip", "done"}  /\ c_i \in 0 .. MsgNum
  /\ p_pc # "done" => p_i < MsgNum
  /\ c_pc # "done" => c_i < MsgNum
  /\ received \in Seq(Nat)
  /\ view \in [Slots -> Knowledge] /\ seen \in [Threads -> Knowledge]
  /\ lastWrite \in [Slots -> Nat] /\ lastRead \in [Slots -> Nat]

(* The acquire/release pairs on busy order every access to a payload after *)
(* the other thread's last access to it: when emplace writes a slot, the   *)
(* read of its previous message happened before, and when the processor    *)
(* reads a slot, the write of its message happened before.                 *)
NoDataRace ==
  /\ p_pc = "write"   => lastRead[write_idx_] <= seen["p"].r
  /\ c_pc = "process" => lastWrite[read_idx_] <= seen["c"].w

(* The processor is handed the producer's messages in order, with none     *)
(* lost, duplicated or torn from an earlier lap of the ring.               *)
InOrder ==
  \A k \in 1 .. Len(received) : received[k] = Message(k - 1)

(* emplace never touches the payload of a slot whose message the consumer  *)
(* has not skipped yet: peek's pointer into the ring stays valid.          *)
NoOverwrite ==
  [][\A s \in Slots : busy[s] => payload'[s] = payload[s]]_vars

(* The messages published so far, as the code holds them: those already    *)
(* processed, then those still in the ring from the consumer's index on.   *)
Published ==
  [k \in 1 .. p_i |->
     IF k <= Len(received) THEN received[k]
                           ELSE payload[(read_idx_ + (k - 1 - c_i)) % N_]]

Fifo == INSTANCE BoundedFifo
          WITH Msg <- 1 .. MsgNum, Capacity <- N_,
               published <- Published, received <- received

(* SPSC1 implements a FIFO of capacity N_, whose consumer eventually       *)
(* receives every message that was published.                              *)
ImplementsFifo == Fifo!FairSpec

(* Both loops return.  Neither side may wait for a slot for ever.          *)
Finished  == p_pc = "done" /\ c_pc = "done"
Completes == <>Finished
=============================================================================
