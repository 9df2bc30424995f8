----------------------------- MODULE SPSC1Proofs -----------------------------
(***************************************************************************)
(* Proofs about SPSC1, for every ring size and every number of messages.   *)
(*                                                                         *)
(* The argument is in three layers.  Handshake: the flag of a slot keeps   *)
(* the two threads out of it at the same time.  Ordered: the knowledge the *)
(* flag carries covers the accesses the next owner must not race with.     *)
(* Ring: the busy slots are exactly the Occupied ones from read_idx_ on,   *)
(* and hold the messages c_i + 1 .. p_i in order.                          *)
(***************************************************************************)
EXTENDS SPSC1, TLAPS

(* Published and not yet skipped.                                          *)
Occupied == p_i - c_i

(* How many slots s lies ahead of read_idx_, going round the ring.         *)
Ahead(s) == IF s >= read_idx_ THEN s - read_idx_ ELSE s - read_idx_ + N_

Handshake ==
  /\ p_pc \in {"write", "publish"} => ~ busy[write_idx_]
  /\ c_pc \in {"process", "skip"}  => busy[read_idx_]

Ordered ==
  /\ \A s \in Slots : lastWrite[s] <= seen["p"].w /\ lastRead[s] <= seen["c"].r
  /\ \A s \in Slots : busy[s] => lastWrite[s] <= view[s].w
  /\ \A s \in Slots : ~ busy[s] => lastRead[s] <= view[s].r
  /\ NoDataRace

Ring ==
  /\ Occupied \in 0 .. N_
  /\ write_idx_ = read_idx_ + Occupied \/ write_idx_ = read_idx_ + Occupied - N_
  /\ \A s \in Slots : busy[s] <=> Ahead(s) < Occupied
  /\ \A s \in Slots : busy[s] => payload[s] = c_i + Ahead(s) + 1
  /\ p_pc = "publish" => payload[write_idx_] = p_i + 1
  /\ Len(received) = IF c_pc = "skip" THEN c_i + 1 ELSE c_i

-----------------------------------------------------------------------------

LEMMA AdvanceWraps ==
  ASSUME NEW i \in Slots
  PROVE  /\ Advance(i) = IF i + 1 = N_ THEN 0 ELSE i + 1
         /\ Advance(i) \in Slots
BY SizeAssumption DEF Advance, Slots

LEMMA WrapsOnce ==
  ASSUME NEW i \in Slots, NEW d \in Slots
  PROVE  (i + d) % N_ = IF i + d < N_ THEN i + d ELSE i + d - N_
BY SizeAssumption DEF Slots

(* Knowledge only grows, and stays knowledge.                              *)
LEMMA KnowledgeGrows ==
  ASSUME NEW a \in Knowledge, NEW b \in Knowledge
  PROVE  /\ Join(a, b) \in Knowledge
         /\ Join(a, b).w >= a.w /\ Join(a, b).w >= b.w
         /\ Join(a, b).r >= a.r /\ Join(a, b).r >= b.r
         /\ Wrote(a) \in Knowledge /\ Wrote(a).w = a.w + 1 /\ Wrote(a).r = a.r
         /\ Read(a) \in Knowledge /\ Read(a).w = a.w /\ Read(a).r = a.r + 1
BY DEF Knowledge, Join, Wrote, Read

(* Both indices stay inside the ring, whatever its size.                   *)
THEOREM TypeCorrect == Spec => []TypeOK
<1>1. Init => TypeOK
  BY SizeAssumption, MsgNumAssumption
     DEF Init, TypeOK, Slots, Threads, Knowledge, Nothing
<1>2. ASSUME TypeOK, [Next]_vars PROVE TypeOK'
  <2> USE <1>2, SizeAssumption, MsgNumAssumption
      DEF TypeOK, prodVars, consVars, hbVars
  <2>k. /\ seen["p"] \in Knowledge /\ seen["c"] \in Knowledge
        /\ \A s \in Slots : view[s] \in Knowledge
    BY DEF Threads
  <2>1. CASE EmplaceWait
    <3>1. Join(seen["p"], view[write_idx_]) \in Knowledge
      BY <2>k, KnowledgeGrows
    <3>2. seen' \in [Threads -> Knowledge]
      BY <2>1, <3>1 DEF EmplaceWait, Free, Acquire
    <3>3. QED
      BY <2>1, <3>2 DEF EmplaceWait, Free
  <2>2. CASE EmplaceWrite
    <3>1. Wrote(seen["p"]) \in Knowledge /\ seen["p"].w \in Nat
      BY <2>k, KnowledgeGrows DEF Knowledge
    <3>2. seen' \in [Threads -> Knowledge]
      BY <2>2, <3>1 DEF EmplaceWrite
    <3>3. lastWrite' \in [Slots -> Nat]
      BY <2>2, <3>1 DEF EmplaceWrite
    <3>4. payload' \in [Slots -> Nat]
      BY <2>2 DEF EmplaceWrite, Message
    <3>5. QED
      BY <2>2, <3>2, <3>3, <3>4 DEF EmplaceWrite
  <2>3. CASE EmplacePublish
    BY <2>3, <2>k, AdvanceWraps, SMTT(30) DEF EmplacePublish, Release
  <2>4. CASE PeekWait
    <3>1. Join(seen["c"], view[read_idx_]) \in Knowledge
      BY <2>k, KnowledgeGrows
    <3>2. seen' \in [Threads -> Knowledge]
      BY <2>4, <3>1 DEF PeekWait, Acquire
    <3>3. QED
      BY <2>4, <3>2 DEF PeekWait
  <2>5. CASE Process
    <3>1. Read(seen["c"]) \in Knowledge /\ seen["c"].r \in Nat
      BY <2>k, KnowledgeGrows DEF Knowledge
    <3>2. seen' \in [Threads -> Knowledge]
      BY <2>5, <3>1 DEF Process
    <3>3. lastRead' \in [Slots -> Nat]
      BY <2>5, <3>1 DEF Process
    <3>4. received' \in Seq(Nat)
      BY <2>5 DEF Process
    <3>5. QED
      BY <2>5, <3>2, <3>3, <3>4 DEF Process
  <2>6. CASE Skip
    BY <2>6, <2>k, AdvanceWraps, SMTT(30) DEF Skip, skipped_node, Release
  <2>7. CASE UNCHANGED vars
    BY <2>7 DEF vars
  <2>8. QED
    BY <2>1, <2>2, <2>3, <2>4, <2>5, <2>6, <2>7 DEF Next, Producer, Consumer
<1>3. QED
  BY <1>1, <1>2, PTL DEF Spec

-----------------------------------------------------------------------------

(* A thread that has found its slot in the state it waits for still finds  *)
(* it so when it stores the flag: the other thread cannot move the flag.   *)
LEMMA HandshakeHolds == Spec => []Handshake
<1>1. Init => Handshake
  BY DEF Init, Handshake
<1>2. ASSUME TypeOK, Handshake, [Next]_vars PROVE Handshake'
  <2> USE <1>2 DEF TypeOK, Handshake, prodVars, consVars, hbVars
  <2>1. CASE EmplaceWait
    BY <2>1 DEF EmplaceWait, Free
  <2>2. CASE EmplaceWrite
    BY <2>2 DEF EmplaceWrite
  <2>3. CASE EmplacePublish
    BY <2>3 DEF EmplacePublish
  <2>4. CASE PeekWait
    BY <2>4 DEF PeekWait
  <2>5. CASE Process
    BY <2>5 DEF Process
  <2>6. CASE Skip
    BY <2>6 DEF Skip, skipped_node
  <2>7. CASE UNCHANGED vars
    BY <2>7 DEF vars
  <2>8. QED
    BY <2>1, <2>2, <2>3, <2>4, <2>5, <2>6, <2>7 DEF Next, Producer, Consumer
<1>3. QED
  BY <1>1, <1>2, TypeCorrect, PTL DEF Spec

(* The knowledge carried by the flags covers what the next owner of the    *)
(* slot must know, so no payload access races with an earlier one.         *)
LEMMA OrderedStep ==
  ASSUME TypeOK, Handshake, Ordered, [Next]_vars
  PROVE  Ordered'
<1> USE DEF Ordered, NoDataRace
<1>k. /\ seen["p"] \in Knowledge /\ seen["c"] \in Knowledge
      /\ \A s \in Slots : view[s] \in Knowledge
      /\ \A s \in Slots : lastWrite[s] \in Nat /\ lastRead[s] \in Nat
      /\ seen["p"].w \in Nat /\ seen["p"].r \in Nat
      /\ seen["c"].w \in Nat /\ seen["c"].r \in Nat
      /\ \A s \in Slots : view[s].w \in Nat /\ view[s].r \in Nat
      /\ write_idx_ \in Slots /\ read_idx_ \in Slots
      /\ busy \in [Slots -> BOOLEAN]
      /\ DOMAIN seen = Threads /\ DOMAIN view = Slots
      /\ DOMAIN lastWrite = Slots /\ DOMAIN lastRead = Slots
  BY DEF TypeOK, Threads, Knowledge
<1>1. CASE EmplaceWait
  <2> DEFINE k == Join(seen["p"], view[write_idx_])
  <2>1. /\ seen' = [seen EXCEPT !["p"] = k] /\ p_pc' = "write"
        /\ ~ busy[write_idx_]
        /\ UNCHANGED <<busy, write_idx_, c_pc, read_idx_, view, lastWrite, lastRead>>
    BY <1>1 DEF EmplaceWait, Free, Acquire, consVars
  <2>2. /\ k.w \in Nat /\ k.r \in Nat
        /\ k.w >= seen["p"].w /\ k.r >= view[write_idx_].r
    BY <1>k, KnowledgeGrows DEF Knowledge
  <2>3. seen'["p"] = k /\ seen'["c"] = seen["c"]
    BY <1>k, <2>1 DEF Threads
  <2> HIDE DEF k
  <2>4. QED
    BY <1>k, <2>1, <2>2, <2>3
<1>2. CASE EmplaceWrite
  <2>1. /\ seen'["p"].w = seen["p"].w + 1 /\ seen'["p"].r = seen["p"].r
        /\ seen'["c"] = seen["c"]
    BY <1>k, <1>2, KnowledgeGrows DEF EmplaceWrite, Threads
  <2>2. /\ p_pc' = "publish" /\ p_pc = "write" /\ ~ busy[write_idx_]
        /\ lastWrite' = [lastWrite EXCEPT ![write_idx_] = seen["p"].w + 1]
        /\ UNCHANGED <<busy, write_idx_, c_pc, read_idx_, view, lastRead>>
    BY <1>2 DEF EmplaceWrite, consVars, Handshake
  <2>3. c_pc = "process" => read_idx_ # write_idx_
    BY <2>2 DEF Handshake
  <2>4. QED
    BY <1>k, <2>1, <2>2, <2>3
<1>3. CASE EmplacePublish
  BY <1>k, <1>3, AdvanceWraps
     DEF EmplacePublish, Release, consVars, Handshake
<1>4. CASE PeekWait
  <2> DEFINE k == Join(seen["c"], view[read_idx_])
  <2>1. /\ seen' = [seen EXCEPT !["c"] = k] /\ c_pc' = "process"
        /\ busy[read_idx_]
        /\ UNCHANGED <<busy, write_idx_, p_pc, read_idx_, view, lastWrite, lastRead>>
    BY <1>4 DEF PeekWait, Acquire, prodVars
  <2>2. /\ k.w \in Nat /\ k.r \in Nat
        /\ k.r >= seen["c"].r /\ k.w >= view[read_idx_].w
    BY <1>k, KnowledgeGrows DEF Knowledge
  <2>3. seen'["c"] = k /\ seen'["p"] = seen["p"]
    BY <1>k, <2>1 DEF Threads
  <2> HIDE DEF k
  <2>4. QED
    BY <1>k, <2>1, <2>2, <2>3
<1>5. CASE Process
  <2>1. /\ seen'["c"].r = seen["c"].r + 1 /\ seen'["c"].w = seen["c"].w
        /\ seen'["p"] = seen["p"]
    BY <1>k, <1>5, KnowledgeGrows DEF Process, Threads
  <2>2. /\ c_pc' = "skip" /\ c_pc = "process" /\ busy[read_idx_]
        /\ lastRead' = [lastRead EXCEPT ![read_idx_] = seen["c"].r + 1]
        /\ UNCHANGED <<busy, write_idx_, p_pc, read_idx_, view, lastWrite>>
    BY <1>5 DEF Process, prodVars, Handshake
  <2>3. p_pc = "write" => read_idx_ # write_idx_
    BY <2>2 DEF Handshake
  <2>4. QED
    BY <1>k, <2>1, <2>2, <2>3
<1>6. CASE Skip
  BY <1>k, <1>6, AdvanceWraps DEF Skip, skipped_node, Release, prodVars, Handshake
<1>7. CASE UNCHANGED vars
  BY <1>7 DEF vars, prodVars, consVars, hbVars
<1>8. QED
  BY <1>1, <1>2, <1>3, <1>4, <1>5, <1>6, <1>7 DEF Next, Producer, Consumer

(* The acquire/release pairs on busy leave no data race on any payload,    *)
(* for every ring size and every number of messages.                       *)
THEOREM NoDataRaceHolds == Spec => []NoDataRace
<1>1. Init => Ordered
  BY SizeAssumption DEF Init, Ordered, NoDataRace, Nothing, Threads, Slots
<1>2. Ordered => NoDataRace
  BY DEF Ordered
<1>3. QED
  BY <1>1, <1>2, OrderedStep, TypeCorrect, HandshakeHolds, PTL DEF Spec

-----------------------------------------------------------------------------

(* The busy slots are the occupied ones, and hold the waiting messages.    *)
LEMMA RingStep ==
  ASSUME TypeOK, Handshake, Ring, [Next]_vars
  PROVE  Ring'
<1> USE SizeAssumption DEF Ring, Occupied, Ahead
<1>t. /\ payload \in [Slots -> Nat] /\ busy \in [Slots -> BOOLEAN]
      /\ write_idx_ \in Slots /\ read_idx_ \in Slots
      /\ p_i \in Nat /\ c_i \in Nat /\ received \in Seq(Nat)
      /\ N_ \in Nat \ {0} /\ \A s \in Slots : s \in Int /\ 0 <= s /\ s < N_
  BY MsgNumAssumption DEF TypeOK, Slots
<1>1. CASE EmplaceWait
  BY <1>1, <1>t DEF EmplaceWait, Free, consVars
<1>2. CASE EmplaceWrite
  <2>1. ~ busy[write_idx_] /\ c_pc' = c_pc
    BY <1>2 DEF EmplaceWrite, Handshake, consVars
  <2>2. QED
    BY <1>2, <1>t, <2>1 DEF EmplaceWrite, consVars, Message
<1>3. CASE EmplacePublish
  <2>1. /\ busy' = [busy EXCEPT ![write_idx_] = TRUE] /\ p_i' = p_i + 1
        /\ payload[write_idx_] = p_i + 1 /\ p_pc' # "publish"
        /\ UNCHANGED <<payload, c_pc, c_i, read_idx_, received>>
        /\ ~ busy[write_idx_]
    BY <1>3 DEF EmplacePublish, consVars, Handshake
  <2>2. write_idx_' = IF write_idx_ + 1 = N_ THEN 0 ELSE write_idx_ + 1
    BY <1>3, <1>t, AdvanceWraps DEF EmplacePublish
  <2>3. Ahead(write_idx_) = Occupied /\ Occupied < N_
    BY <1>t, <2>1, SMTT(30)
  <2>4. \A s \in Slots : Ahead(s) = Occupied => s = write_idx_
    BY <1>t, <2>3, SMTT(30)
  <2>5. \A s \in Slots : Ahead(s)' = Ahead(s) /\ Ahead(s) \in Int
    BY <1>t, <2>1, SMTT(30)
  <2>6. Occupied' = Occupied + 1 /\ Occupied' \in 0 .. N_
    BY <1>t, <2>1, <2>3
  <2>7. write_idx_' = read_idx_' + Occupied' \/ write_idx_' = read_idx_' + Occupied' - N_
    <3>1. /\ write_idx_ \in Int /\ 0 <= write_idx_ /\ write_idx_ < N_ /\ N_ \in Int
          /\ read_idx_ \in Int /\ 0 <= read_idx_ /\ read_idx_ < N_
          /\ Occupied \in Int /\ read_idx_' = read_idx_
          /\ write_idx_ = read_idx_ + Occupied \/ write_idx_ = read_idx_ + Occupied - N_
      BY <1>t, <2>1
    <3> HIDE DEF Occupied, Ring
    <3>2. QED
      BY <2>2, <2>3, <2>6, <3>1
  <2>8. \A s \in Slots : s # write_idx_ => busy'[s] = busy[s]
    BY <1>t, <2>1
  <2>9. \A s \in Slots : busy'[s] <=> Ahead(s)' < Occupied'
    <3>1. TAKE s \in Slots
    <3>2. CASE s = write_idx_
      BY <1>t, <2>1, <2>3, <2>5, <2>6, <3>2
    <3>3. CASE s # write_idx_
      <4>1. Ahead(s) # Occupied /\ (busy[s] <=> Ahead(s) < Occupied)
        BY <2>4, <3>3
      <4>2. Ahead(s) \in Int /\ Occupied \in Int
        BY <1>t, <2>5
      <4> HIDE DEF Ahead, Occupied
      <4>3. QED
        BY <2>5, <2>6, <2>8, <3>3, <4>1, <4>2
    <3>4. QED
      BY <3>2, <3>3
  <2>10. \A s \in Slots : busy'[s] => payload'[s] = c_i' + Ahead(s)' + 1
    <3>1. TAKE s \in Slots
    <3>2. CASE s = write_idx_
      BY <1>t, <2>1, <2>3, <2>5, <3>2
    <3>3. CASE s # write_idx_
      BY <1>t, <2>1, <2>5, <2>8, <3>3
    <3>4. QED
      BY <3>2, <3>3
  <2>11. Len(received') = IF c_pc' = "skip" THEN c_i' + 1 ELSE c_i'
    BY <2>1
  <2>12. QED
    BY <2>1, <2>6, <2>7, <2>9, <2>10, <2>11
<1>4. CASE PeekWait
  BY <1>4, <1>t DEF PeekWait, prodVars
<1>5. CASE Process
  BY <1>5, <1>t DEF Process, prodVars
<1>6. CASE Skip
  <2>1. /\ busy' = [busy EXCEPT ![read_idx_] = FALSE] /\ c_i' = c_i + 1
        /\ c_pc = "skip" /\ c_pc' # "skip" /\ busy[read_idx_]
        /\ UNCHANGED <<payload, p_pc, p_i, write_idx_, received>>
    BY <1>6 DEF Skip, skipped_node, prodVars, Handshake
  <2>2. read_idx_' = IF read_idx_ + 1 = N_ THEN 0 ELSE read_idx_ + 1
    BY <1>6, <1>t, AdvanceWraps DEF Skip, skipped_node
  <2>3. \A s \in Slots :
          Ahead(s)' = IF s = read_idx_ THEN N_ - 1 ELSE Ahead(s) - 1
    <3>1. TAKE s \in Slots
    <3>2. Ahead(s)' = IF s >= read_idx_' THEN s - read_idx_' ELSE s - read_idx_' + N_
      OBVIOUS
    <3>3. s \in Int /\ 0 <= s /\ s < N_ /\ read_idx_ \in Int /\ 0 <= read_idx_ /\ read_idx_ < N_
      BY <1>t
    <3>4. QED
      BY <1>t, <2>2, <3>2, <3>3
  <2>4. Occupied > 0 /\ Occupied' = Occupied - 1 /\ Occupied' \in 0 .. N_
    BY <1>t, <2>1
  <2>5. write_idx_' = read_idx_' + Occupied' \/ write_idx_' = read_idx_' + Occupied' - N_
    <3>1. /\ write_idx_ \in Int /\ 0 <= write_idx_ /\ write_idx_ < N_ /\ N_ \in Int
          /\ read_idx_ \in Int /\ 0 <= read_idx_ /\ read_idx_ < N_
          /\ Occupied \in Int /\ write_idx_' = write_idx_
          /\ write_idx_ = read_idx_ + Occupied \/ write_idx_ = read_idx_ + Occupied - N_
      BY <1>t, <2>1
    <3> HIDE DEF Occupied, Ring
    <3>2. QED
      BY <2>2, <2>4, <3>1
  <2>6. \A s \in Slots : Ahead(s) \in Int
    BY <1>t, SMTT(30)
  <2>7. \A s \in Slots : s # read_idx_ => busy'[s] = busy[s]
    BY <1>t, <2>1
  <2>8. \A s \in Slots : busy'[s] <=> Ahead(s)' < Occupied'
    <3>1. TAKE s \in Slots
    <3>2. CASE s = read_idx_
      BY <1>t, <2>1, <2>3, <2>4, <3>2
    <3>3. CASE s # read_idx_
      <4>1. busy[s] <=> Ahead(s) < Occupied
        OBVIOUS
      <4>2. Occupied \in Int
        BY <1>t
      <4> HIDE DEF Ahead, Occupied
      <4>3. QED
        BY <2>3, <2>4, <2>6, <2>7, <3>3, <4>1, <4>2
    <3>4. QED
      BY <3>2, <3>3
  <2>9. \A s \in Slots : busy'[s] => payload'[s] = c_i' + Ahead(s)' + 1
    <3>1. TAKE s \in Slots
    <3>2. CASE s = read_idx_
      BY <1>t, <2>1, <3>2
    <3>3. CASE s # read_idx_
      <4>1. busy[s] => payload[s] = c_i + Ahead(s) + 1
        OBVIOUS
      <4>2. /\ c_i \in Int /\ c_i' = c_i + 1 /\ payload' = payload
            /\ busy'[s] = busy[s]
        BY <1>t, <2>1, <2>7, <3>3
      <4> HIDE DEF Ahead, Ring
      <4>3. QED
        BY <2>3, <2>6, <3>3, <4>1, <4>2
    <3>4. QED
      BY <3>2, <3>3
  <2>10. p_pc' = "publish" => payload'[write_idx_'] = p_i' + 1
    BY <2>1
  <2>11. Len(received') = IF c_pc' = "skip" THEN c_i' + 1 ELSE c_i'
    BY <1>t, <2>1
  <2>12. QED
    BY <2>4, <2>5, <2>8, <2>9, <2>10, <2>11
<1>7. CASE UNCHANGED vars
  BY <1>7 DEF vars, prodVars, consVars
<1>8. QED
  BY <1>1, <1>2, <1>3, <1>4, <1>5, <1>6, <1>7 DEF Next, Producer, Consumer

LEMMA RingHolds == Spec => []Ring
<1>1. Init => Ring
  BY SizeAssumption DEF Init, Ring, Occupied, Ahead, Slots
<1>2. QED
  BY <1>1, RingStep, TypeCorrect, HandshakeHolds, PTL DEF Spec

(* The consumer is handed messages 1, 2, 3, ... : none is lost, duplicated *)
(* or reordered, for every ring size and every number of messages.         *)
THEOREM InOrderHolds == Spec => []InOrder
<1>1. Init => InOrder
  BY DEF Init, InOrder
<1>2. ASSUME TypeOK, Handshake, Ring, InOrder, [Next]_vars PROVE InOrder'
  <2>1. CASE Process
    <3>1. /\ busy[read_idx_] /\ read_idx_ \in Slots /\ c_i \in Nat
          /\ Len(received) = c_i /\ received \in Seq(Nat)
          /\ payload \in [Slots -> Nat]
      BY <1>2, <2>1, MsgNumAssumption DEF Process, Handshake, Ring, TypeOK
    <3>2. payload[read_idx_] = c_i + 1
      BY <1>2, <3>1 DEF Ring, Ahead, Slots
    <3>3. received' = Append(received, c_i + 1)
      BY <2>1, <3>2 DEF Process
    <3>4. QED
      BY <1>2, <3>1, <3>3 DEF InOrder, Message
  <2>2. CASE UNCHANGED received
    BY <1>2, <2>2 DEF InOrder, Message
  <2>3. QED
    BY <1>2, <2>1, <2>2
       DEF Next, Producer, Consumer, vars, consVars, EmplaceWait, Free, EmplaceWrite,
           EmplacePublish, PeekWait, Skip, skipped_node
<1>3. QED
  BY <1>1, <1>2, TypeCorrect, HandshakeHolds, RingHolds, PTL DEF Spec

(* A payload is never written while its message waits to be skipped.       *)
THEOREM NoOverwriteHolds == Spec => NoOverwrite
<1>1. ASSUME TypeOK, Handshake, [Next]_vars
      PROVE  [\A s \in Slots : busy[s] => payload'[s] = payload[s]]_vars
  <2>1. CASE EmplaceWrite
    BY <1>1, <2>1 DEF EmplaceWrite, Handshake, TypeOK
  <2>2. CASE UNCHANGED payload
    BY <2>2
  <2>3. QED
    BY <1>1, <2>1, <2>2
       DEF Next, Producer, Consumer, vars, EmplaceWait, Free, EmplacePublish, PeekWait,
           Process, Skip, skipped_node
<1>2. QED
  BY <1>1, TypeCorrect, HandshakeHolds, PTL DEF Spec, NoOverwrite

-----------------------------------------------------------------------------

(* The messages published so far are exactly 1 .. p_i: those received, and *)
(* behind them those the ring still holds from read_idx_ on.               *)
Counted == Published = [k \in 1 .. p_i |-> k]

LEMMA CountedHolds == Spec => []Counted
<1>1. ASSUME TypeOK, Ring, InOrder PROVE Counted
  <2> USE <1>1, SizeAssumption DEF Occupied
  <2>1. /\ p_i \in Nat /\ c_i \in Nat /\ read_idx_ \in Slots
        /\ received \in Seq(Nat) /\ Len(received) \in {c_i, c_i + 1}
        /\ Occupied \in 0 .. N_
    BY MsgNumAssumption DEF TypeOK, Ring
  <2>2. ASSUME NEW k \in 1 .. p_i
        PROVE  (IF k <= Len(received) THEN received[k]
                   ELSE payload[(read_idx_ + (k - 1 - c_i)) % N_]) = k
    <3>1. CASE k <= Len(received)
      BY <2>1, <3>1 DEF InOrder, Message
    <3>2. CASE ~ (k <= Len(received))
      <4> DEFINE d == k - 1 - c_i
                 slot == IF read_idx_ + d < N_ THEN read_idx_ + d
                                               ELSE read_idx_ + d - N_
      <4>1. d \in Slots /\ d < Occupied
        BY <2>1, <3>2 DEF Slots
      <4>2. (read_idx_ + d) % N_ = slot
        BY <2>1, <4>1, WrapsOnce
      <4>3. slot \in Slots /\ Ahead(slot) = d
        BY <2>1, <4>1 DEF Slots, Ahead
      <4>4. payload[slot] = c_i + d + 1
        BY <4>1, <4>3 DEF Ring
      <4>5. QED
        BY <2>1, <3>2, <4>2, <4>4
    <3>3. QED
      BY <3>1, <3>2
  <2>3. QED
    BY <2>2 DEF Counted, Published
<1>2. QED
  BY <1>1, TypeCorrect, RingHolds, InOrderHolds, PTL

(* The producer holds a free slot only while fewer than N_ messages wait.  *)
LEMMA Room ==
  ASSUME TypeOK, Ring, ~ busy[write_idx_]
  PROVE  Occupied < N_
<1>1. /\ write_idx_ \in Slots /\ read_idx_ \in Slots /\ Occupied \in 0 .. N_
      /\ write_idx_ = read_idx_ + Occupied \/ write_idx_ = read_idx_ + Occupied - N_
  BY DEF TypeOK, Ring
<1>2. Ahead(write_idx_) = IF Occupied = N_ THEN 0 ELSE Occupied
  <2> HIDE DEF Occupied
  <2>1. QED
    BY <1>1, SizeAssumption DEF Ahead, Slots
<1>3. ~ (Ahead(write_idx_) < Occupied)
  BY <1>1 DEF Ring
<1>4. QED
  BY <1>1, <1>2, <1>3, SizeAssumption

(* SPSC1 implements the bounded FIFO: storing the flag publishes a message *)
(* (and there is room for it), processing one delivers the oldest that was *)
(* not delivered yet, and no other step changes either sequence.           *)
THEOREM ImplementsBoundedFifo == Spec => Fifo!Spec
<1>1. ASSUME Init, Counted PROVE Fifo!Init
  BY <1>1 DEF Init, Counted, Fifo!Init
<1>2. ASSUME TypeOK, Handshake, Ring, Counted, Counted', [Next]_vars
      PROVE  [Fifo!Next]_(Fifo!vars)
  <2>1. /\ Published = [k \in 1 .. p_i |-> k]
        /\ Published' = [k \in 1 .. p_i' |-> k]
        /\ p_i \in Nat /\ c_i \in Nat /\ received \in Seq(Nat)
        /\ Len(received) = IF c_pc = "skip" THEN c_i + 1 ELSE c_i
        /\ N_ \in Nat
    BY <1>2, SizeAssumption, MsgNumAssumption DEF Counted, TypeOK, Ring
  <2> HIDE DEF Published
  <2>2. Published \in Seq(Nat) /\ Len(Published) = p_i
    BY <2>1
  <2>3. CASE EmplacePublish
    <3>1. p_i' = p_i + 1 /\ received' = received /\ p_i + 1 \in 1 .. MsgNum
      BY <1>2, <2>1, <2>3, MsgNumAssumption DEF EmplacePublish, consVars, TypeOK
    <3>2. Len(Published) - Len(received) < N_
      <4>1. p_i - c_i < N_
        BY <1>2, <2>3, Room DEF EmplacePublish, Handshake, Occupied
      <4>2. QED
        BY <2>1, <2>2, <4>1
    <3>3. Published' = Append(Published, p_i + 1)
      BY <2>1, <2>2, <3>1
    <3>4. Fifo!Publish(p_i + 1)
      BY <3>1, <3>2, <3>3 DEF Fifo!Publish
    <3>5. QED
      BY <3>1, <3>4 DEF Fifo!Next
  <2>4. CASE Process
    <3>1. /\ busy[read_idx_] /\ read_idx_ \in Slots /\ p_i' = p_i
          /\ Len(received) = c_i
      BY <1>2, <2>1, <2>4 DEF Process, Handshake, TypeOK, prodVars
    <3>2. Ahead(read_idx_) = 0
      BY <3>1, SizeAssumption DEF Ahead, Slots
    <3>3. c_i < p_i /\ payload[read_idx_] = c_i + 1
      BY <1>2, <2>1, <3>1, <3>2 DEF Ring, Occupied
    <3>4. received' = Append(received, Published[Len(received) + 1])
      BY <2>1, <2>4, <3>1, <3>3 DEF Process
    <3>5. Fifo!Deliver
      BY <2>1, <2>2, <3>1, <3>3, <3>4 DEF Fifo!Deliver
    <3>6. QED
      BY <3>5 DEF Fifo!Next
  <2>5. CASE UNCHANGED <<p_i, received>>
    BY <2>1, <2>5 DEF Fifo!vars
  <2>6. QED
    BY <1>2, <2>3, <2>4, <2>5
       DEF Next, Producer, Consumer, vars, prodVars, consVars, EmplaceWait, Free,
           EmplaceWrite, PeekWait, Skip, skipped_node
<1>3. QED
  BY <1>1, <1>2, TypeCorrect, HandshakeHolds, RingHolds, CountedHolds, PTL
     DEF Spec, Fifo!Spec
=============================================================================
