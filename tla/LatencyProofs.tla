---------------------------- MODULE LatencyProofs ----------------------------
(***************************************************************************)
(* Proofs about Latency, for every number of threads, of round trips and   *)
(* every capacity of the queues.                                           *)
(*                                                                         *)
(* Sums over threads are stated as cardinalities.  Barrier: a ready        *)
(* counter is the number of threads behind its increment, so an open       *)
(* barrier has all of them behind it.  Bootstrap: only the first A thread  *)
(* sends without the ball.  Counts: the messages sent and received, trip   *)
(* by trip, against the contents of the queues.  Clock: the start time is  *)
(* stored before the ball is in play.                                      *)
(***************************************************************************)
EXTENDS Latency, Counting, FiniteSetTheorems, TLAPS

Side(s) == {s} \X (0 .. T - 1)

first == <<"a", 0>>

(* Threads of a side that have incremented its ready counter.              *)
Arrived(s) == {t \in Side(s) : pc[t] \notin {"unborn", "begin"}}

(* Threads of a side that have ended.                                      *)
Ended(s) == {t \in Side(s) : pc[t] = "done"}

(* The round trips made by the threads of a side.                          *)
Trips(s) == Turns(Side(s), per_thread_num, i)

BHolders == {t \in BThreads : pc[t] = "send"}

Barrier ==
  /\ \A s \in Sides : ready[s] = Cardinality(Arrived(s))
  /\ \A t \in Threads : pc[t] \notin {"unborn", "begin", "await"} =>
       \A u \in Threads : pc[u] \notin {"unborn", "begin"}

Loops ==
  /\ \A t \in Threads :
       /\ pc[t] \in {"unborn", "begin", "await", "start"} => i[t] = 0
       /\ pc[t] \in {"add", "done"} => i[t] = per_thread_num
       /\ pc[t] = "receive" => i[t] < per_thread_num
  /\ \A t \in BThreads : pc[t] # "start" /\ (pc[t] = "send" => i[t] < per_thread_num)

Bootstrap ==
  /\ \A t \in AThreads : pc[t] = "send" /\ i[t] = 0 => t = first
  /\ sent = 0 <=> \/ pc[first] \in {"unborn", "begin", "await", "start"}
                  \/ pc[first] = "send" /\ i[first] = 0

Clock ==
  /\ \A t \in AThreads : pc[t] = "start" => now[t] # Unset
  /\ start_time = Unset =>
       /\ sent = 0
       /\ \A t \in AThreads : /\ now[t] \in {Unset, 0}
                              /\ pc[t] \in {"unborn", "begin", "await", "start"}

-----------------------------------------------------------------------------
(* Threads, and how many there are.                                        *)

LEMMA PerThread == per_thread_num \in Nat
BY ThreadAssumption, SizeAssumption DEF per_thread_num

LEMMA SideFacts ==
  /\ AThreads = Side("a") /\ BThreads = Side("b")
  /\ Threads = Side("a") \cup Side("b") /\ first \in AThreads
  /\ \A s \in Sides : /\ Side(s) \subseteq Threads
                      /\ \A t \in Side(s) : t[1] = s /\ t = <<t[1], t[2]>> /\ t[2] \in 0 .. T - 1
  /\ \A t \in Threads : t[1] \in Sides /\ t \in Side(t[1])
BY ThreadAssumption DEF AThreads, BThreads, Threads, Side, Sides, first

LEMMA SideSize ==
  ASSUME NEW s \in Sides
  PROVE  IsFiniteSet(Side(s)) /\ Cardinality(Side(s)) = T
<1>1. IsFiniteSet(0 .. T - 1) /\ Cardinality(0 .. T - 1) = T
  BY ThreadAssumption, FS_Interval
<1>2. IsFiniteSet({s}) /\ Cardinality({s}) = 1
  BY FS_Singleton
<1>3. QED
  BY <1>1, <1>2, FS_Product, ThreadAssumption DEF Side

LEMMA AllThreadsFinite == IsFiniteSet(Threads)
BY SideFacts, SideSize, FS_Union DEF Sides

-----------------------------------------------------------------------------
(* Types, the barrier and the loops.                                       *)

Basis == TypeOK /\ Barrier /\ Loops

LEMMA BarrierMeans ==
  ASSUME Basis, BarrierOpen
  PROVE  \A u \in Threads : pc[u] \notin {"unborn", "begin"}
<1>1. SUFFICES ASSUME NEW s \in Sides PROVE Arrived(s) = Side(s)
  BY SideFacts DEF Arrived
<1>2. Arrived(s) \in SUBSET Side(s)
  BY DEF Arrived
<1>3. ready[s] = Cardinality(Arrived(s)) /\ ready[s] >= T
  BY DEF Basis, Barrier, BarrierOpen
<1>4. Cardinality(Arrived(s)) \in 0 .. T
  BY <1>2, SideSize, PartSize
<1>5. QED
  BY <1>2, <1>3, <1>4, SideSize, PartSize, ThreadAssumption

LEMMA BasisInit == Init => Basis
<1> SUFFICES ASSUME Init PROVE Basis
  OBVIOUS
<1>1. TypeOK
  BY ThreadAssumption, SizeAssumption, PerThread
     DEF Init, TypeOK, Threads, AThreads, BThreads, Sides
<1>2. ASSUME NEW s \in Sides PROVE Arrived(s) = {}
  BY SideFacts DEF Init, Arrived
<1>3. Barrier
  BY <1>2, FS_EmptySet DEF Init, Barrier
<1>4. Loops
  BY SideFacts DEF Init, Loops
<1>5. QED
  BY <1>1, <1>3, <1>4 DEF Basis

LEMMA BasisStep == Basis /\ [Next]_vars => Basis'
<1> SUFFICES ASSUME Basis, [Next]_vars PROVE Basis'
  OBVIOUS
<1>t. TypeOK /\ Barrier /\ Loops
  BY DEF Basis
<1> USE SideFacts, PerThread, ThreadAssumption, SizeAssumption
<1>a. ASSUME UNCHANGED ready, \A s \in Sides : Arrived(s)' = Arrived(s)
      PROVE  \A s \in Sides : ready'[s] = Cardinality(Arrived(s)')
  BY <1>a, <1>t DEF Barrier
<1>1. ASSUME NEW t \in Threads, Ready(t) PROVE Basis'
  <2>1. t[1] \in Sides /\ t \in Side(t[1]) /\ t \notin Arrived(t[1]) /\ Arrived(t[1]) \in SUBSET Side(t[1])
    BY <1>1 DEF Ready, Goto, Arrived
  <2>2. Arrived(t[1])' = Arrived(t[1]) \cup {t}
    BY <1>1, <1>t, <2>1 DEF Ready, Goto, Arrived, TypeOK
  <2>3. ASSUME NEW s \in Sides, s # t[1] PROVE Arrived(s)' = Arrived(s)
    BY <1>1, <1>t, <2>3 DEF Ready, Goto, Arrived, TypeOK
  <2>4. /\ Cardinality(Arrived(t[1])') = Cardinality(Arrived(t[1])) + 1
        /\ Cardinality(Arrived(t[1])') \in 0 .. T
    <3>1. Arrived(t[1])' \in SUBSET Side(t[1])
      BY <2>1, <2>2
    <3>2. QED
      BY <2>1, <2>2, <3>1, SideSize, Gain, PartSize
  <2>5. ready' = [ready EXCEPT ![t[1]] = Cardinality(Arrived(t[1])')]
    BY <1>1, <1>t, <2>1, <2>4 DEF Ready, Barrier
  <2>6. TypeOK'
    BY <1>1, <1>t, <2>4, <2>5 DEF Ready, Goto, TypeOK, mainVars, timeVars, queueVars
  <2>7. Barrier'
    <3>1. \A s \in Sides : ready'[s] = Cardinality(Arrived(s)')
      BY <1>t, <2>1, <2>3, <2>5 DEF Barrier, TypeOK
    <3>2. \A u \in Threads : pc'[u] \notin {"unborn", "begin", "await"} =>
            \A v \in Threads : pc'[v] \notin {"unborn", "begin"}
      BY <1>1, <1>t DEF Ready, Goto, Barrier, TypeOK
    <3>3. QED
      BY <3>1, <3>2 DEF Barrier
  <2>8. Loops'
    BY <1>1, <1>t DEF Ready, Goto, Loops, TypeOK
  <2>9. QED
    BY <2>6, <2>7, <2>8 DEF Basis
<1>b. ASSUME NEW t \in Threads, pc[t] \notin {"unborn", "begin"}, UNCHANGED ready,
             NEW to \in {"start", "send", "receive", "add", "done"},
             pc' = [pc EXCEPT ![t] = to],
             pc[t] = "await" => BarrierOpen
      PROVE  Barrier'
  <2>1. ASSUME NEW s \in Sides PROVE Arrived(s)' = Arrived(s)
    BY <1>b, <1>t DEF Arrived, TypeOK
  <2>2. \A u \in Threads : pc[u] \notin {"unborn", "begin"}
    BY <1>b, <1>t, BarrierMeans DEF Barrier, Basis
  <2>3. \A u \in Threads : pc'[u] \notin {"unborn", "begin"}
    BY <1>b, <1>t, <2>2 DEF TypeOK
  <2>4. QED
    BY <1>a, <1>b, <2>1, <2>3 DEF Barrier
<1>2. ASSUME NEW t \in AThreads, ANow(t) PROVE Basis'
  <2>1. TypeOK'
    BY <1>2, <1>t DEF ANow, Goto, TypeOK, mainVars, timeVars, queueVars
  <2>2. Barrier'
    BY <1>2, <1>b DEF ANow, Goto
  <2>3. Loops'
    BY <1>2, <1>t DEF ANow, Goto, Loops, TypeOK, Side
  <2>4. QED
    BY <2>1, <2>2, <2>3 DEF Basis
<1>3. ASSUME NEW t \in AThreads, AStart(t) PROVE Basis'
  <2>1. AHead(t, 0) \in {"send", "add", "receive"}
    BY DEF AHead
  <2>2. TypeOK'
    BY <1>3, <1>t, <2>1 DEF AStart, Exchanged, Goto, TypeOK, mainVars, timeVars, queueVars
  <2>3. Barrier'
    BY <1>3, <1>b, <2>1 DEF AStart, Goto
  <2>4. Loops'
    BY <1>3, <1>t DEF AStart, Goto, Loops, TypeOK, Side, AHead
  <2>5. QED
    BY <2>2, <2>3, <2>4 DEF Basis
<1>4. ASSUME NEW t \in AThreads, ASend(t) PROVE Basis'
  <2>1. t[1] = "a" /\ t \in Threads /\ "a" \in Sides
    BY DEF Sides
  <2>2. TypeOK'
    BY <1>4, <1>t, <2>1 DEF ASend, Send, Goto, TypeOK, mainVars, timeVars
  <2>3. Barrier'
    BY <1>4, <1>b DEF ASend, Goto
  <2>4. Loops'
    BY <1>4, <1>t, SMTT(30) DEF ASend, Goto, Loops, TypeOK, Side
  <2>5. QED
    BY <2>2, <2>3, <2>4 DEF Basis
<1>5. ASSUME NEW t \in AThreads, AReceive(t) PROVE Basis'
  <2>1. Other(t[1]) \in Sides /\ t \in Threads
    BY DEF Sides, Other
  <2>2. i[t] + 1 \in 0 .. per_thread_num /\ AHead(t, i[t] + 1) = "send"
    BY <1>5, <1>t DEF AReceive, Goto, Loops, TypeOK, AHead
  <2>3. TypeOK'
    BY <1>5, <1>t, <2>1, <2>2 DEF AReceive, Receive, Goto, TypeOK, mainVars, timeVars
  <2>4. Barrier'
    BY <1>5, <1>b, <2>2 DEF AReceive, Goto
  <2>5. Loops'
    BY <1>5, <1>t, <2>2 DEF AReceive, Goto, Loops, TypeOK, Side
  <2>6. QED
    BY <2>3, <2>4, <2>5 DEF Basis
<1>6. ASSUME NEW t \in Threads, Add(t) PROVE Basis'
  <2>1. t[1] \in Sides
    OBVIOUS
  <2>2. TypeOK'
    BY <1>6, <1>t, <2>1 DEF Add, Goto, TypeOK, mainVars, timeVars, queueVars
  <2>3. Barrier'
    BY <1>6, <1>b DEF Add, Goto
  <2>4. Loops'
    BY <1>6, <1>t DEF Add, Goto, Loops, TypeOK
  <2>5. QED
    BY <2>2, <2>3, <2>4 DEF Basis
<1>7. ASSUME NEW t \in BThreads, BAwait(t) PROVE Basis'
  <2>1. BHead(0) \in {"receive", "add"}
    BY DEF BHead
  <2>2. TypeOK'
    BY <1>7, <1>t, <2>1 DEF BAwait, Goto, TypeOK, mainVars, timeVars, queueVars
  <2>3. Barrier'
    BY <1>7, <1>b, <2>1 DEF BAwait, Goto
  <2>4. Loops'
    BY <1>7, <1>t DEF BAwait, Goto, Loops, TypeOK, Side, BHead
  <2>5. QED
    BY <2>2, <2>3, <2>4 DEF Basis
<1>8. ASSUME NEW t \in BThreads, BReceive(t) PROVE Basis'
  <2>1. Other(t[1]) \in Sides /\ t \in Threads
    BY DEF Sides, Other
  <2>2. TypeOK'
    BY <1>8, <1>t, <2>1 DEF BReceive, Receive, Goto, TypeOK, mainVars, timeVars
  <2>3. Barrier'
    BY <1>8, <1>b DEF BReceive, Goto
  <2>4. Loops'
    BY <1>8, <1>t DEF BReceive, Goto, Loops, TypeOK, Side
  <2>5. QED
    BY <2>2, <2>3, <2>4 DEF Basis
<1>9. ASSUME NEW t \in BThreads, BSend(t) PROVE Basis'
  <2>1. t[1] = "b" /\ t \in Threads /\ "b" \in Sides
    BY DEF Sides
  <2>2. i[t] + 1 \in 0 .. per_thread_num /\ BHead(i[t] + 1) \in {"receive", "add"}
    BY <1>9, <1>t DEF BSend, Goto, Loops, TypeOK, BHead
  <2>3. TypeOK'
    BY <1>9, <1>t, <2>1, <2>2 DEF BSend, Send, Goto, TypeOK, mainVars, timeVars
  <2>4. Barrier'
    BY <1>9, <1>b, <2>2 DEF BSend, Goto
  <2>5. Loops'
    BY <1>9, <1>t, <2>2 DEF BSend, Goto, Loops, TypeOK, Side, BHead
  <2>6. QED
    BY <2>3, <2>4, <2>5 DEF Basis
<1>10. CASE Spawn
  <2> DEFINE u == <<IF spawned < T THEN "a" ELSE "b", spawned % T>>
  <2>1. u \in Threads /\ pc[u] = "unborn" /\ pc' = [pc EXCEPT ![u] = "begin"]
    BY <1>10, <1>t DEF Spawn, Goto, TypeOK, Threads, AThreads, BThreads
  <2> HIDE DEF u
  <2>2. TypeOK'
    BY <1>10, <1>t, <2>1 DEF Spawn, TypeOK, timeVars, queueVars
  <2>3. ASSUME NEW s \in Sides PROVE Arrived(s)' = Arrived(s)
    BY <1>t, <2>1 DEF Arrived, TypeOK
  <2>4. Barrier'
    <3>1. \A s \in Sides : ready'[s] = Cardinality(Arrived(s)')
      BY <1>10, <1>a, <2>3 DEF Spawn
    <3>2. QED
      BY <1>t, <2>1, <3>1 DEF Barrier, TypeOK
  <2>5. Loops'
    BY <1>10, <1>t, <2>1 DEF Spawn, Loops, TypeOK
  <2>6. QED
    BY <2>2, <2>4, <2>5 DEF Basis
<1>11. CASE JoinAndCheck
  BY <1>11, <1>t DEF JoinAndCheck, Basis, TypeOK, Barrier, Loops, Arrived, timeVars, queueVars
<1>12. CASE UNCHANGED vars
  BY <1>12, <1>t DEF vars, Basis, TypeOK, Barrier, Loops, Arrived, mainVars, timeVars, queueVars
<1>13. QED
  BY <1>1, <1>2, <1>3, <1>4, <1>5, <1>6, <1>7, <1>8, <1>9, <1>10, <1>11, <1>12
     DEF Next, MainStep, AStep, BStep

-----------------------------------------------------------------------------
(* One ball.                                                               *)

Ball == Bootstrap /\ OneBall

LEMMA HoldersPart == Holders \in SUBSET Threads
BY DEF Holders

LEMMA BallInit == Init => Ball
<1> SUFFICES ASSUME Init PROVE Ball
  OBVIOUS
<1>1. Holders = {}
  BY DEF Init, Holders
<1>2. OneBall
  BY <1>1, FS_EmptySet DEF Init, OneBall, Sides
<1>3. Bootstrap
  BY SideFacts DEF Init, Bootstrap
<1>4. QED
  BY <1>2, <1>3 DEF Ball

LEMMA BallStep == Basis /\ Ball /\ [Next]_vars => Ball'
<1> SUFFICES ASSUME Basis, Ball, [Next]_vars PROVE Ball'
  OBVIOUS
<1>t. TypeOK /\ Loops /\ Bootstrap /\ OneBall
  BY DEF Basis, Ball
<1>n. Cardinality(Holders) \in Nat /\ q["a"] \in Nat /\ q["b"] \in Nat /\ sent \in Nat
  BY <1>t, HoldersPart, AllThreadsFinite, FS_Subset, FS_CardinalityType DEF TypeOK, Sides
<1> USE SideFacts, PerThread, ThreadAssumption
<1>a. ASSUME UNCHANGED queueVars, Holders' = Holders PROVE OneBall'
  BY <1>a, <1>t DEF OneBall, queueVars
  (* The ball leaves the hands of t.                                       *)
<1>b. ASSUME NEW t \in Holders, Holders' = Holders \ {t},
             NEW s \in Sides, q' = [q EXCEPT ![s] = @ + 1], sent' = sent + 1
      PROVE  OneBall' /\ sent > 0
  <2>1. /\ Cardinality(Holders) \in Nat \ {0}
        /\ Cardinality(Holders') = Cardinality(Holders) - 1
    BY <1>b, HoldersPart, AllThreadsFinite, Lose
  <2>2. q'["a"] + q'["b"] = q["a"] + q["b"] + 1
    BY <1>b, <1>t, <1>n DEF TypeOK, Sides
  <2>3. q["a"] + q["b"] + Cardinality(Holders) = IF sent > 0 THEN 1 ELSE 0
    BY <1>t DEF OneBall
  <2>4. sent > 0
    BY <1>n, <2>1, <2>3
  <2>5. q'["a"] \in Nat /\ q'["b"] \in Nat
    BY <1>b, <1>t, <1>n DEF TypeOK, Sides
  <2>6. QED
    BY <1>b, <1>n, <2>1, <2>2, <2>3, <2>4, <2>5 DEF OneBall
  (* The ball comes into the hands of t.                                   *)
<1>c. ASSUME NEW t \in Threads, t \notin Holders, Holders' = Holders \cup {t},
             NEW s \in Sides, q[s] > 0, q' = [q EXCEPT ![s] = @ - 1], UNCHANGED sent
      PROVE  OneBall' /\ sent > 0
  <2>1. Cardinality(Holders') = Cardinality(Holders) + 1
    BY <1>c, HoldersPart, AllThreadsFinite, Gain
  <2>2. q'["a"] + q'["b"] = q["a"] + q["b"] - 1
    BY <1>c, <1>t, <1>n DEF TypeOK, Sides
  <2>3. q["a"] + q["b"] + Cardinality(Holders) = IF sent > 0 THEN 1 ELSE 0
    BY <1>t DEF OneBall
  <2>4. sent > 0
    <3>1. q["a"] > 0 \/ q["b"] > 0
      BY <1>c DEF Sides
    <3>2. QED
      BY <1>n, <2>3, <3>1
  <2>5. q'["a"] \in Nat /\ q'["b"] \in Nat
    BY <1>c, <1>t, <1>n DEF TypeOK, Sides
  <2>6. QED
    BY <1>c, <1>n, <2>1, <2>2, <2>3, <2>4, <2>5 DEF OneBall
<1>1. ASSUME NEW t \in Threads, Ready(t) PROVE Ball'
  <2>1. Holders' = Holders
    BY <1>1, <1>t DEF Ready, Goto, Holders, TypeOK
  <2>2. Bootstrap'
    BY <1>1, <1>t DEF Ready, Goto, Bootstrap, TypeOK, queueVars
  <2>3. QED
    BY <1>1, <1>a, <2>1, <2>2 DEF Ready, Ball
<1>2. ASSUME NEW t \in AThreads, ANow(t) PROVE Ball'
  <2>1. Holders' = Holders
    BY <1>2, <1>t DEF ANow, Goto, Holders, TypeOK
  <2>2. Bootstrap'
    BY <1>2, <1>t DEF ANow, Goto, Bootstrap, TypeOK, queueVars
  <2>3. QED
    BY <1>2, <1>a, <2>1, <2>2 DEF ANow, Ball
<1>3. ASSUME NEW t \in AThreads, AStart(t) PROVE Ball'
  <2>1. t[1] = "a" /\ i[t] = 0 /\ t \in Threads /\ pc[t] = "start" /\ (t[2] = 0 => t = first)
    BY <1>3, <1>t DEF AStart, Goto, Loops, first, Sides
  <2>2. Holders' = Holders
    BY <1>3, <1>t, <2>1 DEF AStart, Goto, Holders, TypeOK
  <2>3. Bootstrap'
    <3>1. \A u \in AThreads : pc'[u] = "send" /\ i'[u] = 0 => u = first
      BY <1>3, <1>t, <2>1 DEF AStart, AHead, Goto, Bootstrap, TypeOK
    <3>2. t = first => pc'[first] = "send" /\ i'[first] = 0
      BY <1>3, <1>t, <2>1 DEF AStart, AHead, Goto, TypeOK, first
    <3>3. t # first => pc'[first] = pc[first] /\ i'[first] = i[first]
      BY <1>3, <1>t, <2>1 DEF AStart, Goto, TypeOK
    <3>4. UNCHANGED sent
      BY <1>3 DEF AStart, queueVars
    <3>5. QED
      BY <1>t, <2>1, <3>1, <3>2, <3>3, <3>4 DEF Bootstrap
  <2>4. QED
    BY <1>3, <1>a, <2>2, <2>3 DEF AStart, Ball
<1>4. ASSUME NEW t \in AThreads, ASend(t) PROVE Ball'
  <2>1. /\ t[1] = "a" /\ t \in Threads /\ "a" \in Sides /\ i[t] \in Nat /\ pc[t] = "send"
        /\ UNCHANGED i /\ sent' = sent + 1 /\ q' = [q EXCEPT !["a"] = @ + 1]
    <3>1. t[1] = "a" /\ t \in Threads /\ "a" \in Sides
      BY DEF Sides
    <3>2. i[t] \in Nat
      BY <1>t, <3>1 DEF TypeOK
    <3>3. QED
      BY <1>4, <3>1, <3>2 DEF ASend, Send, Goto
  <2>2. PICK to \in {"add", "receive"} : pc' = [pc EXCEPT ![t] = to]
    BY <1>4 DEF ASend, Goto
  <2>3. OneBall' /\ (i[t] > 0 => sent > 0)
    <3>1. CASE i[t] > 0
      <4>1. t \in Holders /\ Holders' = Holders \ {t}
        BY <1>t, <2>1, <2>2, <3>1 DEF Holders, TypeOK
      <4>2. QED
        BY <1>b, <2>1, <4>1
    <3>2. CASE i[t] = 0
      <4>1. t = first /\ sent = 0
        BY <1>t, <2>1, <3>2 DEF Bootstrap
      <4>2. Holders' = Holders
        BY <1>t, <2>1, <2>2, <3>2 DEF Holders, TypeOK
      <4>3. q["a"] + q["b"] + Cardinality(Holders) = 0
        BY <1>t, <4>1 DEF OneBall
      <4>4. q'["a"] = q["a"] + 1 /\ q'["b"] = q["b"]
        BY <1>t, <2>1 DEF TypeOK, Sides
      <4>5. QED
        BY <1>n, <2>1, <3>2, <4>1, <4>2, <4>3, <4>4 DEF OneBall
    <3>3. QED
      BY <2>1, <3>1, <3>2
  <2>4. Bootstrap'
    <3>1. \A u \in AThreads : pc'[u] = "send" /\ i'[u] = 0 => u = first
      BY <1>t, <2>1, <2>2 DEF Bootstrap, TypeOK
    <3>2. t = first => pc'[first] \in {"add", "receive"}
      BY <1>t, <2>1, <2>2 DEF TypeOK
    <3>3. t # first => pc'[first] = pc[first] /\ i'[first] = i[first] /\ sent > 0
      BY <1>t, <2>1, <2>2, <2>3 DEF Bootstrap, TypeOK
    <3>4. QED
      BY <1>t, <1>n, <2>1, <3>1, <3>2, <3>3 DEF Bootstrap
  <2>5. QED
    BY <2>3, <2>4 DEF Ball
<1>5. ASSUME NEW t \in AThreads, AReceive(t) PROVE Ball'
  <2>1. /\ t[1] = "a" /\ t \in Threads /\ Other(t[1]) \in Sides /\ i[t] \in Nat /\ pc[t] = "receive"
        /\ UNCHANGED sent /\ q[Other(t[1])] > 0 /\ q' = [q EXCEPT ![Other(t[1])] = @ - 1]
    BY <1>5, <1>t DEF Sides, Other, TypeOK, AReceive, Receive, Goto
  <2>2. pc' = [pc EXCEPT ![t] = "send"] /\ i' = [i EXCEPT ![t] = @ + 1]
    <3>1. AHead(t, i[t] + 1) = "send"
      BY <2>1 DEF AHead
    <3>2. QED
      BY <1>5, <3>1 DEF AReceive, Goto
  <2>3. t \notin Holders /\ Holders' = Holders \cup {t}
    BY <1>t, <2>1, <2>2 DEF Holders, TypeOK
  <2>4. OneBall' /\ sent > 0
    BY <1>c, <2>1, <2>3
  <2>5. Bootstrap'
    <3>1. i'[t] = i[t] + 1 /\ pc'[t] = "send"
      BY <1>t, <2>1, <2>2 DEF TypeOK
    <3>2. \A u \in Threads : u # t => i'[u] = i[u] /\ pc'[u] = pc[u]
      BY <1>t, <2>2 DEF TypeOK
    <3>3. QED
      BY <1>t, <2>1, <2>4, <3>1, <3>2 DEF Bootstrap
  <2>6. QED
    BY <2>4, <2>5 DEF Ball
<1>6. ASSUME NEW t \in Threads, Add(t) PROVE Ball'
  <2>1. Holders' = Holders
    BY <1>6, <1>t DEF Add, Goto, Holders, TypeOK
  <2>2. Bootstrap'
    BY <1>6, <1>t DEF Add, Goto, Bootstrap, TypeOK, queueVars
  <2>3. QED
    BY <1>6, <1>a, <2>1, <2>2 DEF Add, Ball
<1>7. ASSUME NEW t \in BThreads, BAwait(t) PROVE Ball'
  <2>1. Holders' = Holders
    BY <1>7, <1>t DEF BAwait, BHead, Goto, Holders, TypeOK
  <2>2. Bootstrap'
    BY <1>7, <1>t DEF BAwait, BHead, Goto, Bootstrap, TypeOK, queueVars, first, Side
  <2>3. QED
    BY <1>7, <1>a, <2>1, <2>2 DEF BAwait, Ball
<1>8. ASSUME NEW t \in BThreads, BReceive(t) PROVE Ball'
  <2>1. /\ t[1] = "b" /\ t \in Threads /\ Other(t[1]) \in Sides /\ pc[t] = "receive"
        /\ UNCHANGED sent /\ q[Other(t[1])] > 0 /\ q' = [q EXCEPT ![Other(t[1])] = @ - 1]
    BY <1>8, <1>t DEF Sides, Other, TypeOK, BReceive, Receive, Goto
  <2>2. t \notin Holders /\ Holders' = Holders \cup {t}
    BY <1>8, <1>t, <2>1 DEF BReceive, Goto, Holders, TypeOK
  <2>3. OneBall'
    BY <1>c, <2>1, <2>2
  <2>4. Bootstrap'
    BY <1>8, <1>t, <2>1 DEF BReceive, Goto, Bootstrap, TypeOK, first, Side
  <2>5. QED
    BY <2>3, <2>4 DEF Ball
<1>9. ASSUME NEW t \in BThreads, BSend(t) PROVE Ball'
  <2>1. /\ t[1] = "b" /\ t \in Threads /\ "b" \in Sides /\ pc[t] = "send"
        /\ sent' = sent + 1 /\ q' = [q EXCEPT !["b"] = @ + 1]
    BY <1>9, <1>t DEF Sides, TypeOK, BSend, Send, Goto
  <2>2. PICK to \in {"add", "receive"} : pc' = [pc EXCEPT ![t] = to]
    BY <1>9 DEF BSend, BHead, Goto
  <2>3. t \in Holders /\ Holders' = Holders \ {t}
    BY <1>9, <1>t, <2>1, <2>2 DEF BSend, Holders, TypeOK
  <2>4. OneBall' /\ sent > 0
    BY <1>b, <2>1, <2>3
  <2>5. Bootstrap'
    <3>1. \A u \in AThreads : pc'[u] = pc[u] /\ i'[u] = i[u]
      BY <1>9, <1>t, <2>2 DEF BSend, TypeOK, Side
    <3>2. QED
      BY <1>t, <1>n, <2>1, <2>4, <3>1 DEF Bootstrap
  <2>6. QED
    BY <2>4, <2>5 DEF Ball
<1>10. CASE Spawn
  <2> DEFINE u == <<IF spawned < T THEN "a" ELSE "b", spawned % T>>
  <2>1. u \in Threads /\ pc[u] = "unborn" /\ pc' = [pc EXCEPT ![u] = "begin"]
    BY <1>10, <1>t DEF Spawn, Goto, TypeOK, Threads, AThreads, BThreads
  <2> HIDE DEF u
  <2>2. Holders' = Holders
    BY <1>10, <1>t, <2>1 DEF Spawn, Holders, TypeOK
  <2>3. Bootstrap'
    BY <1>10, <1>t, <2>1 DEF Spawn, Bootstrap, TypeOK, queueVars
  <2>4. QED
    BY <1>10, <1>a, <2>2, <2>3 DEF Spawn, Ball
<1>11. CASE JoinAndCheck
  BY <1>11, <1>t DEF JoinAndCheck, Ball, Bootstrap, OneBall, Holders, queueVars
<1>12. CASE UNCHANGED vars
  BY <1>12, <1>t DEF vars, Ball, Bootstrap, OneBall, Holders, queueVars
<1>13. QED
  BY <1>1, <1>2, <1>3, <1>4, <1>5, <1>6, <1>7, <1>8, <1>9, <1>10, <1>11, <1>12
     DEF Next, MainStep, AStep, BStep

-----------------------------------------------------------------------------
(* The books.                                                              *)

LEMMA OneTripMore ==
  ASSUME TypeOK, NEW s \in Sides, NEW t \in Side(s), i[t] < per_thread_num,
         i' = [i EXCEPT ![t] = @ + 1]
  PROVE  /\ Cardinality(Trips(s)') = Cardinality(Trips(s)) + 1
         /\ \A r \in Sides : r # s => Cardinality(Trips(r)') = Cardinality(Trips(r))
<1>1. t \in Threads /\ i[t] \in Nat /\ i'[t] = i[t] + 1 /\ \A u \in Threads : u # t => i'[u] = i[u]
  BY SideFacts, PerThread DEF TypeOK
<1>2. \A u \in Side(s) : u # t => i'[u] = i[u]
  BY <1>1, SideFacts
<1>3. IsFiniteSet(Side(s))
  BY SideSize
<1>4. Cardinality(Turns(Side(s), per_thread_num, i')) = Cardinality(Turns(Side(s), per_thread_num, i)) + 1
  <2>1. t \in Side(s) /\ i[t] \in Nat /\ i[t] < per_thread_num /\ i'[t] = i[t] + 1
    BY <1>1
  <2>2. QED
    BY <1>2, <1>3, <2>1, PerThread, OneTurnMore, ZenonT(60)
<1>5. ASSUME NEW r \in Sides, r # s PROVE Trips(r)' = Trips(r)
  <2>1. \A u \in Side(r) : u \in Threads /\ u # t
    BY <1>5, SideFacts
  <2>2. \A u \in Side(r) : i'[u] = i[u]
    BY <1>1, <2>1
  <2>3. QED
    BY <2>2 DEF Trips, Turns
<1>6. QED
  BY <1>4, <1>5 DEF Trips

LEMMA OneMoreProduct ==
  ASSUME NEW n \in Nat, NEW c \in Nat
  PROVE  n * (c + 1) = n * c + n
OBVIOUS

Counts ==
  /\ q["b"] + Cardinality(Trips("a")) = Cardinality(Trips("b"))
  /\ sent = Cardinality(Trips("a")) + Cardinality(Trips("b"))
              + Cardinality(BHolders) + q["a"] + q["b"]

Totals == \A s \in Sides : total[s] = per_thread_num * Cardinality(Ended(s))

Over == main = "running" \/ (main = "returned" /\ AllDone)

Bounds ==
  /\ Cardinality(Trips("a")) \in 0 .. T * per_thread_num
  /\ Cardinality(Trips("b")) \in 0 .. T * per_thread_num
  /\ Cardinality(BHolders) \in Nat
  /\ q["a"] \in Nat /\ q["b"] \in Nat /\ sent \in Nat

LEMMA InBounds == TypeOK => Bounds
<1>1. ASSUME NEW s \in Sides PROVE Cardinality(Trips(s)) \in 0 .. T * per_thread_num
  BY SideSize, PerThread, TurnsBound DEF Trips
<1>2. BHolders \in SUBSET Threads
  BY SideFacts DEF BHolders
<1>3. Cardinality(BHolders) \in Nat
  BY <1>2, AllThreadsFinite, PartSize, FS_Subset, FS_CardinalityType
<1>4. QED
  BY <1>1, <1>3 DEF Bounds, TypeOK, Sides

LEMMA BooksInit == Init => Counts /\ Totals /\ Over
<1> SUFFICES ASSUME Init PROVE Counts /\ Totals /\ Over
  OBVIOUS
<1>1. ASSUME NEW s \in Sides PROVE Cardinality(Trips(s)) = 0 /\ Ended(s) = {}
  <2>1. \A t \in Side(s) : i[t] = 0 /\ pc[t] # "done"
    BY SideFacts DEF Init
  <2>2. Cardinality(Turns(Side(s), per_thread_num, i)) = 0
    BY <2>1, PerThread, NoTurns
  <2>3. QED
    BY <2>1, <2>2 DEF Trips, Ended
<1>2. BHolders = {}
  BY SideFacts DEF Init, BHolders
<1>3. /\ Cardinality(Trips("a")) = 0 /\ Cardinality(Trips("b")) = 0
      /\ q["a"] = 0 /\ q["b"] = 0 /\ sent = 0
  BY <1>1 DEF Sides, Init
<1>4. Counts
  BY <1>2, <1>3, FS_EmptySet DEF Counts
<1>5. Totals
  <2>1. \A s \in Sides : total[s] = 0 /\ Cardinality(Ended(s)) = 0
    BY <1>1, FS_EmptySet DEF Init
  <2>2. QED
    BY <2>1, PerThread DEF Totals
<1>6. QED
  BY <1>4, <1>5 DEF Init, Over

LEMMA CountsStep == Basis /\ Counts /\ [Next]_vars => Counts'
<1> SUFFICES ASSUME Basis, Counts, [Next]_vars PROVE Counts'
  OBVIOUS
<1>t. TypeOK /\ Loops /\ Bounds
  BY InBounds DEF Basis
<1> USE SideFacts, PerThread
<1>s. "a" \in Sides /\ "b" \in Sides /\ "a" # "b"
  BY DEF Sides
<1>a. ASSUME UNCHANGED <<i, queueVars>>, BHolders' = BHolders PROVE Counts'
  BY <1>a DEF Counts, Trips, queueVars
<1>b. ASSUME NEW t \in Threads, NEW to, pc' = [pc EXCEPT ![t] = to],
             t \in BThreads => pc[t] # "send" /\ to # "send"
      PROVE  BHolders' = BHolders
  BY <1>b, <1>t DEF BHolders, TypeOK
<1>1. ASSUME NEW t \in Threads, Ready(t) PROVE Counts'
  BY <1>1, <1>a, <1>b DEF Ready, Goto
<1>2. ASSUME NEW t \in AThreads, ANow(t) PROVE Counts'
  BY <1>2, <1>a, <1>b DEF ANow, Goto
<1>3. ASSUME NEW t \in AThreads, AStart(t) PROVE Counts'
  <2>1. t \in Threads /\ t \notin BThreads
    BY <1>s
  <2>2. BHolders' = BHolders
    BY <1>3, <1>b, <2>1 DEF AStart, Goto
  <2>3. QED
    BY <1>3, <1>a, <2>2 DEF AStart
<1>4. ASSUME NEW t \in AThreads, ASend(t) PROVE Counts'
  <2>1. t \in Threads /\ t \notin BThreads /\ t[1] = "a"
    BY <1>s
  <2>2. BHolders' = BHolders
    <3>1. PICK to \in {"add", "receive"} : pc' = [pc EXCEPT ![t] = to]
      BY <1>4 DEF ASend, Goto
    <3>2. QED
      BY <1>t, <2>1, <3>1 DEF BHolders, TypeOK
  <2>3. q'["a"] = q["a"] + 1 /\ q'["b"] = q["b"] /\ sent' = sent + 1
    BY <1>4, <1>t, <1>s, <2>1 DEF ASend, Send, TypeOK
  <2>4. Trips("a")' = Trips("a") /\ Trips("b")' = Trips("b")
    BY <1>4 DEF ASend, Trips
  <2>5. QED
    BY <1>t, <2>2, <2>3, <2>4 DEF Counts, Bounds
<1>5. ASSUME NEW t \in AThreads, AReceive(t) PROVE Counts'
  <2>1. t \in Threads /\ t \notin BThreads /\ Other(t[1]) = "b"
    BY <1>s DEF Other
  <2>2. BHolders' = BHolders
    <3>1. pc' = [pc EXCEPT ![t] = AHead(t, i[t] + 1)]
      BY <1>5 DEF AReceive, Goto
    <3>2. QED
      BY <1>t, <2>1, <3>1 DEF BHolders, TypeOK
  <2>3. q'["a"] = q["a"] /\ q'["b"] = q["b"] - 1 /\ sent' = sent
    BY <1>5, <1>t, <1>s, <2>1 DEF AReceive, Receive, TypeOK
  <2>4. i[t] < per_thread_num /\ i' = [i EXCEPT ![t] = @ + 1]
    BY <1>5, <1>t DEF AReceive, Goto, Loops
  <2>5. /\ Cardinality(Trips("a")') = Cardinality(Trips("a")) + 1
        /\ Cardinality(Trips("b")') = Cardinality(Trips("b"))
    BY <1>t, <1>s, <2>4, OneTripMore
  <2>6. QED
    BY <1>t, <2>2, <2>3, <2>5 DEF Counts, Bounds
<1>6. ASSUME NEW t \in Threads, Add(t) PROVE Counts'
  BY <1>6, <1>a, <1>b DEF Add, Goto
<1>7. ASSUME NEW t \in BThreads, BAwait(t) PROVE Counts'
  <2>1. BHolders' = BHolders
    BY <1>7, <1>b DEF BAwait, BHead, Goto
  <2>2. QED
    BY <1>7, <1>a, <2>1 DEF BAwait
<1>8. ASSUME NEW t \in BThreads, BReceive(t) PROVE Counts'
  <2>1. t \in Threads /\ Other(t[1]) = "a"
    BY <1>s DEF Other
  <2>2. q'["a"] = q["a"] - 1 /\ q'["b"] = q["b"] /\ sent' = sent
    BY <1>8, <1>t, <1>s, <2>1 DEF BReceive, Receive, TypeOK
  <2>3. t \in Side("b") /\ t \notin BHolders /\ BHolders \in SUBSET Side("b")
    BY <1>8 DEF BReceive, Goto, BHolders
  <2>4. BHolders' = BHolders \cup {t}
    BY <1>8, <1>t DEF BReceive, Goto, BHolders, TypeOK
  <2>5. Cardinality(BHolders') = Cardinality(BHolders) + 1
    BY <1>s, <2>3, <2>4, SideSize, Gain
  <2>6. /\ Cardinality(Trips("a")') = Cardinality(Trips("a"))
        /\ Cardinality(Trips("b")') = Cardinality(Trips("b"))
    BY <1>8 DEF BReceive, Trips
  <2>7. q'["b"] + Cardinality(Trips("a")') = Cardinality(Trips("b")')
    BY <1>t, <2>2, <2>6 DEF Counts, Bounds
  <2>8. sent' = Cardinality(Trips("a")') + Cardinality(Trips("b")')
                  + Cardinality(BHolders') + q'["a"] + q'["b"]
    BY <1>t, <2>2, <2>5, <2>6 DEF Counts, Bounds
  <2>9. QED
    BY <2>7, <2>8 DEF Counts
<1>9. ASSUME NEW t \in BThreads, BSend(t) PROVE Counts'
  <2>1. t \in Threads /\ t[1] = "b" /\ pc[t] = "send"
    BY <1>9, <1>s DEF BSend, Goto
  <2>2. q'["a"] = q["a"] /\ q'["b"] = q["b"] + 1 /\ sent' = sent + 1
    BY <1>9, <1>t, <1>s, <2>1 DEF BSend, Send, TypeOK
  <2>3. t \in BHolders /\ BHolders \in SUBSET Side("b")
    BY <2>1 DEF BHolders
  <2>4. PICK to \in {"add", "receive"} : pc' = [pc EXCEPT ![t] = to]
    BY <1>9 DEF BSend, BHead, Goto
  <2>5. BHolders' = BHolders \ {t}
    BY <1>t, <2>1, <2>4 DEF BHolders, TypeOK
  <2>6. Cardinality(BHolders') = Cardinality(BHolders) - 1
    BY <1>s, <2>3, <2>5, SideSize, Lose
  <2>7. i[t] < per_thread_num /\ i' = [i EXCEPT ![t] = @ + 1]
    BY <1>9, <1>t, <2>1 DEF BSend, Goto, Loops
  <2>8. /\ Cardinality(Trips("b")') = Cardinality(Trips("b")) + 1
        /\ Cardinality(Trips("a")') = Cardinality(Trips("a"))
    BY <1>t, <1>s, <2>7, OneTripMore
  <2>9. QED
    BY <1>t, <2>2, <2>6, <2>8 DEF Counts, Bounds
<1>10. CASE Spawn
  <2> DEFINE u == <<IF spawned < T THEN "a" ELSE "b", spawned % T>>
  <2>1. pc[u] = "unborn" /\ pc' = [pc EXCEPT ![u] = "begin"]
    BY <1>10 DEF Spawn, Goto
  <2> HIDE DEF u
  <2>2. BHolders' = BHolders
    BY <1>t, <2>1 DEF BHolders, TypeOK
  <2>3. QED
    BY <1>10, <1>a, <2>2 DEF Spawn
<1>11. CASE JoinAndCheck
  BY <1>11, <1>a DEF JoinAndCheck, BHolders
<1>12. CASE UNCHANGED vars
  BY <1>12, <1>a DEF vars, BHolders
<1>13. QED
  BY <1>1, <1>2, <1>3, <1>4, <1>5, <1>6, <1>7, <1>8, <1>9, <1>10, <1>11, <1>12
     DEF Next, MainStep, AStep, BStep

LEMMA TotalsStep == Basis /\ Totals /\ [Next]_vars => Totals'
<1> SUFFICES ASSUME Basis, Totals, [Next]_vars PROVE Totals'
  OBVIOUS
<1>t. TypeOK /\ Loops
  BY DEF Basis
<1> USE SideFacts, PerThread
<1>a. ASSUME UNCHANGED total, \A t \in Threads : pc'[t] = "done" <=> pc[t] = "done"
      PROVE  Totals'
  BY <1>a DEF Totals, Ended
<1>b. ASSUME NEW t \in Threads, UNCHANGED total, pc[t] # "done",
             NEW to \in {"begin", "await", "start", "send", "receive", "add"},
             pc' = [pc EXCEPT ![t] = to]
      PROVE  Totals'
  BY <1>a, <1>b, <1>t DEF TypeOK
<1>1. ASSUME NEW t \in Threads, Ready(t) PROVE Totals'
  BY <1>1, <1>b DEF Ready, Goto
<1>2. ASSUME NEW t \in AThreads, ANow(t) PROVE Totals'
  BY <1>2, <1>b DEF ANow, Goto
<1>3. ASSUME NEW t \in AThreads, AStart(t) PROVE Totals'
  BY <1>3, <1>b DEF AStart, AHead, Goto
<1>4. ASSUME NEW t \in AThreads, ASend(t) PROVE Totals'
  BY <1>4, <1>b DEF ASend, Goto
<1>5. ASSUME NEW t \in AThreads, AReceive(t) PROVE Totals'
  BY <1>5, <1>b DEF AReceive, AHead, Goto
<1>6. ASSUME NEW t \in Threads, Add(t) PROVE Totals'
  <2>1. /\ t[1] \in Sides /\ t \in Side(t[1]) /\ t \notin Ended(t[1])
        /\ i[t] = per_thread_num
    BY <1>6, <1>t DEF Add, Goto, Ended, Loops
  <2>2. Ended(t[1])' = Ended(t[1]) \cup {t}
    BY <1>6, <1>t, <2>1 DEF Add, Goto, Ended, TypeOK
  <2>3. Ended(t[1]) \in SUBSET Side(t[1])
    BY DEF Ended
  <2>4. /\ Cardinality(Ended(t[1])) \in Nat
        /\ Cardinality(Ended(t[1])') = Cardinality(Ended(t[1])) + 1
    BY <2>1, <2>2, <2>3, SideSize, Gain
  <2>5. ASSUME NEW s \in Sides, s # t[1] PROVE Ended(s)' = Ended(s)
    BY <1>6, <1>t, <2>5 DEF Add, Goto, Ended, TypeOK
  <2>6. total' = [total EXCEPT ![t[1]] = @ + per_thread_num]
    BY <1>6, <2>1 DEF Add
  <2>7. per_thread_num * Cardinality(Ended(t[1])') = total[t[1]] + per_thread_num
    BY <2>1, <2>4, OneMoreProduct DEF Totals
  <2>8. QED
    BY <1>t, <2>1, <2>5, <2>6, <2>7 DEF Totals, TypeOK
<1>7. ASSUME NEW t \in BThreads, BAwait(t) PROVE Totals'
  BY <1>7, <1>b DEF BAwait, BHead, Goto
<1>8. ASSUME NEW t \in BThreads, BReceive(t) PROVE Totals'
  BY <1>8, <1>b DEF BReceive, Goto
<1>9. ASSUME NEW t \in BThreads, BSend(t) PROVE Totals'
  BY <1>9, <1>b DEF BSend, BHead, Goto
<1>10. CASE Spawn
  <2> DEFINE u == <<IF spawned < T THEN "a" ELSE "b", spawned % T>>
  <2>1. pc[u] = "unborn" /\ pc' = [pc EXCEPT ![u] = "begin"]
    BY <1>10 DEF Spawn, Goto
  <2> HIDE DEF u
  <2>2. \A t \in Threads : pc'[t] = "done" <=> pc[t] = "done"
    BY <1>t, <2>1 DEF TypeOK
  <2>3. QED
    BY <1>10, <1>a, <2>2 DEF Spawn
<1>11. CASE JoinAndCheck
  BY <1>11, <1>a DEF JoinAndCheck
<1>12. CASE UNCHANGED vars
  BY <1>12, <1>a DEF vars
<1>13. QED
  BY <1>1, <1>2, <1>3, <1>4, <1>5, <1>6, <1>7, <1>8, <1>9, <1>10, <1>11, <1>12
     DEF Next, MainStep, AStep, BStep

LEMMA AllTotals ==
  ASSUME TypeOK, Totals, AllDone
  PROVE  \A s \in Sides : total[s] = per_thread_num * T
<1>1. ASSUME NEW s \in Sides PROVE Ended(s) = Side(s)
  BY SideFacts DEF AllDone, Ended
<1>2. QED
  BY <1>1, SideSize DEF Totals

LEMMA OverStep == Basis /\ Totals /\ Over /\ [Next]_vars => Over'
<1> SUFFICES ASSUME Basis, Totals, Over, [Next]_vars PROVE Over'
  OBVIOUS
<1>t. TypeOK
  BY DEF Basis
<1>1. ASSUME NEW t \in Threads, pc[t] # "done", UNCHANGED main PROVE Over'
  BY <1>1 DEF Over, AllDone
<1>2. ASSUME NEW t \in Threads, Ready(t) \/ Add(t) PROVE Over'
  BY <1>1, <1>2 DEF Ready, Add, Goto, mainVars
<1>3. ASSUME NEW t \in AThreads, AStep(t) PROVE Over'
  BY <1>1, <1>2, <1>3, SideFacts DEF AStep, ANow, AStart, ASend, AReceive, Goto, mainVars
<1>4. ASSUME NEW t \in BThreads, BStep(t) PROVE Over'
  BY <1>1, <1>2, <1>4, SideFacts DEF BStep, BAwait, BReceive, BSend, Goto, mainVars
<1>5. CASE Spawn
  <2> DEFINE u == <<IF spawned < T THEN "a" ELSE "b", spawned % T>>
  <2>1. u \in Threads /\ pc[u] = "unborn" /\ UNCHANGED main
    BY <1>5, <1>t, ThreadAssumption DEF Spawn, Goto, TypeOK, Threads, AThreads, BThreads
  <2> HIDE DEF u
  <2>2. QED
    BY <1>1, <2>1
<1>6. CASE JoinAndCheck
  <2>1. total["a"] = total["b"]
    BY <1>6, <1>t, AllTotals DEF JoinAndCheck, Sides
  <2>2. QED
    BY <1>6, <2>1 DEF JoinAndCheck, Over, AllDone
<1>7. CASE UNCHANGED vars
  BY <1>7 DEF vars, mainVars, Over, AllDone
<1>8. QED
  BY <1>3, <1>4, <1>5, <1>6, <1>7 DEF Next, MainStep

-----------------------------------------------------------------------------
(* The clock.                                                              *)

LEMMA ClockInit == Init => Clock
BY SideFacts DEF Init, Clock, Unset

(* A thread that sends has the ball, or the clock has been started.        *)
LEMMA SendersAfterClock ==
  ASSUME TypeOK, OneBall, Clock, NEW t \in Threads, pc[t] \in {"send", "receive"},
         pc[t] = "receive" => q[Other(t[1])] > 0
  PROVE  start_time # Unset
<1>1. Cardinality(Holders) \in Nat /\ q["a"] \in Nat /\ q["b"] \in Nat /\ sent \in Nat
  BY HoldersPart, AllThreadsFinite, FS_Subset, FS_CardinalityType DEF TypeOK, Sides
<1>2. CASE t \in AThreads
  BY <1>2 DEF Clock
<1>3. CASE t \in BThreads
  <2>1. sent > 0
    <3>1. CASE pc[t] = "send"
      <4>1. t \in Holders
        BY <1>3, <3>1, SideFacts, ThreadAssumption DEF Holders, Sides
      <4>2. Cardinality(Holders) # 0
        BY <4>1, HoldersPart, AllThreadsFinite, Lose
      <4>3. QED
        BY <1>1, <4>2 DEF OneBall
    <3>2. CASE pc[t] = "receive"
      <4>1. q["a"] > 0 \/ q["b"] > 0
        BY <3>2 DEF Other
      <4>2. QED
        BY <1>1, <4>1 DEF OneBall
    <3>3. QED
      BY <3>1, <3>2
  <2>2. QED
    BY <1>1, <2>1 DEF Clock
<1>4. QED
  BY <1>2, <1>3, SideFacts

LEMMA ClockStep == Basis /\ OneBall /\ Clock /\ [Next]_vars => Clock'
<1> SUFFICES ASSUME Basis, OneBall, Clock, [Next]_vars PROVE Clock'
  OBVIOUS
<1>t. TypeOK
  BY DEF Basis
<1> USE SideFacts
<1>0. \A t \in AThreads : t \in Threads
  OBVIOUS
  (* Steps that touch neither the clock nor the ball.                      *)
<1>a. ASSUME UNCHANGED <<timeVars, sent>>,
             \A t \in AThreads : pc'[t] = "start" => pc[t] = "start",
             start_time = Unset => \A t \in AThreads :
               pc[t] \in {"unborn", "begin", "await", "start"}
                 => pc'[t] \in {"unborn", "begin", "await", "start"}
      PROVE  Clock'
  BY <1>a DEF Clock, timeVars
<1>1. ASSUME NEW t \in Threads, Ready(t) PROVE Clock'
  BY <1>0, <1>1, <1>a, <1>t DEF Ready, Goto, TypeOK, queueVars
<1>2. ASSUME NEW t \in AThreads, ANow(t) PROVE Clock'
  BY <1>0, <1>2, <1>t DEF ANow, Goto, TypeOK, Clock, queueVars, Unset
<1>3. ASSUME NEW t \in AThreads, AStart(t) PROVE Clock'
  <2>1. pc[t] = "start" /\ now[t] # Unset
    BY <1>3 DEF AStart, Goto, Clock
  <2>2. start_time' # Unset
    BY <1>3, <2>1 DEF AStart, Exchanged
  <2>3. \A u \in AThreads : pc'[u] = "start" => pc[u] = "start"
    BY <1>0, <1>3, <1>t, <2>1 DEF AStart, AHead, Goto, TypeOK
  <2>4. UNCHANGED now
    BY <1>3 DEF AStart
  <2>5. QED
    BY <2>2, <2>3, <2>4 DEF Clock
<1>b. ASSUME NEW t \in Threads, pc[t] \in {"send", "receive"},
             pc[t] = "receive" => q[Other(t[1])] > 0, UNCHANGED timeVars,
             NEW to \in {"send", "receive", "add"}, pc' = [pc EXCEPT ![t] = to]
      PROVE  Clock'
  <2>1. start_time # Unset
    BY <1>b, <1>t, SendersAfterClock
  <2>2. \A u \in AThreads : pc'[u] = "start" => pc[u] = "start"
    BY <1>0, <1>b, <1>t DEF TypeOK
  <2>3. QED
    BY <1>b, <2>1, <2>2 DEF Clock, timeVars
<1>4. ASSUME NEW t \in AThreads, ASend(t) PROVE Clock'
  BY <1>0, <1>4, <1>b DEF ASend, Goto
<1>5. ASSUME NEW t \in AThreads, AReceive(t) PROVE Clock'
  BY <1>0, <1>5, <1>b DEF AReceive, Receive, AHead, Goto
<1>6. ASSUME NEW t \in Threads, Add(t) PROVE Clock'
  BY <1>0, <1>6, <1>a, <1>t DEF Add, Goto, TypeOK, queueVars
<1>7. ASSUME NEW t \in BThreads, BAwait(t) PROVE Clock'
  <2>1. \A u \in AThreads : u # t
    BY DEF Sides
  <2>2. \A u \in AThreads : pc'[u] = pc[u]
    BY <1>0, <1>7, <1>t, <2>1 DEF BAwait, Goto, TypeOK
  <2>3. QED
    BY <1>7, <1>a, <2>2 DEF BAwait, queueVars
<1>8. ASSUME NEW t \in BThreads, BReceive(t) PROVE Clock'
  BY <1>8, <1>b DEF BReceive, Receive, Goto
<1>9. ASSUME NEW t \in BThreads, BSend(t) PROVE Clock'
  BY <1>9, <1>b DEF BSend, BHead, Goto
<1>10. CASE Spawn
  <2> DEFINE u == <<IF spawned < T THEN "a" ELSE "b", spawned % T>>
  <2>1. pc[u] = "unborn" /\ pc' = [pc EXCEPT ![u] = "begin"]
    BY <1>10 DEF Spawn, Goto
  <2> HIDE DEF u
  <2>2. QED
    BY <1>0, <1>10, <1>a, <1>t, <2>1 DEF Spawn, TypeOK, queueVars
<1>11. CASE JoinAndCheck
  BY <1>11, <1>a DEF JoinAndCheck, queueVars
<1>12. CASE UNCHANGED vars
  BY <1>12, <1>a DEF vars, queueVars
<1>13. QED
  BY <1>1, <1>2, <1>3, <1>4, <1>5, <1>6, <1>7, <1>8, <1>9, <1>10, <1>11, <1>12
     DEF Next, MainStep, AStep, BStep

-----------------------------------------------------------------------------
(* The theorems.                                                           *)

Inv == Basis /\ Ball /\ Counts /\ Totals /\ Over /\ Clock

LEMMA InvStep == Inv /\ [Next]_vars => Inv'
BY BasisStep, BallStep, CountsStep, TotalsStep, OverStep, ClockStep DEF Inv, Ball

LEMMA InvHolds == Spec => []Inv
<1>1. Init => Inv
  BY BasisInit, BallInit, BooksInit, ClockInit DEF Inv
<1>2. QED
  BY <1>1, InvStep, PTL DEF Spec

LEMMA Products ==
  ASSUME NEW n \in Nat
  PROVE  T * n \in Nat /\ T * n + T * n = 2 * n * T /\ n * T = T * n
BY ThreadAssumption

(* When all threads have ended, every trip is made and the ball lies in    *)
(* queue a.                                                                *)
LEMMA AtTheEnd ==
  ASSUME Inv, AllDone
  PROVE  /\ \A s \in Sides : total[s] = per_thread_num * T
         /\ q["a"] = 1 /\ q["b"] = 0
         /\ sent = 2 * per_thread_num * T + 1
<1>1. TypeOK /\ Loops /\ Bootstrap /\ OneBall /\ Counts /\ Totals /\ Bounds
  BY InBounds DEF Inv, Basis, Ball
<1>2. \A t \in Threads : pc[t] = "done" /\ i[t] = per_thread_num
  BY <1>1 DEF AllDone, Loops
<1>3. ASSUME NEW s \in Sides PROVE Cardinality(Trips(s)) = T * per_thread_num
  <2>1. IsFiniteSet(Side(s)) /\ Cardinality(Side(s)) = T /\ \A t \in Side(s) : i[t] = per_thread_num
    BY <1>2, SideSize, SideFacts
  <2>2. QED
    BY <2>1, PerThread, EveryTurn DEF Trips
<1>4. Holders = {} /\ BHolders = {}
  BY <1>2, SideFacts DEF Holders, BHolders
<1>5. sent > 0
  <2>1. pc[first] = "done"
    BY <1>2, SideFacts
  <2>2. QED
    BY <1>1, <2>1 DEF Bootstrap, Bounds
<1>6. /\ Cardinality(Trips("a")) = T * per_thread_num
      /\ Cardinality(Trips("b")) = T * per_thread_num
  BY <1>3 DEF Sides
<1>7. q["b"] = 0
  <2>1. q["b"] + Cardinality(Trips("a")) = Cardinality(Trips("a"))
    BY <1>1, <1>6 DEF Counts
  <2>2. Cardinality(Trips("a")) \in Nat /\ q["b"] \in Nat
    BY <1>1, <1>6, Products, PerThread DEF Bounds
  <2>3. QED
    BY <2>1, <2>2
<1>8. q["a"] = 1
  BY <1>1, <1>4, <1>5, <1>7, FS_EmptySet DEF OneBall, Bounds
<1>9. sent = T * per_thread_num + T * per_thread_num + 1
  BY <1>1, <1>4, <1>6, <1>7, <1>8, Products, PerThread, FS_EmptySet DEF Counts
<1>10. QED
  BY <1>1, <1>7, <1>8, <1>9, Products, PerThread, AllTotals

(* No more is sent than the round trips and the bootstrap message.         *)
LEMMA SentInBounds ==
  ASSUME Inv
  PROVE  sent \in 0 .. 2 * per_thread_num * T + 1
<1>1. TypeOK /\ OneBall /\ Counts /\ Bounds
  BY InBounds DEF Inv, Basis, Ball
<1>2. BHolders \in SUBSET Holders
  BY SideFacts DEF Holders, BHolders, Sides
<1>3. IsFiniteSet(Holders) /\ Cardinality(Holders) \in Nat
  BY HoldersPart, AllThreadsFinite, FS_Subset, FS_CardinalityType
<1>4. Cardinality(BHolders) <= Cardinality(Holders)
  BY <1>2, <1>3, FS_Subset
<1>5. Cardinality(BHolders) + q["a"] + q["b"] <= 1
  BY <1>1, <1>3, <1>4 DEF OneBall, Bounds
<1>6. /\ Cardinality(Trips("a")) \in Nat /\ Cardinality(Trips("a")) <= T * per_thread_num
      /\ Cardinality(Trips("b")) \in Nat /\ Cardinality(Trips("b")) <= T * per_thread_num
  BY <1>1, Products, PerThread DEF Bounds
<1>7. sent <= T * per_thread_num + T * per_thread_num + 1
  <2> DEFINE m == T * per_thread_num
  <2>1. m \in Nat
    BY Products, PerThread
  <2>2. Cardinality(Trips("a")) <= m /\ Cardinality(Trips("b")) <= m
    BY <1>6
  <2>3. /\ sent = Cardinality(Trips("a")) + Cardinality(Trips("b"))
                    + Cardinality(BHolders) + q["a"] + q["b"]
        /\ Cardinality(BHolders) \in Nat /\ q["a"] \in Nat /\ q["b"] \in Nat
    BY <1>1 DEF Counts, Bounds
  <2> HIDE DEF m
  <2>4. sent <= m + m + 1
    BY <1>5, <1>6, <2>1, <2>2, <2>3
  <2>5. QED
    BY <2>4 DEF m
<1>8. QED
  BY <1>1, <1>7, Products, PerThread DEF Bounds

(* Every variable keeps its type: in particular no thread runs its loop    *)
(* past its bound, no queue is filled past its capacity and no ready       *)
(* counter passes the number of threads it counts.                         *)
THEOREM TypeCorrect == Spec => []TypeOK
<1>1. Inv => TypeOK
  BY DEF Inv, Basis
<1>2. QED
  BY <1>1, InvHolds, PTL

(* go: between the bootstrap message and the end there is exactly one ball *)
(* however the threads are scheduled.                                      *)
THEOREM OneBallHolds == Spec => []OneBall
<1>1. Inv => OneBall
  BY DEF Inv, Ball
<1>2. QED
  BY <1>1, InvHolds, PTL

(* go: the barrier on the two ready counters lets nobody send before every *)
(* thread has joined the queue it receives from.                           *)
THEOREM JoinedBeforeBallHolds == Spec => []JoinedBeforeBall
<1>1. Inv => JoinedBeforeBall
  <2> SUFFICES ASSUME Inv, sent > 0
               PROVE  \A t \in Threads : pc[t] \notin {"unborn", "begin"}
    BY DEF JoinedBeforeBall
  <2>1. Bootstrap /\ Barrier
    BY DEF Inv, Basis, Ball
  <2>2. pc[first] \notin {"unborn", "begin", "await"} /\ first \in Threads
    BY <2>1, SideFacts DEF Bootstrap
  <2>3. QED
    BY <2>1, <2>2 DEF Barrier
<1>2. QED
  BY <1>1, InvHolds, PTL

(* go: the comparison of the two totals never fails, and a run that        *)
(* returns has made every round trip on both sides.                        *)
THEOREM RoundTripsAddUpHolds == Spec => []RoundTripsAddUp
<1>1. Inv => RoundTripsAddUp
  <2> SUFFICES ASSUME Inv PROVE RoundTripsAddUp
    OBVIOUS
  <2>1. TypeOK /\ Over
    BY DEF Inv, Basis
  <2>2. CASE main = "running"
    BY <2>2 DEF RoundTripsAddUp
  <2>3. CASE main = "returned" /\ AllDone
    <3>1. q = [s \in Sides |-> q[s]] /\ Sides = {"a", "b"}
      BY <2>1 DEF TypeOK, Sides
    <3>2. q = [s \in Sides |-> IF s = "a" THEN 1 ELSE 0]
      BY <2>3, <3>1, AtTheEnd
    <3>3. QED
      BY <2>3, <3>2, AtTheEnd DEF RoundTripsAddUp
  <2>4. QED
    BY <2>1, <2>2, <2>3 DEF Over
<1>2. QED
  BY <1>1, InvHolds, PTL

(* A run of the latency benchmark is a run of a benchmark: the clock is    *)
(* stored once and before any message is sent, go returns only when all    *)
(* messages of all round trips have been sent, and none is sent after.     *)
THEOREM ImplementsBenchmarkRun == Spec => BR!Spec
<1>1. Init => BR!Init
  BY DEF Init, BR!Init, Unset, BR!Unset
<1>2. Inv /\ Inv' /\ [Next]_vars => [BR!Next]_(BR!vars)
  <2> SUFFICES ASSUME Inv, Inv', [Next]_vars PROVE [BR!Next]_(BR!vars)
    OBVIOUS
  <2>t. TypeOK /\ OneBall /\ Clock /\ Over
    BY DEF Inv, Basis, Ball
  <2>s. /\ sent \in Nat /\ 2 * per_thread_num * T + 1 \in Nat
        /\ sent <= 2 * per_thread_num * T + 1 /\ sent' <= 2 * per_thread_num * T + 1
    <3>1. sent \in 0 .. 2 * per_thread_num * T + 1
      BY SentInBounds
    <3>2. (sent \in 0 .. 2 * per_thread_num * T + 1)'
      BY SentInBounds, PTL
    <3>3. 2 * per_thread_num * T + 1 \in Nat
      BY PerThread, ThreadAssumption
    <3>4. QED
      BY <3>1, <3>2, <3>3
  <2>a. ASSUME UNCHANGED <<main, start_time, sent>> PROVE [BR!Next]_(BR!vars)
    BY <2>a DEF BR!vars
  <2>b. ASSUME sent' = sent + 1, start_time # Unset, UNCHANGED <<main, start_time>>
        PROVE  [BR!Next]_(BR!vars)
    <3>1. sent < 2 * per_thread_num * T + 1
      BY <2>b, <2>s
    <3>2. UNCHANGED (main = "returned")
      BY <2>b
    <3>3. QED
      BY <2>b, <3>1, <3>2 DEF BR!Next, BR!DoWork, BR!Unset, Unset
  <2>1. ASSUME NEW t \in Threads, Ready(t) \/ Add(t) PROVE [BR!Next]_(BR!vars)
    BY <2>1, <2>a DEF Ready, Add, mainVars, timeVars, queueVars
  <2>2. ASSUME NEW t \in AThreads, AStart(t) PROVE [BR!Next]_(BR!vars)
    <3>1. CASE start_time = Unset
      <4>1. now[t] = 0 /\ sent = 0
        BY <2>2, <2>t, <3>1 DEF AStart, Goto, Clock
      <4>2. QED
        BY <2>2, <3>1, <4>1
           DEF AStart, Exchanged, BR!Next, BR!StartClock, BR!Unset, Unset, mainVars, queueVars
    <3>2. CASE start_time # Unset
      BY <2>2, <2>a, <3>2 DEF AStart, Exchanged, mainVars, queueVars
    <3>3. QED
      BY <3>1, <3>2
  <2>3. ASSUME NEW t \in AThreads, ANow(t) \/ AReceive(t) PROVE [BR!Next]_(BR!vars)
    BY <2>3, <2>a DEF ANow, AReceive, Receive, mainVars, timeVars, queueVars
  <2>4. ASSUME NEW t \in BThreads, BAwait(t) \/ BReceive(t) PROVE [BR!Next]_(BR!vars)
    BY <2>4, <2>a DEF BAwait, BReceive, Receive, mainVars, timeVars, queueVars
  <2>5. ASSUME NEW t \in Threads, pc[t] = "send", Send(t), UNCHANGED <<mainVars, timeVars>>
        PROVE  [BR!Next]_(BR!vars)
    <3>1. start_time # Unset
      BY <2>5, <2>t, SendersAfterClock
    <3>2. QED
      BY <2>5, <2>b, <3>1 DEF Send, mainVars, timeVars
  <2>6. ASSUME NEW t \in AThreads, ASend(t) PROVE [BR!Next]_(BR!vars)
    BY <2>5, <2>6, SideFacts DEF ASend, Goto
  <2>7. ASSUME NEW t \in BThreads, BSend(t) PROVE [BR!Next]_(BR!vars)
    BY <2>5, <2>7, SideFacts DEF BSend, Goto
  <2>8. CASE Spawn
    BY <2>8, <2>a DEF Spawn, timeVars, queueVars
  <2>9. CASE JoinAndCheck
    <3>1. sent = 2 * per_thread_num * T + 1 /\ total["a"] = total["b"]
      BY <2>9, AtTheEnd DEF JoinAndCheck, Sides
    <3>2. start_time # Unset
      BY <2>t, <2>s, <3>1, Products, PerThread DEF Clock
    <3>3. (main = "returned")' = TRUE /\ UNCHANGED <<start_time, sent>>
      BY <2>9, <3>1 DEF JoinAndCheck, timeVars, queueVars
    <3>4. BR!Return
      BY <3>1, <3>2, <3>3 DEF BR!Return, BR!Unset, Unset
    <3>5. QED
      BY <3>4 DEF BR!Next
  <2>10. CASE UNCHANGED vars
    BY <2>10, <2>a DEF vars, mainVars, timeVars, queueVars
  <2>11. QED
    BY <2>1, <2>2, <2>3, <2>4, <2>6, <2>7, <2>8, <2>9, <2>10, SideFacts
       DEF Next, MainStep, AStep, BStep
<1>3. QED
  BY <1>1, <1>2, InvHolds, PTL DEF Spec, BR!Spec
=============================================================================
