------------------------------ MODULE SuiteProofs ------------------------------
(***************************************************************************)
(* Proofs about Suite, for all benchmarks, numbers of rounds, calls of go  *)
(* and figures that runs may measure.                                      *)
(*                                                                         *)
(* Rounds: how often a benchmark has run is known from call, i and         *)
(* remaining.  Map: an entry is described by a benchmark that has its key. *)
(* Filed runs are counted as turns of the benchmarks of a key (Counting).  *)
(* Rows: a row is read off the sorted runs, which stay until the next call *)
(* of go empties the result.  Keys: the hyphens of a key tell its numbers  *)
(* apart, since the text of a number has none.                             *)
(***************************************************************************)
EXTENDS Suite, Counting, SequenceTheorems, FiniteSetTheorems, TLAPS

(* Rounds completed in all calls.                                          *)
RoundsDone == IF call = 0 THEN 0 ELSE (call - 1) * iteration_num_ + i

(* Runs a benchmark can make in all.                                       *)
MostRuns == iteration_num_ * Len(Calls)

Made(k) == {b \in Creators : key(b) = k}

Rounds ==
  /\ pc \in {"idle", "round", "summary", "thrown"}
  /\ call \in 0 .. Len(Calls) /\ i \in 0 .. iteration_num_
  /\ call = 0 => pc = "idle"
  /\ remaining \subseteq Creators
  /\ pc = "round" => remaining # {}
  /\ remaining # {} => pc \in {"round", "thrown"} /\ i < iteration_num_
  /\ pc \in {"idle", "summary"} => i = iteration_num_ \/ call = 0 \/ Creators = {}
  /\ ran \in [Creators -> Nat]
  /\ \A b \in Creators :
       ran[b] = IF remaining = {} \/ b \in remaining THEN RoundsDone ELSE RoundsDone + 1

Map ==
  /\ DOMAIN benchmark_results \subseteq Keys
  /\ \A k \in DOMAIN benchmark_results :
       /\ benchmark_results[k] = [meta |-> benchmark_results[k].meta, runs |-> benchmark_results[k].runs]
       /\ benchmark_results[k].runs \in Seq(SingleRunResult)
       /\ pc # "thrown" => benchmark_results[k].runs # << >>
       /\ benchmark_results[k].runs # << >> =>
            \E b \in Made(k) : benchmark_results[k].meta = Metadata(b)

FiledRuns ==
  \A k \in Keys : Len(Entry(k).runs) = Cardinality(Turns(Made(k), MostRuns, ran))

Rows ==
  /\ stats # {} => pc = "idle"
  /\ stats \subseteq IF latency THEN LatencyBenchmarkStats ELSE ThroughputBenchmarkStats
  /\ \A row \in stats : \E b \in Made(row.of) : row.meta = Metadata(b)
  /\ PercentilesRight

-----------------------------------------------------------------------------
(* Rounds.                                                                 *)

LEMMA Multiples ==
  ASSUME NEW n \in Nat, NEW m \in Nat
  PROVE  /\ n * m \in Nat /\ m * n = n * m
         /\ (n + 1) * m = n * m + m
         /\ \A l \in Nat : l <= n => l * m <= n * m
OBVIOUS

(* The numbers of rounds add up from call to call and stay in bounds.      *)
LEMMA RoundNumbers ==
  ASSUME Rounds
  PROVE  /\ call \in Nat /\ i \in Nat /\ iteration_num_ \in Nat /\ Len(Calls) \in Nat
         /\ RoundsDone \in Nat /\ MostRuns \in Nat
         /\ i < iteration_num_ /\ call # 0 => RoundsDone < MostRuns
         /\ RoundsDone <= MostRuns
<1>1. call \in Nat /\ i \in Nat /\ iteration_num_ \in Nat /\ Len(Calls) \in Nat
      /\ call <= Len(Calls) /\ i <= iteration_num_
  BY CountAssumption, CallAssumption DEF Rounds
<1>2. MostRuns \in Nat /\ MostRuns = Len(Calls) * iteration_num_
  BY <1>1, Multiples DEF MostRuns
<1>3. CASE call = 0
  BY <1>1, <1>2, <1>3 DEF RoundsDone
<1>4. CASE call # 0
  <2> DEFINE before == (call - 1) * iteration_num_
  <2>1. /\ call - 1 \in Nat /\ call - 1 + 1 = call
    BY <1>1, <1>4
  <2>2. before \in Nat /\ call * iteration_num_ = before + iteration_num_
    BY <1>1, <2>1, Multiples
  <2>3. call * iteration_num_ <= MostRuns /\ call * iteration_num_ \in Nat
    BY <1>1, <1>2, Multiples
  <2>4. RoundsDone = before + i
    BY <1>4 DEF RoundsDone
  <2> HIDE DEF before
  <2>5. QED
    BY <1>1, <1>2, <2>2, <2>3, <2>4
<1>5. QED
  BY <1>3, <1>4

LEMMA RoundsInit == Init => Rounds
BY CountAssumption, CallAssumption DEF Init, Rounds, RoundsDone

LEMMA RoundsStep == Rounds /\ [Next]_vars => Rounds'
<1> SUFFICES ASSUME Rounds, [Next]_vars PROVE Rounds'
  OBVIOUS
<1>n. /\ call \in Nat /\ i \in Nat /\ iteration_num_ \in Nat /\ Len(Calls) \in Nat
      /\ RoundsDone \in Nat
  BY RoundNumbers
<1>1. CASE Go
  <2>1. /\ call' = call + 1 /\ call' \in 0 .. Len(Calls) /\ i' = 0 /\ pc = "idle"
        /\ ran' = ran /\ remaining = {}
    BY <1>1, <1>n DEF Go, Rounds
  <2>2. Creators # {} => RoundsDone' = RoundsDone
    <3>1. RoundsDone' = call * iteration_num_
      BY <1>n, <2>1, Multiples DEF RoundsDone
    <3>2. CASE call = 0
      BY <1>n, <3>1, <3>2 DEF RoundsDone
    <3>3. CASE call # 0
      <4>1. Creators # {} => RoundsDone = (call - 1) * iteration_num_ + iteration_num_
        BY <3>3, <2>1 DEF RoundsDone, Rounds
      <4>2. call - 1 \in Nat /\ call - 1 + 1 = call
        BY <3>3, <1>n
      <4>3. call * iteration_num_ = (call - 1) * iteration_num_ + iteration_num_
        BY <4>2, <1>n, Multiples
      <4>4. QED
        BY <3>1, <4>1, <4>3
    <3>4. QED
      BY <3>2, <3>3
  <2>3. \A b \in Creators : ran'[b] = IF remaining' = {} \/ b \in remaining' THEN RoundsDone'
                                                                        ELSE RoundsDone' + 1
    BY <1>1, <2>1, <2>2 DEF Go, Rounds
  <2>4. QED
    BY <1>1, <1>n, <2>1, <2>3 DEF Go, Rounds
<1>2. CASE Summary
  <2>1. /\ pc = "summary" /\ pc' \in {"idle", "thrown"}
        /\ UNCHANGED <<call, i, remaining, ran>>
    BY <1>2 DEF Summary
  <2>2. RoundsDone' = RoundsDone
    BY <2>1 DEF RoundsDone
  <2>3. QED
    BY <2>1, <2>2 DEF Rounds
<1>3. ASSUME NEW b \in Creators, RunThrows(b) PROVE Rounds'
  <2>1. /\ pc = "round" /\ pc' = "thrown" /\ UNCHANGED <<call, i, remaining, ran>>
    BY <1>3 DEF RunThrows
  <2>2. RoundsDone' = RoundsDone
    BY <2>1 DEF RoundsDone
  <2>3. QED
    BY <2>1, <2>2 DEF Rounds
<1>4. ASSUME NEW b \in Creators, NEW figure \in Figures, Run(b, figure) PROVE Rounds'
  <2> DEFINE left == remaining \ {b}
  <2>1. /\ pc = "round" /\ b \in remaining /\ call' = call /\ call # 0 /\ i < iteration_num_
        /\ ran' = [ran EXCEPT ![b] = @ + 1] /\ NextRun(left)
    BY <1>4 DEF Run, Erased, Rounds
  <2>2. ran' \in [Creators -> Nat]
    BY <2>1 DEF Rounds
  <2>3. \A d \in Creators : ran'[d] = IF d \in left THEN RoundsDone ELSE RoundsDone + 1
    BY <2>1, <1>n DEF Rounds
  <2>4. CASE left # {}
    <3>1. remaining' = left /\ pc' = pc /\ i' = i
      BY <2>1, <2>4 DEF NextRun
    <3>2. RoundsDone' = RoundsDone
      BY <3>1, <2>1 DEF RoundsDone
    <3>3. QED
      BY <2>1, <2>2, <2>3, <2>4, <3>1, <3>2 DEF Rounds
  <2>5. CASE left = {}
    <3>1. /\ i' = i + 1 /\ i' \in 0 .. iteration_num_
          /\ remaining' = IF i' < iteration_num_ THEN Creators ELSE {}
          /\ pc' = IF i' < iteration_num_ THEN "round" ELSE "summary"
      BY <2>1, <2>5, <1>n DEF NextRun, MoreRounds
    <3>2. RoundsDone' = RoundsDone + 1
      <4>1. (call - 1) * iteration_num_ \in Nat
        <5>1. call - 1 \in Nat
          BY <1>n, <2>1
        <5>2. QED
          BY <5>1, <1>n, Multiples
      <4>2. QED
        BY <2>1, <3>1, <4>1, <1>n DEF RoundsDone
    <3>3. \A d \in Creators : ran'[d] = RoundsDone'
      BY <2>3, <2>5, <3>2
    <3>4. QED
      BY <1>n, <2>1, <2>2, <3>1, <3>3 DEF Rounds
  <2>6. QED
    BY <2>4, <2>5
<1>5. CASE UNCHANGED vars
  BY <1>5 DEF vars, Rounds, RoundsDone
<1>6. QED
  BY <1>1, <1>2, <1>3, <1>4, <1>5 DEF Next

(* However the rounds are shuffled, the numbers of runs of two benchmarks  *)
(* differ by one at most, and not at all between calls of go.              *)
THEOREM BalancedHolds == Spec => []Balanced
<1>1. Rounds => Balanced
  <2> SUFFICES ASSUME Rounds, NEW b \in Creators, NEW d \in Creators
               PROVE  /\ ran[b] - ran[d] <= 1
                      /\ pc \in {"idle", "summary"} => ran[b] = ran[d]
    BY DEF Balanced
  <2>1. RoundsDone \in Nat
    BY RoundNumbers
  <2>2. ran[b] \in {RoundsDone, RoundsDone + 1} /\ ran[d] \in {RoundsDone, RoundsDone + 1}
    BY DEF Rounds
  <2>3. pc \in {"idle", "summary"} => ran[b] = ran[d]
    BY DEF Rounds
  <2>4. QED
    BY <2>1, <2>2, <2>3
<1>2. QED
  BY <1>1, RoundsInit, RoundsStep, PTL DEF Spec

-----------------------------------------------------------------------------
(* Sorting.                                                                *)

LEMMA AFigureEach ==
  ASSUME NEW runs \in Seq(SingleRunResult), NEW n \in 1 .. Len(runs)
  PROVE  runs[n].figure \in Nat /\ runs[n].figure \in Figures
<1>1. runs[n] \in SingleRunResult
  OBVIOUS
<1>2. runs[n].figure \in Figures
  BY <1>1 DEF SingleRunResult
<1>3. QED
  BY <1>2, CallAssumption

(* Cutting figures off keeps their order.                                  *)
LEMMA CutKeepsOrder ==
  ASSUME NEW f \in Nat, NEW g \in Nat
  PROVE  /\ Truncated(f) \in Nat
         /\ f <= g => Truncated(f) <= Truncated(g)
<1>1. /\ f \div Parts \in Nat /\ f % Parts \in 0 .. Parts - 1 /\ f = Parts * (f \div Parts) + (f % Parts)
      /\ g \div Parts \in Nat /\ g % Parts \in 0 .. Parts - 1 /\ g = Parts * (g \div Parts) + (g % Parts)
  BY CallAssumption
<1> DEFINE q == f \div Parts
           r == g \div Parts
<1>2. q \in Nat /\ r \in Nat /\ Parts \in Nat \ {0} /\ f < Parts * q + Parts /\ Parts * r <= g
      /\ Parts * q <= f /\ g < Parts * r + Parts
      /\ Parts * q \in Nat /\ Parts * r \in Nat
  BY <1>1, CallAssumption
<1> HIDE DEF q, r
<1>3. r + 1 <= q => Parts * r + Parts <= Parts * q
  <2>1. (r + 1) * Parts = r * Parts + Parts /\ r * Parts = Parts * r /\ q * Parts = Parts * q
    BY <1>2, Multiples
  <2>2. r + 1 <= q => (r + 1) * Parts <= q * Parts
    BY <1>2, Multiples
  <2>3. QED
    BY <2>1, <2>2
<1>4. f <= g => q <= r
  BY <1>2, <1>3
<1>5. QED
  BY <1>2, <1>4 DEF Truncated, q, r

LEMMA FirstNumbers ==
  ASSUME NEW n \in Nat
  PROVE  IsFiniteSet(1 .. n) /\ Cardinality(1 .. n) = n
BY FS_Interval

LEMMA SortedFacts ==
  ASSUME NEW runs \in Seq(SingleRunResult), runs # << >>, NEW s \in Sorted(runs)
  PROVE  /\ s \in Seq(SingleRunResult) /\ Len(s) = Len(runs) /\ s # << >>
         /\ Len(s) \in Nat \ {0} /\ DOMAIN s = 1 .. Len(s)
         /\ BestFirst(s)
<1>1. DOMAIN runs = 1 .. Len(runs) /\ Len(runs) \in Nat \ {0}
  OBVIOUS
<1>2. \A n \in 1 .. Len(runs) : runs[n] \in SingleRunResult
  BY <1>1
<1>3. s \in [1 .. Len(runs) -> SingleRunResult]
  BY <1>1, <1>2 DEF Sorted
<1>4. s \in Seq(SingleRunResult) /\ Len(s) = Len(runs)
  BY <1>1, <1>3
<1>5. QED
  BY <1>1, <1>3, <1>4 DEF Sorted

(* The index of a percentile lies inside the runs, for any number of them. *)
LEMMA PercentileIndex ==
  ASSUME NEW n \in Nat \ {0}, NEW p \in Percentiles
  PROVE  /\ (n * p) \div 100 \in Nat
         /\ (n * p) \div 100 + 1 \in 1 .. n
         /\ 100 * ((n * p) \div 100) <= p * n
         /\ 100 * ((n * p) \div 100 + 1) > p * n
<1>1. CASE p = 50
  BY <1>1
<1>2. CASE p = 75
  BY <1>2
<1>3. CASE p = 90
  BY <1>3
<1>4. CASE p = 99
  BY <1>4
<1>5. QED
  BY <1>1, <1>2, <1>3, <1>4 DEF Percentiles

LEMMA BestComeFirst ==
  ASSUME NEW s \in Seq(SingleRunResult), BestFirst(s), NEW m \in 1 .. Len(s), NEW n \in 1 .. Len(s)
  PROVE  /\ Better(s[n], s[m]) => n < m
         /\ m <= n => ~ Better(s[n], s[m])
<1>1. DOMAIN s = 1 .. Len(s) /\ s[m].figure \in Nat /\ s[n].figure \in Nat
  BY AFigureEach
<1>2. m < n => ~ Better(s[n], s[m])
  BY <1>1 DEF BestFirst
<1>3. m = n => ~ Better(s[n], s[m])
  BY <1>1 DEF Better, Shorter, Faster
<1>4. QED
  BY <1>2, <1>3

(* The figure at the index is cut off from the worst of the best p percent.*)
LEMMA PercentileOfSorted ==
  ASSUME NEW s \in Seq(SingleRunResult), s # << >>, BestFirst(s), NEW p \in Percentiles
  PROVE  \E m \in DOMAIN s :
           /\ AtPercent(s, p) = Truncated(s[m].figure)
           /\ 100 * Cardinality({n \in DOMAIN s : Better(s[n], s[m])}) <= p * Len(s)
           /\ 100 * Cardinality({n \in DOMAIN s : ~ Better(s[m], s[n])}) > p * Len(s)
<1> DEFINE before == (Len(s) * p) \div 100
           m      == before + 1
           better == {n \in DOMAIN s : Better(s[n], s[m])}
           asGood == {n \in DOMAIN s : ~ Better(s[m], s[n])}
<1>1. DOMAIN s = 1 .. Len(s) /\ Len(s) \in Nat \ {0}
  OBVIOUS
<1>2. /\ before \in Nat /\ m \in 1 .. Len(s)
      /\ 100 * before <= p * Len(s) /\ 100 * (before + 1) > p * Len(s)
  BY <1>1, PercentileIndex
<1>3. AtPercent(s, p) = Truncated(s[m].figure)
  BY DEF AtPercent
<1> HIDE DEF before
<1>4. better \subseteq 1 .. before
  <2> SUFFICES ASSUME NEW n \in 1 .. Len(s), Better(s[n], s[m]) PROVE n \in 1 .. before
    BY <1>1
  <2>1. n < before + 1
    BY <1>2, BestComeFirst
  <2>2. QED
    BY <1>2, <2>1
<1>5. 1 .. m \subseteq asGood
  <2> SUFFICES ASSUME NEW n \in 1 .. m PROVE n \in DOMAIN s /\ ~ Better(s[m], s[n])
    OBVIOUS
  <2>1. n \in 1 .. Len(s) /\ n <= m
    BY <1>2
  <2>2. QED
    BY <1>1, <1>2, <2>1, BestComeFirst
<1>6. /\ IsFiniteSet(1 .. before) /\ Cardinality(1 .. before) = before
      /\ Cardinality(1 .. m) = m
      /\ IsFiniteSet(1 .. Len(s))
  <2>1. m \in Nat /\ Len(s) \in Nat
    BY <1>1, <1>2
  <2>2. QED
    BY <1>2, <2>1, FirstNumbers
<1>7. Cardinality(better) \in Nat /\ Cardinality(better) <= before
  BY <1>2, <1>4, <1>6, PartSize
<1>8. IsFiniteSet(asGood)
  BY <1>1, <1>6, FS_Subset
<1>9. Cardinality(asGood) \in Nat /\ Cardinality(asGood) >= before + 1
  BY <1>2, <1>5, <1>6, <1>8, PartSize, SMTT(30)
<1>10. p * Len(s) \in Nat
  BY <1>1 DEF Percentiles
<1> HIDE DEF better, asGood, m
<1>11. 100 * Cardinality(better) <= p * Len(s)
  BY <1>2, <1>7, <1>10
<1>12. 100 * Cardinality(asGood) > p * Len(s)
  BY <1>2, <1>9, <1>10
<1>13. QED
  BY <1>1, <1>2, <1>3, <1>11, <1>12 DEF better, asGood

-----------------------------------------------------------------------------
(* The map of results.                                                     *)

ItsRun(b, figure) == [total |-> total_msg_num(b), figure |-> figure, thread_num |-> b.thread_num]

LEMMA ARun ==
  ASSUME Rounds, pc = "round", NEW b \in Creators, NEW figure \in Figures
  PROVE  ItsRun(b, figure) \in SingleRunResult
<1>1. call \in 1 .. Len(Calls)
  BY CallAssumption DEF Rounds
<1>2. Calls[call] \in Nat
  BY <1>1, CallAssumption
<1>3. b.thread_num \in Nat /\ b.producer_num \in Nat \ {0}
  BY CreatorAssumption DEF Benchmarks
<1>4. Calls[call] \div b.producer_num \in Nat
  BY <1>2, <1>3
<1>5. total_msg_published(b) \in Nat /\ a_total_iteration_num(b) \in Nat
  BY <1>3, <1>4, Multiples DEF total_msg_published, a_total_iteration_num
<1>6. QED
  BY <1>3, <1>5 DEF ItsRun, SingleRunResult, total_msg_num

LEMMA EntryFacts ==
  ASSUME Map, NEW k
  PROVE  /\ Entry(k) = [meta |-> Entry(k).meta, runs |-> Entry(k).runs]
         /\ Entry(k).runs \in Seq(SingleRunResult)
         /\ Entry(k).runs # << >> => \E b \in Made(k) : Entry(k).meta = Metadata(b)
         /\ Entry(k).runs = << >> /\ pc # "thrown" => Entry(k).meta.msg_type_name = << >>
<1>1. CASE k \in DOMAIN benchmark_results
  BY <1>1 DEF Entry, Map
<1>2. CASE k \notin DOMAIN benchmark_results
  BY <1>2 DEF Entry
<1>3. QED
  BY <1>1, <1>2

LEMMA FiledFacts ==
  ASSUME Map, Rounds, pc = "round", NEW b \in Creators, NEW figure \in Figures
  PROVE  LET filed == Filed(Entry(key(b)), b, ItsRun(b, figure))
         IN  /\ filed = [meta |-> filed.meta, runs |-> filed.runs]
             /\ filed.runs \in Seq(SingleRunResult) /\ filed.runs # << >>
             /\ Len(filed.runs) = Len(Entry(key(b)).runs) + 1
             /\ \E d \in Made(key(b)) : filed.meta = Metadata(d)
<1> DEFINE entry == Entry(key(b))
           filed == Filed(entry, b, ItsRun(b, figure))
<1>1. /\ entry.runs \in Seq(SingleRunResult)
      /\ entry.runs # << >> => \E d \in Made(key(b)) : entry.meta = Metadata(d)
      /\ entry.runs = << >> => entry.meta.msg_type_name = << >>
  BY EntryFacts
<1>2. b \in Made(key(b))
  BY DEF Made
<1>3. ItsRun(b, figure) \in SingleRunResult
  BY ARun
<1> HIDE DEF entry
<1>4. filed.runs = Append(entry.runs, ItsRun(b, figure))
  BY DEF Filed
<1>5. filed.meta \in {Metadata(b), entry.meta} /\ (entry.runs = << >> => filed.meta = Metadata(b))
  BY <1>1 DEF Filed
<1>6. filed = [meta |-> filed.meta, runs |-> filed.runs]
  BY DEF Filed
<1> HIDE DEF filed
<1>7. filed.runs \in Seq(SingleRunResult) /\ filed.runs # << >> /\ Len(filed.runs) = Len(entry.runs) + 1
  BY <1>1, <1>3, <1>4
<1>8. \E d \in Made(key(b)) : filed.meta = Metadata(d)
  BY <1>1, <1>2, <1>5
<1>9. QED
  BY <1>6, <1>7, <1>8 DEF filed, entry

(* A summary that is not refused: the sorted runs it chooses.              *)
LEMMA SummaryFacts ==
  ASSUME Map, Summary, pc' = "idle"
  PROVE  \E sorted :
           /\ \A k \in DOMAIN benchmark_results :
                /\ sorted[k] \in Sorted(benchmark_results[k].runs)
                /\ benchmark_results'[k] = [meta |-> benchmark_results[k].meta, runs |-> sorted[k]]
           /\ DOMAIN benchmark_results' = DOMAIN benchmark_results
           /\ stats' = {IF latency THEN LatencyRow(k, sorted[k])
                                   ELSE ThroughputRow(k, sorted[k]) : k \in DOMAIN benchmark_results}
<1> DEFINE keys == DOMAIN benchmark_results
<1>1. PICK sorted :
        /\ \A k \in keys : sorted[k] \in Sorted(benchmark_results[k].runs)
        /\ stats' = {IF latency THEN LatencyRow(k, sorted[k])
                                ELSE ThroughputRow(k, sorted[k]) : k \in keys}
        /\ benchmark_results' = [k \in keys |-> [benchmark_results[k] EXCEPT !.runs = sorted[k]]]
  BY DEF Summary
<1>2. \A k \in keys : benchmark_results[k] = [meta |-> benchmark_results[k].meta, runs |-> benchmark_results[k].runs]
  BY DEF Map
<1>3. DOMAIN benchmark_results' = keys
  BY <1>1
<1>4. ASSUME NEW k \in keys
      PROVE  benchmark_results'[k] = [meta |-> benchmark_results[k].meta, runs |-> sorted[k]]
  <2>1. benchmark_results'[k] = [benchmark_results[k] EXCEPT !.runs = sorted[k]]
    BY <1>1
  <2>2. QED
    BY <1>2, <2>1
<1>5. /\ \A k \in keys : sorted[k] \in Sorted(benchmark_results[k].runs)
      /\ stats' = {IF latency THEN LatencyRow(k, sorted[k])
                              ELSE ThroughputRow(k, sorted[k]) : k \in keys}
  BY <1>1
<1>6. /\ \A k \in keys :
           /\ sorted[k] \in Sorted(benchmark_results[k].runs)
           /\ benchmark_results'[k] = [meta |-> benchmark_results[k].meta, runs |-> sorted[k]]
      /\ DOMAIN benchmark_results' = keys
      /\ stats' = {IF latency THEN LatencyRow(k, sorted[k])
                              ELSE ThroughputRow(k, sorted[k]) : k \in keys}
  BY <1>3, <1>4, <1>5
<1>7. QED
  <2> WITNESS sorted
  <2> QED
    BY <1>6

LEMMA MapInit == Init => Map
BY DEF Init, Map

LEMMA MapStep == Rounds /\ Map /\ [Next]_vars => Map'
<1> SUFFICES ASSUME Rounds, Map, [Next]_vars PROVE Map'
  OBVIOUS
<1>1. CASE Go
  <2>1. pc # "thrown" /\ benchmark_results' = benchmark_results
    BY <1>1 DEF Go
  <2>2. QED
    BY <2>1 DEF Map
<1>2. CASE Summary /\ pc' = "idle"
  <2>1. PICK sorted :
          /\ \A k \in DOMAIN benchmark_results :
               /\ sorted[k] \in Sorted(benchmark_results[k].runs)
               /\ benchmark_results'[k] = [meta |-> benchmark_results[k].meta, runs |-> sorted[k]]
          /\ DOMAIN benchmark_results' = DOMAIN benchmark_results
    BY <1>2, SummaryFacts
  <2>2. pc # "thrown"
    BY <1>2 DEF Summary
  <2>3. ASSUME NEW k \in DOMAIN benchmark_results
        PROVE  /\ benchmark_results'[k].runs \in Seq(SingleRunResult)
               /\ benchmark_results'[k].runs # << >>
               /\ benchmark_results'[k].meta = benchmark_results[k].meta
               /\ \E b \in Made(k) : benchmark_results[k].meta = Metadata(b)
    <3>1. /\ benchmark_results[k].runs \in Seq(SingleRunResult) /\ benchmark_results[k].runs # << >>
          /\ \E b \in Made(k) : benchmark_results[k].meta = Metadata(b)
      BY <2>2 DEF Map
    <3>2. QED
      BY <2>1, <3>1, SortedFacts
  <2>4. QED
    BY <2>1, <2>3 DEF Map
<1>3. CASE Summary /\ pc' # "idle"
  BY <1>3 DEF Summary, Map
<1>4. ASSUME NEW b \in Creators, RunThrows(b) PROVE Map'
  <2>1. pc' = "thrown" /\ key(b) \in Keys
    BY <1>4 DEF RunThrows, Keys
  <2>2. CASE benchmark_results' = benchmark_results
    BY <2>1, <2>2 DEF Map
  <2>3. CASE benchmark_results' = Stored(key(b), Entry(key(b)))
    <3>1. /\ DOMAIN benchmark_results' = DOMAIN benchmark_results \cup {key(b)}
          /\ benchmark_results'[key(b)] = Entry(key(b))
          /\ \A k \in DOMAIN benchmark_results \ {key(b)} : benchmark_results'[k] = benchmark_results[k]
      BY <2>3 DEF Stored
    <3>2. /\ Entry(key(b)) = [meta |-> Entry(key(b)).meta, runs |-> Entry(key(b)).runs]
          /\ Entry(key(b)).runs \in Seq(SingleRunResult)
          /\ Entry(key(b)).runs # << >> => \E d \in Made(key(b)) : Entry(key(b)).meta = Metadata(d)
      BY EntryFacts
    <3>3. QED
      BY <2>1, <3>1, <3>2 DEF Map
  <2>4. QED
    BY <1>4, <2>2, <2>3 DEF RunThrows
<1>5. ASSUME NEW b \in Creators, NEW figure \in Figures, Run(b, figure) PROVE Map'
  <2> DEFINE filed == Filed(Entry(key(b)), b, ItsRun(b, figure))
  <2>1. pc = "round" /\ key(b) \in Keys /\ benchmark_results' = Stored(key(b), filed)
    BY <1>5 DEF Run, ItsRun, Keys
  <2>2. /\ filed = [meta |-> filed.meta, runs |-> filed.runs]
        /\ filed.runs \in Seq(SingleRunResult) /\ filed.runs # << >>
        /\ \E d \in Made(key(b)) : filed.meta = Metadata(d)
    BY <2>1, FiledFacts
  <2> HIDE DEF filed
  <2>3. /\ DOMAIN benchmark_results' = DOMAIN benchmark_results \cup {key(b)}
        /\ benchmark_results'[key(b)] = filed
        /\ \A k \in DOMAIN benchmark_results \ {key(b)} : benchmark_results'[k] = benchmark_results[k]
    BY <2>1 DEF Stored
  <2>4. QED
    BY <2>1, <2>2, <2>3 DEF Map
<1>6. CASE UNCHANGED vars
  BY <1>6 DEF vars, Map
<1>7. QED
  BY <1>1, <1>2, <1>3, <1>4, <1>5, <1>6 DEF Next

-----------------------------------------------------------------------------
(* Every run is filed.                                                     *)

LEMMA MadeFinite == \A k : IsFiniteSet(Made(k)) /\ Made(k) \subseteq Creators
BY CreatorAssumption, FS_Subset DEF Made

LEMMA FiledInit == Init => FiledRuns
<1> SUFFICES ASSUME Init, NEW k \in Keys
             PROVE  Len(Entry(k).runs) = Cardinality(Turns(Made(k), MostRuns, ran))
  BY DEF FiledRuns
<1>1. Entry(k).runs = << >>
  BY DEF Init, Entry
<1>2. \A b \in Made(k) : ran[b] = 0
  BY DEF Init, Made
<1>3. MostRuns \in Nat
  BY RoundsInit, RoundNumbers
<1>4. Cardinality(Turns(Made(k), MostRuns, ran)) = 0
  BY <1>2, <1>3, NoTurns
<1>5. QED
  BY <1>1, <1>4

LEMMA FiledStep == Rounds /\ Map /\ FiledRuns /\ [Next]_vars => FiledRuns'
<1> SUFFICES ASSUME Rounds, Map, FiledRuns, [Next]_vars, NEW k \in Keys
             PROVE  Len(Entry(k)'.runs) = Cardinality(Turns(Made(k), MostRuns, ran'))
  BY DEF FiledRuns, Keys, Made, MostRuns, Turns
<1> DEFINE size == Len(Entry(k).runs)
<1>0. size = Cardinality(Turns(Made(k), MostRuns, ran))
  BY DEF FiledRuns
<1>1. CASE Entry(k)'.runs = Entry(k).runs /\ ran' = ran
  BY <1>0, <1>1
<1>2. CASE Go
  BY <1>1, <1>2 DEF Go, Entry
<1>3. CASE UNCHANGED vars
  BY <1>1, <1>3 DEF vars, Entry
<1>4. CASE Summary /\ pc' # "idle"
  BY <1>1, <1>4 DEF Summary, Entry
<1>5. CASE Summary /\ pc' = "idle"
  <2>1. PICK sorted :
          /\ \A l \in DOMAIN benchmark_results :
               /\ sorted[l] \in Sorted(benchmark_results[l].runs)
               /\ benchmark_results'[l] = [meta |-> benchmark_results[l].meta, runs |-> sorted[l]]
          /\ DOMAIN benchmark_results' = DOMAIN benchmark_results
    BY <1>5, SummaryFacts
  <2>2. ran' = ran /\ pc # "thrown"
    BY <1>5 DEF Summary
  <2>3. CASE k \in DOMAIN benchmark_results
    <3>1. /\ benchmark_results[k].runs \in Seq(SingleRunResult) /\ benchmark_results[k].runs # << >>
          /\ sorted[k] \in Sorted(benchmark_results[k].runs)
          /\ Entry(k)'.runs = sorted[k] /\ Entry(k).runs = benchmark_results[k].runs
      BY <2>1, <2>2, <2>3 DEF Map, Entry
    <3>2. Len(Entry(k)'.runs) = size
      BY <3>1, SortedFacts
    <3>3. QED
      BY <1>0, <2>2, <3>2
  <2>4. CASE k \notin DOMAIN benchmark_results
    BY <1>1, <2>1, <2>2, <2>4 DEF Entry
  <2>5. QED
    BY <2>3, <2>4
<1>6. ASSUME NEW b \in Creators, RunThrows(b)
      PROVE  Len(Entry(k)'.runs) = Cardinality(Turns(Made(k), MostRuns, ran'))
  <2>1. ran' = ran
    BY <1>6 DEF RunThrows
  <2>2. CASE benchmark_results' = benchmark_results
    BY <1>1, <2>1, <2>2 DEF Entry
  <2>3. CASE benchmark_results' = Stored(key(b), Entry(key(b)))
    BY <1>1, <2>1, <2>3 DEF Entry, Stored
  <2>4. QED
    BY <1>6, <2>2, <2>3 DEF RunThrows
<1>7. ASSUME NEW b \in Creators, NEW figure \in Figures, Run(b, figure)
      PROVE  Len(Entry(k)'.runs) = Cardinality(Turns(Made(k), MostRuns, ran'))
  <2> DEFINE filed == Filed(Entry(key(b)), b, ItsRun(b, figure))
  <2>1. /\ pc = "round" /\ b \in remaining /\ benchmark_results' = Stored(key(b), filed)
        /\ ran' = [ran EXCEPT ![b] = @ + 1]
    BY <1>7 DEF Run, ItsRun
  <2>2. Len(filed.runs) = Len(Entry(key(b)).runs) + 1
    BY <2>1, FiledFacts
  <2>3. /\ ran \in [Creators -> Nat] /\ ran[b] = RoundsDone /\ RoundsDone < MostRuns
        /\ MostRuns \in Nat /\ RoundsDone \in Nat
    BY <2>1, RoundNumbers DEF Rounds
  <2> HIDE DEF filed
  <2>4. CASE key(b) = k
    <3>1. Entry(k)'.runs = filed.runs
      BY <2>1, <2>4 DEF Entry, Stored
    <3>2. b \in Made(k) /\ IsFiniteSet(Made(k)) /\ Made(k) \subseteq Creators
      BY <2>4, MadeFinite DEF Made
    <3>3. /\ ran[b] \in Nat /\ ran[b] < MostRuns /\ ran'[b] = ran[b] + 1
          /\ \A d \in Made(k) : d # b => ran'[d] = ran[d]
      BY <2>1, <2>3, <3>2
    <3>4. Cardinality(Turns(Made(k), MostRuns, ran')) = Cardinality(Turns(Made(k), MostRuns, ran)) + 1
      BY <2>3, <3>2, <3>3, OneTurnMore
    <3>5. QED
      BY <1>0, <2>2, <2>4, <3>1, <3>4
  <2>5. CASE key(b) # k
    <3>1. Entry(k)'.runs = Entry(k).runs
      BY <2>1, <2>5 DEF Entry, Stored
    <3>2. \A d \in Made(k) : ran'[d] = ran[d]
      BY <2>1, <2>3, <2>5 DEF Made
    <3>3. Turns(Made(k), MostRuns, ran') = Turns(Made(k), MostRuns, ran)
      BY <3>2 DEF Turns
    <3>4. QED
      BY <1>0, <3>1, <3>3
  <2>6. QED
    BY <2>4, <2>5
<1>8. QED
  BY <1>2, <1>3, <1>4, <1>5, <1>6, <1>7 DEF Next

(* Every run of every call of go is in the map, once: shuffling, keys that *)
(* several benchmarks share, sorting and exceptions lose and double none.  *)
THEOREM EveryRunFiledHolds == Spec => []EveryRunFiled
<1>1. FiledRuns => EveryRunFiled
  BY DEF FiledRuns, EveryRunFiled, Turns, Made, MostRuns
<1>2. QED
  BY <1>1, RoundsInit, RoundsStep, MapInit, MapStep, FiledInit, FiledStep, PTL DEF Spec

-----------------------------------------------------------------------------
(* Rows.                                                                   *)

(* What a row of the summary says of the sorted runs s.                    *)
RowRight(row, s) ==
  LET cut == {Truncated(s[n].figure) : n \in DOMAIN s}
  IN  /\ \A p \in Percentiles : \E m \in DOMAIN s :
           /\ row.d[p] = Truncated(s[m].figure)
           /\ 100 * Cardinality({n \in DOMAIN s : Better(s[n], s[m])}) <= p * Len(s)
           /\ 100 * Cardinality({n \in DOMAIN s : ~ Better(s[m], s[n])}) > p * Len(s)
      /\ row.min \in cut /\ row.max \in cut
      /\ \A f \in cut : row.min <= f /\ f <= row.max

Row(k, s) == IF latency THEN LatencyRow(k, s) ELSE ThroughputRow(k, s)

LEMMA RowFacts ==
  ASSUME NEW s \in Seq(SingleRunResult), s # << >>, BestFirst(s), NEW k \in Keys,
         NEW b \in Made(k), benchmark_results[k].meta = Metadata(b)
  PROVE  /\ Row(k, s).of = k /\ Row(k, s).meta = Metadata(b)
         /\ Row(k, s) \in IF latency THEN LatencyBenchmarkStats ELSE ThroughputBenchmarkStats
         /\ RowRight(Row(k, s), s)
<1> DEFINE row == Row(k, s)
           last == Len(s)
<1>1. /\ DOMAIN s = 1 .. last /\ last \in Nat \ {0} /\ 1 \in 1 .. last /\ last \in 1 .. last
      /\ s[1] \in SingleRunResult
  OBVIOUS
<1>2. \A n \in 1 .. last : s[n].figure \in Nat /\ Truncated(s[n].figure) \in Nat
  BY AFigureEach, CutKeepsOrder
<1>3. \A p \in Percentiles : AtPercent(s, p) \in Nat
  BY <1>1, <1>2, PercentileIndex DEF AtPercent
<1>4. /\ row.of = k /\ row.meta = Metadata(b) /\ row.d = [p \in Percentiles |-> AtPercent(s, p)]
      /\ row.min = Truncated(s[IF latency THEN 1 ELSE last].figure)
      /\ row.max = Truncated(s[IF latency THEN last ELSE 1].figure)
  BY DEF Row, LatencyRow, ThroughputRow
<1>5. row \in IF latency THEN LatencyBenchmarkStats ELSE ThroughputBenchmarkStats
  <2>1. s[1].total \in Nat /\ s[1].thread_num \in Nat
    BY <1>1 DEF SingleRunResult
  <2>2. Metadata(b) \in {Metadata(d) : d \in Creators}
    BY DEF Made
  <2>3. [p \in Percentiles |-> AtPercent(s, p)] \in [Percentiles -> Nat]
    BY <1>3
  <2>4. CASE latency
    <3>1. row = LatencyRow(k, s)
      BY <2>4 DEF Row
    <3>2. LatencyRow(k, s) \in LatencyBenchmarkStats
      BY <1>1, <1>2, <2>1, <2>2, <2>3 DEF LatencyRow, LatencyBenchmarkStats
    <3>3. QED
      BY <2>4, <3>1, <3>2
  <2>5. CASE ~ latency
    <3>1. row = ThroughputRow(k, s)
      BY <2>5 DEF Row
    <3>2. ThroughputRow(k, s) \in ThroughputBenchmarkStats
      BY <1>1, <1>2, <2>1, <2>2, <2>3 DEF ThroughputRow, ThroughputBenchmarkStats
    <3>3. QED
      BY <2>5, <3>1, <3>2
  <2>6. QED
    BY <2>4, <2>5
<1> HIDE DEF row
<1>6. ASSUME NEW n \in 1 .. last
      PROVE  row.min <= Truncated(s[n].figure) /\ Truncated(s[n].figure) <= row.max
  <2>1. ~ Better(s[n], s[1]) /\ ~ Better(s[last], s[n])
    BY <1>1, BestComeFirst
  <2>2. s[n].figure \in Nat /\ s[1].figure \in Nat /\ s[last].figure \in Nat
    BY <1>1, <1>2
  <2>3. CASE latency
    <3>1. s[1].figure <= s[n].figure /\ s[n].figure <= s[last].figure
      BY <2>1, <2>2, <2>3 DEF Better, Shorter
    <3>2. QED
      BY <1>4, <2>2, <2>3, <3>1, CutKeepsOrder
  <2>4. CASE ~ latency
    <3>1. s[last].figure <= s[n].figure /\ s[n].figure <= s[1].figure
      BY <2>1, <2>2, <2>4 DEF Better, Faster
    <3>2. QED
      BY <1>4, <2>2, <2>4, <3>1, CutKeepsOrder
  <2>5. QED
    BY <2>3, <2>4
<1>7. ASSUME NEW p \in Percentiles
      PROVE  \E m \in DOMAIN s :
               /\ row.d[p] = Truncated(s[m].figure)
               /\ 100 * Cardinality({n \in DOMAIN s : Better(s[n], s[m])}) <= p * Len(s)
               /\ 100 * Cardinality({n \in DOMAIN s : ~ Better(s[m], s[n])}) > p * Len(s)
  <2>1. row.d[p] = AtPercent(s, p)
    BY <1>4
  <2>2. QED
    BY <2>1, PercentileOfSorted
<1>8. RowRight(row, s)
  <2> DEFINE cut == {Truncated(s[n].figure) : n \in DOMAIN s}
  <2>1. row.min \in cut /\ row.max \in cut
    BY <1>1, <1>4
  <2>2. \A f \in cut : row.min <= f /\ f <= row.max
    BY <1>1, <1>6
  <2> HIDE DEF cut
  <2>3. QED
    BY <1>7, <2>1, <2>2 DEF RowRight, cut
<1>9. QED
  BY <1>4, <1>5, <1>8 DEF row

LEMMA RightRows == (\A row \in stats : RowRight(row, Entry(row.of).runs)) => PercentilesRight
BY DEF RowRight, PercentilesRight

(* It stays right as long as the suite measures the same.                  *)
LEMMA StillRight ==
  ASSUME NEW row, NEW s, RowRight(row, s), latency' = latency
  PROVE  RowRight(row, s)'
<1>1. \A m, n \in DOMAIN s : Better(s[n], s[m])' <=> Better(s[n], s[m])
  BY DEF Better, Shorter, Faster
<1>2. \A m \in DOMAIN s :
        /\ {n \in DOMAIN s : Better(s[n], s[m])'} = {n \in DOMAIN s : Better(s[n], s[m])}
        /\ {n \in DOMAIN s : ~ Better(s[m], s[n])'} = {n \in DOMAIN s : ~ Better(s[m], s[n])}
  BY <1>1
<1>3. ASSUME NEW p \in Percentiles
      PROVE  \E m \in DOMAIN s :
               /\ row.d[p] = Truncated(s[m].figure)
               /\ 100 * Cardinality({n \in DOMAIN s : Better(s[n], s[m])'}) <= p * Len(s)
               /\ 100 * Cardinality({n \in DOMAIN s : ~ Better(s[m], s[n])'}) > p * Len(s)
  <2>1. PICK m \in DOMAIN s :
          /\ row.d[p] = Truncated(s[m].figure)
          /\ 100 * Cardinality({n \in DOMAIN s : Better(s[n], s[m])}) <= p * Len(s)
          /\ 100 * Cardinality({n \in DOMAIN s : ~ Better(s[m], s[n])}) > p * Len(s)
    BY DEF RowRight
  <2>2. QED
    BY <1>2, <2>1
<1> DEFINE cut == {Truncated(s[n].figure) : n \in DOMAIN s}
<1>4. row.min \in cut /\ row.max \in cut /\ \A f \in cut : row.min <= f /\ f <= row.max
  BY DEF RowRight
<1>5. QED
  BY <1>3, <1>4, Zenon DEF RowRight, Truncated

LEMMA RowsRight == PercentilesRight => \A row \in stats : RowRight(row, Entry(row.of).runs)
BY DEF RowRight, PercentilesRight

LEMMA NoRows == stats = {} => Rows
BY DEF Rows, PercentilesRight

LEMMA RowsInit == Init => Rows
BY NoRows DEF Init

LEMMA RowsStep == Map /\ Rows /\ [Next]_vars => Rows'
<1> SUFFICES ASSUME Map, Rows, [Next]_vars PROVE Rows'
  OBVIOUS
<1>1. CASE stats' = {}
  <2>1. (stats = {} => Rows)'
    BY NoRows, PTL
  <2>2. QED
    BY <1>1, <2>1
<1>2. CASE Summary /\ pc' = "idle"
  <2> DEFINE keys == DOMAIN benchmark_results
  <2>1. PICK sorted :
          /\ \A k \in keys :
               /\ sorted[k] \in Sorted(benchmark_results[k].runs)
               /\ benchmark_results'[k] = [meta |-> benchmark_results[k].meta, runs |-> sorted[k]]
          /\ DOMAIN benchmark_results' = keys
          /\ stats' = {Row(k, sorted[k]) : k \in keys}
    BY <1>2, SummaryFacts DEF Row
  <2>2. pc = "summary" /\ latency' = latency
    BY <1>2 DEF Summary
  <2>3. ASSUME NEW k \in keys
        PROVE  /\ sorted[k] \in Seq(SingleRunResult) /\ sorted[k] # << >> /\ BestFirst(sorted[k])
               /\ k \in Keys /\ \E b \in Made(k) : benchmark_results[k].meta = Metadata(b)
    <3>1. /\ benchmark_results[k].runs \in Seq(SingleRunResult) /\ benchmark_results[k].runs # << >>
          /\ k \in Keys /\ \E b \in Made(k) : benchmark_results[k].meta = Metadata(b)
      BY <2>2 DEF Map
    <3>2. sorted[k] \in Sorted(benchmark_results[k].runs)
      BY <2>1
    <3>3. QED
      BY <3>1, <3>2, SortedFacts
  <2>4. ASSUME NEW row \in stats'
        PROVE  \E k \in keys : /\ row = Row(k, sorted[k]) /\ row.of = k
                               /\ \E b \in Made(k) : row.meta = Metadata(b)
                               /\ row \in IF latency THEN LatencyBenchmarkStats ELSE ThroughputBenchmarkStats
                               /\ RowRight(row, sorted[k])
                               /\ Entry(k)'.runs = sorted[k]
    <3>1. PICK k \in keys : row = Row(k, sorted[k])
      BY <2>1
    <3>2. PICK b \in Made(k) : benchmark_results[k].meta = Metadata(b)
      BY <2>3
    <3>3. /\ row.of = k /\ row.meta = Metadata(b) /\ RowRight(row, sorted[k])
          /\ row \in IF latency THEN LatencyBenchmarkStats ELSE ThroughputBenchmarkStats
      BY <2>3, <3>1, <3>2, RowFacts
    <3>4. Entry(k)'.runs = sorted[k]
      BY <2>1 DEF Entry
    <3>5. QED
      BY <3>1, <3>2, <3>3, <3>4
  <2>5. PercentilesRight'
    <3>1. ASSUME NEW row \in stats' PROVE RowRight(row, Entry(row.of).runs)'
      <4>1. PICK k \in keys : row.of = k /\ RowRight(row, sorted[k]) /\ Entry(k)'.runs = sorted[k]
        BY <2>4
      <4>2. Entry(row.of)'.runs = sorted[k]
        BY <4>1 DEF Entry
      <4>3. latency' = latency
        BY <2>2
      <4>4. RowRight(row, sorted[k])'
        BY <4>1, <4>3, StillRight
      <4>5. QED
        BY <4>2, <4>4
    <3>2. ((\A row \in stats : RowRight(row, Entry(row.of).runs)) => PercentilesRight)'
      BY RightRows, PTL
    <3>3. QED
      BY <3>1, <3>2
  <2>6. stats' \subseteq IF latency' THEN LatencyBenchmarkStats ELSE ThroughputBenchmarkStats
    BY <2>2, <2>4
  <2>7. \A row \in stats' : \E b \in Made(row.of) : row.meta = Metadata(b)
    BY <2>4
  <2>8. stats' # {} => pc' = "idle"
    BY <1>2
  <2>9. QED
    BY <2>5, <2>6, <2>7, <2>8 DEF Rows, Made, Keys
<1>3. CASE UNCHANGED vars
  <2>1. UNCHANGED <<latency, pc, benchmark_results, stats>>
    BY <1>3 DEF vars
  <2>2. PercentilesRight'
    <3>1. ASSUME NEW row \in stats' PROVE RowRight(row, Entry(row.of).runs)'
      <4>1. PICK s : s = Entry(row.of).runs
        OBVIOUS
      <4>2. RowRight(row, s)
        BY <2>1, <4>1, RowsRight DEF Rows
      <4>3. RowRight(row, s)'
        BY <2>1, <4>2, StillRight
      <4>4. Entry(row.of)'.runs = s
        BY <2>1, <4>1 DEF Entry
      <4>5. QED
        BY <4>3, <4>4
    <3>2. ((\A row \in stats : RowRight(row, Entry(row.of).runs)) => PercentilesRight)'
      BY RightRows, PTL
    <3>3. QED
      BY <3>1, <3>2
  <2>3. QED
    BY <2>1, <2>2 DEF Rows
<1>4. QED
  <2>1. Go => stats' = {}
    BY DEF Go
  <2>2. ASSUME NEW b \in Creators, RunThrows(b) PROVE stats' = {}
    BY <2>2 DEF RunThrows, Rows
  <2>3. ASSUME NEW b \in Creators, NEW figure \in Figures, Run(b, figure) PROVE stats' = {}
    BY <2>3 DEF Run, Rows
  <2>4. Summary /\ pc' # "idle" => stats' = {}
    BY DEF Summary, Rows
  <2>5. QED
    BY <1>1, <1>2, <1>3, <2>1, <2>2, <2>3, <2>4 DEF Next

LEMMA RowsHold == Spec => [](Rounds /\ Map /\ Rows)
BY RoundsInit, RoundsStep, MapInit, MapStep, RowsInit, RowsStep, PTL DEF Spec

(* Types: keys are those of the benchmarks, only an exception leaves an    *)
(* entry without runs, and the rows hold figures that runs measured.       *)
THEOREM TypeCorrect == Spec => []TypeOK
<1>1. Rounds /\ Map /\ Rows => TypeOK
  BY DEF Rounds, Map, Rows, TypeOK
<1>2. QED
  BY <1>1, RowsHold, PTL

(* The crude percentiles of calc_summary are percentiles, cut off to whole *)
(* numbers, and lie between min and max, for every number of runs and in   *)
(* both suites.                                                            *)
THEOREM PercentilesRightHolds == Spec => []PercentilesRight
<1>1. Rows => PercentilesRight
  BY DEF Rows
<1>2. QED
  BY <1>1, RowsHold, PTL

-----------------------------------------------------------------------------
(* Keys.                                                                   *)

(* What texts are made of.                                                 *)
Letters == STRING \cup Digits \cup {"-"}

LEMMA TextsOfLetters ==
  /\ Seq(Digits) \subseteq Seq(Letters) /\ Seq(STRING) \subseteq Seq(Letters)
  /\ <<"-">> \in Seq(Letters) /\ Len(<<"-">>) = 1 /\ <<"-">>[1] = "-"
<1>1. Digits \subseteq Letters /\ STRING \subseteq Letters /\ "-" \in Letters
  BY DEF Letters
<1>2. \A s \in Seq(Digits) : s \in Seq(Letters)
  BY <1>1, SeqMonotonic
<1>3. \A s \in Seq(STRING) : s \in Seq(Letters)
  BY <1>1, SeqMonotonic
<1> HIDE DEF Letters
<1>4. QED
  BY <1>1, <1>2, <1>3

(* A text put behind another, letter by letter.                            *)
LEMMA JoinedLetters ==
  ASSUME NEW L, NEW x \in Seq(L), NEW y \in Seq(L)
  PROVE  /\ x \o y \in Seq(L)
         /\ \A k \in 1 .. Len(x) : (x \o y)[k] = x[k]
         /\ Len(y) > 0 => (x \o y)[Len(x) + 1] = y[1]
<1>1. Len(x) \in Nat /\ Len(y) \in Nat
  BY LenProperties
<1>2. /\ x \o y \in Seq(L)
      /\ \A k \in 1 .. Len(x) + Len(y) : (x \o y)[k] = IF k <= Len(x) THEN x[k] ELSE y[k - Len(x)]
  BY ConcatProperties
<1>3. ASSUME NEW k \in 1 .. Len(x) PROVE (x \o y)[k] = x[k]
  <2>1. k \in 1 .. Len(x) + Len(y) /\ k <= Len(x)
    BY <1>1
  <2>2. QED
    BY <1>2, <2>1
<1>4. ASSUME Len(y) > 0 PROVE (x \o y)[Len(x) + 1] = y[1]
  <2> DEFINE k == Len(x) + 1
  <2>1. k \in 1 .. Len(x) + Len(y) /\ ~ (k <= Len(x)) /\ k - Len(x) = 1
    BY <1>1, <1>4
  <2>2. (x \o y)[k] = y[k - Len(x)]
    BY <1>2, <2>1
  <2>3. QED
    BY <2>1, <2>2
<1>5. QED
  BY <1>2, <1>3, <1>4

(* Of two numbers with a hyphen behind, the one that reads like the other  *)
(* is not shorter.                                                         *)
LEMMA NotShorter ==
  ASSUME NEW s, NEW t, NEW x, NEW y, s \in Seq(Digits), t \in Seq(Digits),
         x \in Seq(Letters), y \in Seq(Letters), Len(x) > 0, x[1] = "-", s \o x = t \o y
  PROVE  Len(s) >= Len(t)
<1> SUFFICES ASSUME Len(s) < Len(t) PROVE FALSE
  <2>1. Len(s) \in Nat /\ Len(t) \in Nat
    BY LenProperties
  <2>2. QED
    BY <2>1
<1>1. s \in Seq(Letters) /\ t \in Seq(Letters)
  BY TextsOfLetters
<1>2. (s \o x)[Len(s) + 1] = "-"
  BY <1>1, JoinedLetters
<1>3. Len(s) + 1 \in 1 .. Len(t)
  BY LenProperties
<1>4. (t \o y)[Len(s) + 1] = t[Len(s) + 1]
  BY <1>1, <1>3, JoinedLetters
<1>5. t[Len(s) + 1] \in Digits
  BY <1>3, ElementOfSeq
<1>6. QED
  BY <1>2, <1>4, <1>5 DEF Digits

(* A hyphen ends a number: what stands before and behind it can be told.   *)
LEMMA HyphenEnds ==
  ASSUME NEW s, NEW t, NEW u, NEW v, s \in Seq(Digits), t \in Seq(Digits),
         u \in Seq(Letters), v \in Seq(Letters), s \o (<<"-">> \o u) = t \o (<<"-">> \o v)
  PROVE  s = t /\ u = v
<1> DEFINE hu == <<"-">> \o u
           hv == <<"-">> \o v
<1>1. ASSUME NEW x \in Seq(Letters)
      PROVE  <<"-">> \o x \in Seq(Letters) /\ Len(<<"-">> \o x) > 0 /\ (<<"-">> \o x)[1] = "-"
  <2>1. <<"-">> \in Seq(Letters) /\ Len(<<"-">>) = 1 /\ <<"-">>[1] = "-" /\ Len(x) \in Nat
    BY TextsOfLetters, LenProperties
  <2>2. <<"-">> \o x \in Seq(Letters) /\ Len(<<"-">> \o x) = Len(<<"-">>) + Len(x)
    BY <2>1, ConcatProperties
  <2>3. (<<"-">> \o x)[1] = <<"-">>[1]
    BY <2>1, JoinedLetters
  <2>4. QED
    BY <2>1, <2>2, <2>3
<1>2. /\ hu \in Seq(Letters) /\ Len(hu) > 0 /\ hu[1] = "-"
      /\ hv \in Seq(Letters) /\ Len(hv) > 0 /\ hv[1] = "-" /\ s \o hu = t \o hv
  BY <1>1
<1>3. u = v <=> hu = hv
  <2>1. <<"-">> \in Seq(Letters)
    BY TextsOfLetters
  <2>2. QED
    BY <2>1, ConcatSimplifications
<1> HIDE DEF hu, hv
<1>4. Len(s) = Len(t) /\ Len(s) \in Nat
  <2>1. Len(s) >= Len(t)
    BY <1>2, NotShorter
  <2>2. Len(t) >= Len(s)
    BY <1>2, NotShorter
  <2>3. QED
    BY <2>1, <2>2, LenProperties
<1>5. s \in Seq(Letters) /\ t \in Seq(Letters)
  BY TextsOfLetters
<1>6. s = t
  <2>1. ASSUME NEW k \in 1 .. Len(s) PROVE s[k] = t[k]
    <3>1. (s \o hu)[k] = s[k]
      BY <1>2, <1>5, JoinedLetters
    <3>2. (t \o hv)[k] = t[k]
      BY <1>2, <1>4, <1>5, JoinedLetters
    <3>3. QED
      BY <1>2, <3>1, <3>2
  <2>2. QED
    BY <1>4, <1>5, <2>1, SeqEqual
<1>7. hu = hv
  BY <1>2, <1>5, <1>6, ConcatSimplifications
<1>8. QED
  BY <1>3, <1>6, <1>7

LEMMA Joined ==
  ASSUME NEW L, NEW x \in Seq(L), NEW y \in Seq(L), NEW z \in Seq(L)
  PROVE  /\ x \o y \in Seq(L) /\ y \o z \in Seq(L)
         /\ x \o y \o z = x \o (y \o z)
BY ConcatProperties, ConcatAssociative

(* Texts that follow each other may be put together from the right.        *)
LEMMA Grouped ==
  ASSUME NEW L, NEW s, s \in [1 .. 7 -> Seq(L)]
  PROVE  s[1] \o s[2] \o s[3] \o s[4] \o s[5] \o s[6] \o s[7]
           = s[1] \o (s[2] \o (s[3] \o (s[4] \o (s[5] \o (s[6] \o s[7])))))
<1> PICK a, b, c, d, e, f, g :
      a = s[1] /\ b = s[2] /\ c = s[3] /\ d = s[4] /\ e = s[5] /\ f = s[6] /\ g = s[7]
  OBVIOUS
<1> DEFINE ab == a \o b
           abc == ab \o c
           abcd == abc \o d
           abcde == abcd \o e
           fg == f \o g
           efg == e \o fg
           defg == d \o efg
           cdefg == c \o defg
<1>a. a \in Seq(L)
  OBVIOUS
<1>b. b \in Seq(L)
  OBVIOUS
<1>c. c \in Seq(L)
  OBVIOUS
<1>d. d \in Seq(L)
  OBVIOUS
<1>e. e \in Seq(L)
  OBVIOUS
<1>f. f \in Seq(L) /\ g \in Seq(L)
  OBVIOUS
<1>1. ab \in Seq(L)
  BY ONLY <1>a, <1>b, Joined
<1>2. abc \in Seq(L)
  <2> HIDE DEF ab
  <2> QED
    BY ONLY <1>1, <1>c, Joined
<1>3. abcd \in Seq(L)
  <2> HIDE DEF ab, abc
  <2> QED
    BY ONLY <1>2, <1>d, Joined
<1>4. abcde \in Seq(L)
  <2> HIDE DEF abc, abcd
  <2> QED
    BY ONLY <1>3, <1>e, Joined
<1>5. fg \in Seq(L)
  BY ONLY <1>f, Joined
<1>6. efg \in Seq(L)
  <2> HIDE DEF fg
  <2> QED
    BY ONLY <1>e, <1>5, Joined
<1>7. defg \in Seq(L)
  <2> HIDE DEF efg
  <2> QED
    BY ONLY <1>d, <1>6, Joined
<1>8. cdefg \in Seq(L)
  <2> HIDE DEF defg
  <2> QED
    BY ONLY <1>c, <1>7, Joined
<1>9. abcde \o f \o g = abcde \o fg
  <2> HIDE DEF abcde
  <2> QED
    BY ONLY <1>4, <1>f, Joined
<1>10. abcde \o fg = abcd \o efg
  <2> HIDE DEF abcd, fg
  <2> QED
    BY ONLY <1>3, <1>e, <1>5, Joined
<1>11. abcd \o efg = abc \o defg
  <2> HIDE DEF abc, efg
  <2> QED
    BY ONLY <1>2, <1>d, <1>6, Joined
<1>12. abc \o defg = ab \o cdefg
  <2> HIDE DEF ab, defg
  <2> QED
    BY ONLY <1>1, <1>c, <1>7, Joined
<1>13. ab \o cdefg = a \o (b \o cdefg)
  <2> HIDE DEF cdefg
  <2> QED
    BY ONLY <1>a, <1>b, <1>8, Joined
<1>14. a \o b \o c \o d \o e \o f \o g = a \o (b \o (c \o (d \o (e \o (f \o g)))))
  BY ONLY <1>9, <1>10, <1>11, <1>12, <1>13
<1> HIDE DEF ab, abc, abcd, abcde, fg, efg, defg, cdefg
<1>15. QED
  BY <1>14

(* A key is read from the left: name and vendor, the ring size, a hyphen,  *)
(* the message type, the producers, a hyphen, the consumers.               *)
Head_(b) == b.name \o b.vendor
End_(b)  == to_string(b.producer_num) \o (<<"-">> \o to_string(b.consumer_num))
Tail_(b) == b.msg_type_name \o End_(b)

LEMMA KeyRead ==
  ASSUME NEW b \in Creators
  PROVE  /\ key(b) = Head_(b) \o (to_string(b.ring_buffer_sz) \o (<<"-">> \o Tail_(b)))
         /\ to_string(b.ring_buffer_sz) \o (<<"-">> \o Tail_(b)) \in Seq(Letters)
         /\ Head_(b) \in Seq(Letters) /\ Tail_(b) \in Seq(Letters) /\ End_(b) \in Seq(Letters)
         /\ b.msg_type_name \in Seq(Letters) /\ to_string(b.consumer_num) \in Seq(Letters)
<1> DEFINE h  == Head_(b)
           r  == to_string(b.ring_buffer_sz)
           m  == b.msg_type_name
           p  == to_string(b.producer_num)
           c  == to_string(b.consumer_num)
<1>1. r \in Seq(Letters) /\ p \in Seq(Letters) /\ c \in Seq(Letters)
  <2>1. b.ring_buffer_sz \in Numbers /\ b.producer_num \in Numbers /\ b.consumer_num \in Numbers
    BY DEF Numbers
  <2>2. r \in Seq(Digits) /\ p \in Seq(Digits) /\ c \in Seq(Digits)
    BY <2>1, TextAssumption
  <2>3. QED
    BY <2>2, TextsOfLetters
<1>2. h \in Seq(Letters) /\ m \in Seq(Letters)
  <2>1. b.name \in Seq(STRING) /\ b.vendor \in Seq(STRING) /\ m \in Seq(STRING)
    BY CreatorAssumption DEF Benchmarks
  <2>2. b.name \in Seq(Letters) /\ b.vendor \in Seq(Letters) /\ m \in Seq(Letters)
    BY <2>1, TextsOfLetters
  <2>3. QED
    BY <2>2, Joined DEF Head_
<1>3. key(b) = h \o r \o <<"-">> \o m \o p \o <<"-">> \o c
  BY DEF key, make_hidden_unique_key, Head_
<1> HIDE DEF h, r, m, p, c
<1>4. <<"-">> \in Seq(Letters)
  BY TextsOfLetters
<1>5. key(b) = h \o (r \o (<<"-">> \o (m \o (p \o (<<"-">> \o c)))))
  <2> DEFINE dash == <<"-">>
             all  == h \o r \o dash \o m \o p \o dash \o c
             read == h \o (r \o (dash \o (m \o (p \o (dash \o c)))))
  <2> DEFINE parts == <<h, r, dash, m, p, dash, c>>
  <2>1. dash \in Seq(Letters)
    BY <1>4
  <2>2. all = read
    <3> HIDE DEF dash
    <3>1. /\ parts \in [1 .. 7 -> Seq(Letters)]
          /\ parts[1] = h /\ parts[2] = r /\ parts[3] = dash /\ parts[4] = m /\ parts[5] = p
          /\ parts[6] = dash /\ parts[7] = c
      BY ONLY <1>1, <1>2, <2>1
    <3> HIDE DEF parts
    <3>2. QED
      BY ONLY <3>1, Grouped DEF all, read
  <2>3. QED
    BY ONLY <1>3, <2>2 DEF dash, all, read
<1>6. p \o (<<"-">> \o c) \in Seq(Letters)
  <2>1. <<"-">> \o c \in Seq(Letters)
    BY ONLY <1>1, <1>4, JoinedLetters
  <2>2. QED
    BY ONLY <1>1, <2>1, JoinedLetters
<1>7. m \o (p \o (<<"-">> \o c)) \in Seq(Letters)
  BY ONLY <1>2, <1>6, JoinedLetters
<1>8. r \o (<<"-">> \o (m \o (p \o (<<"-">> \o c)))) \in Seq(Letters)
  <2>1. <<"-">> \o (m \o (p \o (<<"-">> \o c))) \in Seq(Letters)
    BY ONLY <1>4, <1>7, JoinedLetters
  <2>2. QED
    BY ONLY <1>1, <2>1, JoinedLetters
<1>9. Tail_(b) = m \o (p \o (<<"-">> \o c)) /\ End_(b) = p \o (<<"-">> \o c)
  BY DEF Tail_, End_, m, p, c
<1>10. QED
  BY ONLY <1>1, <1>2, <1>5, <1>6, <1>7, <1>8, <1>9 DEF h, r, m, p, c

(* Benchmarks of one name, vendor and message type with one key have one   *)
(* ring size and the same numbers of producers and consumers.              *)
LEMMA KeysTellNumbersApart ==
  ASSUME NEW b \in Creators, NEW d \in Creators, key(b) = key(d),
         b.name = d.name, b.vendor = d.vendor, b.msg_type_name = d.msg_type_name
  PROVE  Metadata(b) = Metadata(d)
<1>1. /\ to_string(b.ring_buffer_sz) \in Seq(Digits) /\ to_string(d.ring_buffer_sz) \in Seq(Digits)
      /\ to_string(b.producer_num) \in Seq(Digits) /\ to_string(d.producer_num) \in Seq(Digits)
      /\ b.ring_buffer_sz \in Numbers /\ d.ring_buffer_sz \in Numbers
      /\ b.producer_num \in Numbers /\ d.producer_num \in Numbers
      /\ b.consumer_num \in Numbers /\ d.consumer_num \in Numbers
  <2>1. \A x \in Creators :
          x.ring_buffer_sz \in Numbers /\ x.producer_num \in Numbers /\ x.consumer_num \in Numbers
    BY DEF Numbers
  <2>2. QED
    BY <2>1, TextAssumption
<1> DEFINE rest(x) == to_string(x.ring_buffer_sz) \o (<<"-">> \o Tail_(x))
<1>2. rest(b) = rest(d)
  <2>1. Head_(b) = Head_(d) /\ Head_(b) \o rest(b) = Head_(b) \o rest(d)
    BY KeyRead DEF Head_
  <2>2. Head_(b) \in Seq(Letters) /\ rest(b) \in Seq(Letters) /\ rest(d) \in Seq(Letters)
    BY KeyRead
  <2> HIDE DEF rest
  <2>3. QED
    BY ONLY <2>1, <2>2, ConcatSimplifications
<1>3. to_string(b.ring_buffer_sz) = to_string(d.ring_buffer_sz) /\ Tail_(b) = Tail_(d)
  <2>1. Tail_(b) \in Seq(Letters) /\ Tail_(d) \in Seq(Letters)
    BY KeyRead
  <2>2. QED
    BY ONLY <1>1, <1>2, <2>1, HyphenEnds
<1>4. End_(b) = End_(d)
  <2>1. /\ b.msg_type_name \in Seq(Letters) /\ End_(b) \in Seq(Letters) /\ End_(d) \in Seq(Letters)
        /\ b.msg_type_name \o End_(b) = b.msg_type_name \o End_(d)
    BY <1>3, KeyRead DEF Tail_
  <2>2. QED
    BY ONLY <2>1, ConcatSimplifications
<1>5. to_string(b.producer_num) = to_string(d.producer_num) /\ to_string(b.consumer_num) = to_string(d.consumer_num)
  <2>1. to_string(b.consumer_num) \in Seq(Letters) /\ to_string(d.consumer_num) \in Seq(Letters)
    BY KeyRead
  <2>2. QED
    BY ONLY <1>1, <1>4, <2>1, HyphenEnds DEF End_
<1>6. /\ b.ring_buffer_sz = d.ring_buffer_sz /\ b.producer_num = d.producer_num
      /\ b.consumer_num = d.consumer_num
  BY <1>1, <1>3, <1>5, TextAssumption
<1>7. QED
  BY <1>6 DEF Metadata

(* No row mixes ring sizes or numbers of threads, although its metadata    *)
(* are those of whichever benchmark was filed first, for any benchmarks.   *)
THEOREM RowsDescribeRunsHolds == Spec => []RowsDescribeRuns
<1>1. Rows => RowsDescribeRuns
  <2> SUFFICES ASSUME Rows, NEW row \in stats, NEW b \in Creators, key(b) = row.of,
                      b.name = row.meta.name, b.vendor = row.meta.vendor,
                      b.msg_type_name = row.meta.msg_type_name
               PROVE  row.meta = Metadata(b)
    BY DEF RowsDescribeRuns
  <2>1. PICK d \in Creators : key(d) = row.of /\ row.meta = Metadata(d)
    BY DEF Rows, Made
  <2>2. b.name = d.name /\ b.vendor = d.vendor /\ b.msg_type_name = d.msg_type_name
    BY <2>1 DEF Metadata
  <2>3. QED
    BY <2>1, <2>2, KeysTellNumbersApart
<1>2. QED
  BY <1>1, RowsHold, PTL
=============================================================================
