-------------------------------- MODULE Suite --------------------------------
(***************************************************************************)
(* A benchmark suite (framework/benchmark_suite.h, go) and its summary     *)
(* (calc_summary of the throughput and of the latency suite).  A call of   *)
(* go makes iteration_num_ rounds; in a round every benchmark is created   *)
(* (framework/factory.h) and run once, in a random order, and its result   *)
(* is filed under the key of the benchmark (framework/benchmark_base.h).   *)
(* The object may be asked to go more than once.                           *)
(*                                                                         *)
(* A benchmark is what its accessors return, and the threads of a latency  *)
(* benchmark.  A run is its number of messages, a measured figure, messages*)
(* per second or the average round trip, that could be anything, and its   *)
(* threads.  A figure is a double: it is given in Parts of one.            *)
(*                                                                         *)
(* A text is a sequence of tokens.                                         *)
(***************************************************************************)
EXTENDS Integers, Sequences, FiniteSets

CONSTANTS
  Creators,       (* benchmark_creators_: the benchmarks they make         *)
  iteration_num_, (* rounds of a call of go                                *)
  MinIterations,  (* rounds below which there is no summary: 100           *)
  Calls,          (* the arguments N of the calls of go, in order          *)
  Figures,        (* the figures a run may measure: f stands for f / Parts *)
  Parts,
  to_string(_)    (* std::to_string: the text of a number                  *)

(* The fields are what the accessors of BenchmarkBase return; instance     *)
(* tells apart the benchmarks for which they all return the same (other    *)
(* template parameters, as how messages are made).                         *)
Benchmarks ==
  [name : Seq(STRING), vendor : Seq(STRING), ring_buffer_sz : Nat, msg_type_name : Seq(STRING),
   producer_num : Nat \ {0}, consumer_num : Nat, thread_num : Nat, instance : Nat]

(* Two static_asserts bound the threads of a latency benchmark.            *)
ASSUME CreatorAssumption ==
  /\ Creators \subseteq Benchmarks /\ IsFiniteSet(Creators)
  /\ \A b \in Creators : b.thread_num <= b.producer_num /\ b.thread_num <= b.consumer_num
ASSUME CountAssumption == iteration_num_ \in Nat /\ MinIterations \in Nat
ASSUME CallAssumption == Calls \in Seq(Nat) /\ Figures \subseteq Nat /\ Parts \in Nat \ {0}

(* The numbers that keys are made of, and what the standard says of their  *)
(* texts: they consist of digits, and two numbers never have the same.     *)
Digits  == {"0", "1", "2", "3", "4", "5", "6", "7", "8", "9"}
Numbers == UNION {{b.ring_buffer_sz, b.producer_num, b.consumer_num} : b \in Creators}

ASSUME TextAssumption ==
  /\ \A n \in Numbers : to_string(n) \in Seq(Digits)
  /\ \A n, m \in Numbers : to_string(n) = to_string(m) => n = m

VARIABLES
  latency,           (* TRUE in a latency suite, where small figures are   *)
                     (* good; FALSE in a throughput suite                  *)
  pc,                (* idle, round, summary, thrown                       *)
  call,              (* calls of go begun                                  *)
  i,                 (* rounds completed in this call                      *)
  remaining,         (* benchmark_creators: those yet to run in the round  *)
  benchmark_results, (* benchmark_results_: metadata and runs of each key  *)
  stats,             (* what the last call of go returned                  *)
  ran                (* history: runs of each benchmark so far             *)

vars == <<latency, pc, call, i, remaining, benchmark_results, stats, ran>>

Init ==
  /\ latency \in BOOLEAN
  /\ pc = "idle" /\ call = 0 /\ i = 0 /\ remaining = {}
  /\ benchmark_results = << >>
  /\ stats = {}
  /\ ran = [b \in Creators |-> 0]

-----------------------------------------------------------------------------
(* The benchmark base class.                                               *)

(* Mutant: nothing between the numbers of producers and consumers.         *)
make_hidden_unique_key_NoDash(b) ==
  b.name \o b.vendor \o to_string(b.ring_buffer_sz) \o <<"-">> \o b.msg_type_name
    \o to_string(b.producer_num) \o to_string(b.consumer_num)

make_hidden_unique_key(b) ==
  b.name \o b.vendor \o to_string(b.ring_buffer_sz) \o <<"-">> \o b.msg_type_name
    \o to_string(b.producer_num) \o <<"-">> \o to_string(b.consumer_num)

key(b) == make_hidden_unique_key(b)

(* The metadata a map entry takes from its benchmark.                      *)
Metadata(b) ==
  [vendor |-> b.vendor, name |-> b.name, ring_buffer_sz |-> b.ring_buffer_sz,
   msg_type_name |-> b.msg_type_name, producer_num |-> b.producer_num,
   consumer_num |-> b.consumer_num]

-----------------------------------------------------------------------------
(* go.                                                                     *)

(* go(N) is entered; without creators it returns an empty result.          *)
Go ==
  /\ pc = "idle" /\ call < Len(Calls)
  /\ call' = call + 1
  /\ i' = 0
  /\ pc' = IF Creators = {} THEN "idle" ELSE IF iteration_num_ > 0 THEN "round" ELSE "summary"
  /\ remaining' = IF iteration_num_ > 0 THEN Creators ELSE {}
  /\ stats' = {}
  /\ UNCHANGED <<latency, benchmark_results, ran>>

(* benchmark_results_[k]: an entry is made if there is none, of which only *)
(* the empty texts and the empty runs are read.                            *)
Entry(k) ==
  IF k \in DOMAIN benchmark_results
  THEN benchmark_results[k]
  ELSE [meta |-> [msg_type_name |-> << >>], runs |-> << >>]

(* The map with that entry of k.                                           *)
Stored(k, entry) ==
  [l \in DOMAIN benchmark_results \cup {k} |->
     IF l = k THEN entry ELSE benchmark_results[l]]

(* Mutant: the entry of the map is assigned, not appended to.              *)
Filed_Overwrite(entry, b, run) == [meta |-> Metadata(b), runs |-> <<run>>]

(* The run is appended to the entry; the metadata are those of the first   *)
(* benchmark filed in it (whose msg_type_name is not empty).               *)
Filed(entry, b, run) ==
  [meta |-> IF entry.meta.msg_type_name = << >> THEN Metadata(b) ELSE entry.meta,
   runs |-> Append(entry.runs, run)]

(* Mutant: the first benchmark of the list is erased, not the one that ran.*)
Erased_First(b) == remaining \ {CHOOSE d \in remaining : TRUE}

(* benchmark_creators.erase(begin(benchmark_creators) + bench_idx)         *)
Erased(b) == remaining \ {b}

(* Mutant: a round too many.                                               *)
MoreRounds_OneMore(n) == n <= iteration_num_

(* The test of the loop over the rounds.                                   *)
MoreRounds(n) == n < iteration_num_

(* After a run: the round goes on; or it ends, and the next one begins     *)
(* with a fresh copy of the list, or the summary.                          *)
NextRun(left) ==
  IF left # {}
  THEN remaining' = left /\ UNCHANGED <<pc, i>>
  ELSE /\ i' = i + 1
       /\ remaining' = IF MoreRounds(i + 1) THEN Creators ELSE {}
       /\ pc' = IF MoreRounds(i + 1) THEN pc ELSE "summary"

(* How many messages a run reports: the loops divide N among the producers,*)
(* of which only thread_num play ping-pong (see Throughput and Latency).   *)
total_msg_published(b)   == (Calls[call] \div b.producer_num) * b.producer_num
a_total_iteration_num(b) == (Calls[call] \div b.producer_num) * b.thread_num

total_msg_num(b) == IF latency THEN a_total_iteration_num(b) ELSE total_msg_published(b)

(* One benchmark drawn at random is created, run, filed and erased.        *)
Run(b, figure) ==
  /\ pc = "round" /\ b \in remaining
  /\ LET run == [total |-> total_msg_num(b), figure |-> figure, thread_num |-> b.thread_num]
     IN  benchmark_results' = Stored(key(b), Filed(Entry(key(b)), b, run))
  /\ ran' = [ran EXCEPT ![b] = @ + 1]
  /\ NextRun(Erased(b))
  /\ UNCHANGED <<latency, call, stats>>

(* The constructor throws, as that of SPSC1 and SPSC2 for a size that is   *)
(* no power of two; or the run does, and then the entry of its key was     *)
(* made before, and stays.                                                 *)
RunThrows(b) ==
  /\ pc = "round" /\ b \in remaining
  /\ \/ UNCHANGED benchmark_results
     \/ benchmark_results' = Stored(key(b), Entry(key(b)))
  /\ pc' = "thrown"
  /\ UNCHANGED <<latency, call, i, remaining, stats, ran>>

-----------------------------------------------------------------------------
(* calc_summary of the two suites.                                         *)

(* Otherwise percentile stats would be highly inaccurate.                  *)
EnoughRounds == iteration_num_ >= MinIterations

(* The comparison of the sort throws when two runs differ in their totals. *)
Comparable(runs) == \A m, n \in DOMAIN runs : runs[m].total = runs[n].total

(* The order of the sorted runs, best first: throughput, then latency.     *)
Faster(a, b)  == a.figure > b.figure
Shorter(a, b) == a.figure < b.figure

Better(a, b) == IF latency THEN Shorter(a, b) ELSE Faster(a, b)

BestFirst(s) == \A m, n \in DOMAIN s : m < n => ~ Better(s[n], s[m])

(* The same runs in another order.                                         *)
SameRuns(s, runs) ==
  \A m \in DOMAIN runs :
    Cardinality({n \in DOMAIN s : s[n] = runs[m]}) = Cardinality({n \in DOMAIN runs : runs[n] = runs[m]})

(* What std::sort may leave: which of two equal runs comes first is not    *)
(* specified.                                                              *)
Sorted(runs) ==
  {s \in [DOMAIN runs -> {runs[n] : n \in DOMAIN runs}] : BestFirst(s) /\ SameRuns(s, runs)}

(* The columns of a row are whole numbers: a figure, a double, is cut off  *)
(* when it is assigned to one.                                             *)
Truncated(figure) == figure \div Parts

(* Mutant: the index of the percentile counts from one.                    *)
AtPercent_FromOne(runs, p) ==
  Truncated(runs[IF Len(runs) * p < 100 THEN 1 ELSE (Len(runs) * p) \div 100].figure)

(* run_stats[run_stats.size() * 0.p], an index from 0, which is cut off.   *)
AtPercent(runs, p) == Truncated(runs[(Len(runs) * p) \div 100 + 1].figure)

Percentiles == {50, 75, 90, 99}

(* A row of either summary, of the sorted runs of key k; names as in       *)
(* ThroughputBenchmarkStats, d[50] being d50.                              *)
ThroughputRow(k, runs) ==
  [of |-> k, meta |-> benchmark_results[k].meta, N |-> runs[1].total,
   iteration_num |-> Len(runs),
   min |-> Truncated(runs[Len(runs)].figure), max |-> Truncated(runs[1].figure),
   d |-> [p \in Percentiles |-> AtPercent(runs, p)]]

(* LatencyBenchmarkStats: the best is the least, and the threads are those *)
(* of the best run.                                                        *)
LatencyRow(k, runs) ==
  [of |-> k, meta |-> benchmark_results[k].meta, N |-> runs[1].total,
   iteration_num |-> Len(runs), thread_num |-> runs[1].thread_num,
   min |-> Truncated(runs[1].figure), max |-> Truncated(runs[Len(runs)].figure),
   d |-> [p \in Percentiles |-> AtPercent(runs, p)]]

(* calc_summary after the last round sorts the runs in the map and makes   *)
(* one row for each key, in no order.  When a comparison throws, sorting   *)
(* stops half done; nothing reads the map after that.                      *)
Summary ==
  /\ pc = "summary"
  /\ LET keys == DOMAIN benchmark_results
     IN  IF EnoughRounds /\ \A k \in keys : Comparable(benchmark_results[k].runs)
         THEN /\ \E sorted \in [keys -> UNION {Sorted(benchmark_results[k].runs) : k \in keys}] :
                   /\ \A k \in keys : sorted[k] \in Sorted(benchmark_results[k].runs)
                   /\ stats' = {IF latency THEN LatencyRow(k, sorted[k])
                                           ELSE ThroughputRow(k, sorted[k]) : k \in keys}
                   /\ benchmark_results' = [k \in keys |-> [benchmark_results[k] EXCEPT !.runs = sorted[k]]]
              /\ pc' = "idle"
         ELSE pc' = "thrown" /\ UNCHANGED <<stats, benchmark_results>>
  /\ UNCHANGED <<latency, call, i, remaining, ran>>

-----------------------------------------------------------------------------

Next ==
  \/ Go \/ Summary
  \/ \E b \in Creators : RunThrows(b) \/ \E figure \in Figures : Run(b, figure)

Spec == Init /\ [][Next]_vars

-----------------------------------------------------------------------------

Keys == {key(b) : b \in Creators}

SingleRunResult == [total : Nat, figure : Figures, thread_num : Nat]

ThroughputBenchmarkStats ==
  [of : Keys, meta : {Metadata(b) : b \in Creators}, N : Nat, iteration_num : Nat,
   min : Nat, max : Nat, d : [Percentiles -> Nat]]

LatencyBenchmarkStats ==
  [of : Keys, meta : {Metadata(b) : b \in Creators}, N : Nat, iteration_num : Nat,
   thread_num : Nat, min : Nat, max : Nat, d : [Percentiles -> Nat]]

(* Types of the variables; only what throws leaves an entry without runs.  *)
TypeOK ==
  /\ pc \in {"idle", "round", "summary", "thrown"}
  /\ call \in 0 .. Len(Calls) /\ i \in 0 .. iteration_num_
  /\ remaining \subseteq Creators /\ (pc = "round" => remaining # {})
  /\ DOMAIN benchmark_results \subseteq Keys
  /\ \A k \in DOMAIN benchmark_results :
       /\ benchmark_results[k].runs \in Seq(SingleRunResult)
       /\ pc # "thrown" => benchmark_results[k].runs # << >>
  /\ stats \subseteq IF latency THEN LatencyBenchmarkStats ELSE ThroughputBenchmarkStats
  /\ ran \in [Creators -> Nat]

(* However the rounds are shuffled, no benchmark gets ahead of another by  *)
(* more than one run, and between calls all have run equally often.        *)
Balanced ==
  \A b, d \in Creators :
    /\ ran[b] - ran[d] <= 1
    /\ pc \in {"idle", "summary"} => ran[b] = ran[d]

(* Every run of every call of go is filed, none twice and none lost when   *)
(* the runs are sorted.                                                    *)
EveryRunFiled ==
  \A k \in Keys :
    LET made == {b \in Creators : key(b) = k}
    IN  Len(Entry(k).runs) =
          Cardinality({run \in made \X (1 .. iteration_num_ * Len(Calls)) : run[2] <= ran[run[1]]})

(* The whole number a row gives for p percent is cut off from the worst of *)
(* the best p percent of the runs: from a run such that at most p percent  *)
(* are strictly better, and more than p percent are as good.  No run lies  *)
(* outside min and max once it is cut off like them, and one reaches each. *)
PercentilesRight ==
  \A row \in stats :
    LET runs  == Entry(row.of).runs
        cut   == {Truncated(runs[n].figure) : n \in DOMAIN runs}
    IN  /\ \A p \in Percentiles : \E m \in DOMAIN runs :
             /\ row.d[p] = Truncated(runs[m].figure)
             /\ 100 * Cardinality({n \in DOMAIN runs : Better(runs[n], runs[m])}) <= p * Len(runs)
             /\ 100 * Cardinality({n \in DOMAIN runs : ~ Better(runs[m], runs[n])}) > p * Len(runs)
        /\ row.min \in cut /\ row.max \in cut
        /\ \A f \in cut : row.min <= f /\ f <= row.max

(* A row never mixes ring sizes or numbers of threads: its columns are     *)
(* those of every benchmark of that name, vendor and message type whose    *)
(* runs it sums up.  (Nothing keeps apart names and vendors that run into  *)
(* each other.)                                                            *)
RowsDescribeRuns ==
  \A row \in stats : \A b \in Creators :
    /\ key(b) = row.of
    /\ b.name = row.meta.name /\ b.vendor = row.meta.vendor
    /\ b.msg_type_name = row.meta.msg_type_name
    => row.meta = Metadata(b)

(* "CRITICAL failures as not all messages were published/consumed - queue  *)
(* appear to have bugs...": the summary says so of runs under one key that *)
(* differ in their totals.  Here every run publishes and consumes all its  *)
(* messages, so it should never have to.                                   *)
NoQueueBlamed ==
  pc = "summary" /\ EnoughRounds =>
    \A k \in DOMAIN benchmark_results : Comparable(benchmark_results[k].runs)
=============================================================================
