# A verification project for lock-free-queues-benchmark

TLA+ models, TLC runs and TLAPS proofs about the two queues of this repository
(`SPSC1`, `SPSC2`) and about the harness that measures queues with them. Paths
are relative to the root of the repository; line numbers are of the commit the
models were written from.

## 1. The system

| component | state | operations | works with |
|---|---|---|---|
| SPSC1 (`benchmark/vendor_specs/spsc1_spec.h`) | ring of slots, each a payload and an atomic flag `busy`; `write_idx_` of the producer, `read_idx_` of the consumer | `emplace`, `peek`, `skip`; client loops `Spsc1SingleQueueProduceAll`, `Spsc1QueueConsumeAll` | one producer and one consumer thread share flags and payloads |
| SPSC2 (`spsc2_spec.h`) | ring of payloads; atomic counters `write_idx_`, `read_idx_`; each side's copy of the other's counter; the consumer's private `batch_buffer_` and checkpoint | the same | the same; the threads share the two counters and the payloads |
| Throughput benchmark (`framework/benchmark_throughput.h`, `go`) | two ready counters, start time, a mutex, totals, largest count, thread lists | start P producers and C consumers, barrier, start time, run the loops, totals, join, checks | calls an adapter's `ProduceAll` and `ConsumeAll` in its threads |
| Round-trip latency benchmark (`framework/benchmark_round_trip_latency.h`, `go`) | two ready counters, start time, totals, two queues | start T threads A and T threads B, barrier, start time, ping-pong, totals, join, check | calls an adapter's `LatencyA` and `LatencyB` |
| Benchmark suites (`framework/benchmark_suite.h`, the two `calc_summary`) | creators, number of rounds, map from key to runs | `go`: rounds in random order; summary with percentiles | calls a benchmark's `go`, files the result under its `key` (`benchmark_base.h:44`) |
| Adapters (`mgark_spec.h`, `atomic_queue_spec.h`) | loop counters | produce all, consume all, ping-pong | external queues |
| Message factories (`factory.h`, `types/order_book.h`) | the last value | make and store a message | the loops |
| Programs (`benchmark/*.cpp`), scripts, build files | none | list instantiations, print CSV, plot | the suites |
| External queues (submodules mgark, atomic_queue) | not in the repository | | the adapters |

What is hard here:

* **Weak memory.** The queues are correct by acquire/release pairs alone. A wrong
  order shows only on some machines, and a test on x86 says nothing about it.
* **Stale copies.** Both threads of SPSC2 act on counters they loaded long ago.
* **Waiting for each other.** Everything spins without a timeout: a lost
  message, a slot never released or a wrong quotient is a hang.
* **Boundaries.** The end of the ring, a batch as long as the ring, a count that
  is not divisible, a percentile of few runs.
* **Time.** Several threads race to take the start time of the run.
* **Reuse.** A suite keeps its results from one call of `go` to the next.
* **Keys.** Results are filed under a text made of several texts and numbers.

What makes each component correct: for a queue, that it is a bounded FIFO without
data races and that its two loops return; for a benchmark run, that the time
starts before the first message and is taken once, that all consumers have
joined before, that the totals add up, that `go` returns, and that it throws only
when the queue is wrong; for a suite, that all benchmarks run equally often,
every run is filed, the percentiles are those of the runs, and a row mixes no
benchmarks that its columns tell apart.
`PROJECT.json` lists every hazard with its line and its properties.

## 2. The modules

### BoundedFifo
The abstract specification of both queues: a history of published and one of
received messages; `Publish` while fewer than `Capacity` wait, `Deliver` the
oldest. `FairSpec` adds that what is published is received.

### BenchmarkRun
The abstract specification of a run of either benchmark, as the suite sees it: the
clock is started once and before any work, all the work asked for is done, and
`go` returns. The figure a run reports is then the whole work over the time it took.

### SPSC1
One action per access to shared memory: `EmplaceWait` (the load that finds the
slot free), `EmplaceWrite` (the payload), `EmplacePublish` (advance, store the
flag), `PeekWait`, `Process` (the payload is read in place), `Skip`. The spin that
does not end is no step. A stale load of a flag can only prolong a spin: while a
thread waits for a slot the other is the only one to write its flag, and reads
of one atomic never go back. The thread's own index moves with the flag store
next to it. The loop counters `p_i`, `c_i` stop at `MsgNum`.

Memory order is modelled by knowledge: writes and reads of payloads are numbered,
`seen` says which of them a thread knows of by happens-before, a release store
puts that into the flag (`view`) and an acquire load joins it. `NoDataRace` says
that whoever touches a payload knows of the other thread's last access to it.

### SPSC2
The counters only grow. A load may return any store coherence allows: `PeekLoad(v)`
any value from the consumer's copy to `write_idx_`, `EmplaceLoad(n)` any of
`readStores`, the stores of `read_idx_` from the one loaded last on. `ConsumeCopy`
is the `memcpy` with the processing of its first message, `ConsumeBatched` takes
the others, `ConsumeDirect` reads the ring in place; they need no step in between
because the consumer's private state alone decides which it is, and because
`NoDataRace` and `NoOverwrite` forbid the producer the cells being read. `batch` is the unread rest
of `batch_buffer_`. A cell behind the ring holds `Garbage`, which is no message.
`Skip` stores `read_idx_` when the checkpoint is reached; that a store carries the knowledge
of the cells taken so far (release) is written into `Skip`, and is not varied by a mutant.

`Spec` has all executions, `InsideSpec` those in which no copy runs over the end of the ring
(`CopyInside`); an execution whose next copy would do so stops there. `MendedFifo` is the
FIFO seen through `Mended`, which puts the message where `Garbage` is.

### Throughput
`go`, thread by thread: `Spawn`, `JoinAndCheck` of the main thread; `ProducerReady`
(the consumers are ready, the adapter is built, the counter goes up), `StartTime`,
`Emplace`, `AddPublished` of a producer; `Join` (the constructor of the adapter),
`ConsumerReady`, `SeeAll`, `Consume`, `AddConsumed`, `MaxConsumed` of a consumer. A
critical section of the mutex is one action, since it shares data with other
critical sections only. A barrier only opens, so the load that finds it open
belongs to the action behind it. Time is measured in messages published: `start_time`
0 is a time before the first message. `Consume` always moves the cursor on, while a mgark
loop leaves the iterator on its last message (`mgark_spec.h:121`, `158`); nothing in the
repository looks at the queue after that, and what it means to the external queue is not
visible. `Vendor` selects the test of the consume
loop: atomic_queue's loop tests the count before a message, the two of mgark
after; and only mgark has a multicast queue, and an `emplace` that can return
without publishing, which the loop tries again (`MaxFailures` bounds how often).
`multicast` is a template parameter; it is a variable that never changes so that
one run covers both kinds. The queue is external: a counter of published
messages and cursors. Mapped to `BenchmarkRun`, work is a message published or
consumed (`Consumed` is the set of a consumer's first message, its second, ..., so
that a sum is a cardinality).

### SPSC1Throughput
The benchmark on the repository's own queue, as `playground.cpp` runs it. It takes
two instances: `Q`, the queue and its loops, and `H`, the benchmark for one producer
and one consumer. A thread inside its loop makes the steps of `Q`, elsewhere those
of `H`; what `H` counts (`log`, `cursor`, `i`) is read off the loop counters of `Q`.
`ImplementsThroughput` says that the whole is a behaviour of `Throughput`, fairness
included: what that module takes for granted of a queue, SPSC1 delivers.

### Latency
`go` and the four ping-pong loops, with two counters for the queues. What A and B
threads do alike (`Ready`, `Add`, `Send`, `Receive`) is written once; a thread is a pair of its
side and its number. `Ready` is the making of the adapter, which joins the queues, and the
increment behind it, in one action: a queue is joined no later than the model has it. The time read by an A thread (`now`) and the exchange that
stores it are two actions. Mapped to `BenchmarkRun`, work is a message sent.

### Suite, MCSuite
`Go`, `Run` (create, run, file, erase), `RunThrows` (the constructor or the run
throws), `Summary`. The random index is a choice. A benchmark is the record of what
its accessors return and the threads of a latency benchmark; `instance` tells apart those
for which all are equal. The key is built as `make_hidden_unique_key` builds it, with texts as
sequences of tokens, because whether two keys collide is a property here. `std::to_string` is
a constant operator: the module assumes that it writes digits and no two numbers alike;
`MCSuite` gives the decimal digits. An entry of the map takes its metadata from the first
benchmark filed, and a row takes them from there. `std::sort` may leave any order in
`Sorted`: the best first, and which of two equal runs comes first is not specified.

A run is its total, its threads and a figure, arbitrary in a small set. The total is that of the
loops: `(N / P) * P` messages, or `(N / P) * T` round trips. A figure is a double, so
it is given in `Parts` of one, and the columns of a row are cut off to whole numbers
(`Truncated`), as the assignment to `size_t` does. Figures that are infinite or negative (a
run in no time at all, a clock set back) are left out; their conversion is undefined.
`latency` tells which of the two suites it is. The constant `MinIterations` is 100 in
the code. `MCSuite` gives benchmarks and calls.

### SPSC1Proofs, SPSC2Proofs, ThroughputProofs, LatencyProofs, SuiteProofs, SPSC1ThroughputProofs
The theorems about the module each is named after, section 5.

### Counting
Lemmas for the proofs about threads and runs: counters as numbers of threads, totals of loop counters as
numbers of pairs of a thread and a turn of its loop.

Operators named `Definition_Something` after a comment "Mutant" are wrong variants
of the definition that follows: each property is known to fail for one of them.

## 3. The runs

| run | instance | shows |
|---|---|---|
| spsc1 | 4 slots, 10 messages | types, `NoDataRace`, `InOrder`, `NoOverwrite`, implements `BoundedFifo`, both loops return |
| spsc2 | 8 slots, 2 batches a lap, buffer of 3, 20 messages, no copy over the end (`InsideSpec`) | `InOrder`, implements `BoundedFifo` |
| spsc1_throughput | SPSC1 inside the benchmark | implements `Throughput` with its fairness; the last value stored is the last produced |
| spsc2_batch | the same with copies from anywhere (`FairSpec`) | `NoDataRace`, `NoOverwrite`, `NoStaleMessage`, `ConsumerLag`, `NoMutualWait`, implements `BoundedFifo` but for values from behind the ring, both loops return |
| throughput | 3 producers, 2 consumers, 9 messages, queue of 3, one failing `emplace`; multicast and anycast | `JoinedBeforeMessages`, `NoFalseAlarm`, `TotalsAddUp`, implements `BenchmarkRun` (honest clock, all work done, `go` returns) |
| latency | 2 threads a side, 2 trips each, queues of 1 | `OneBall`, `JoinedBeforeBall`, `RoundTripsAddUp`, implements `BenchmarkRun` |
| suite | 2 benchmarks, 3 rounds, 3 calls of `go`, the last for another number of messages, figures in halves | `Balanced`, `EveryRunFiled`, `PercentilesRight`, `RowsDescribeRuns`, in a throughput and in a latency suite |

**Bounds.** Ten or eleven messages go two and a half times round a ring of four, and
twenty round one of eight, so every slot is reused after it was freed, with the
producer ahead by every distance the ring allows, and SPSC2 passes several
checkpoints. A ring of eight with copies of three gives copies from every slot; a buffer of one
message would never alternate between copies and reads in place, one of three does. Two
threads of a kind are enough for every race in the harness, as no code
distinguishes a third; three producers against two consumers give a remainder:
anycast consumers leave one message unread. (For more than two consumers `TotalsAddUp` allows up to
`C - 1` unread messages, as the quotient does; the comment at `benchmark_throughput.h:204`
speaks of one in the worst case.) A queue smaller than the messages
makes the producers wait. One failing `emplace` (`MaxFailures`) comes at every
turn of every producer's loop. Two benchmarks with 1 and 11 threads are those whose
keys a missing separator would confuse. Two figures, one of them with a fraction, make runs better,
worse and equal, and a column differ from the figure it is cut off from. Message values are bounded by `MsgNum`, runs by
their loops; no other bound is used.

**Deadlock** is not checked, because every program stops; an early stop is what
the `Completes` properties and the refinements with fairness find.

### What the code does otherwise
| run | finds |
|---|---|
| spsc2_straddle | `peek` copies past the end of the ring when the index is misaligned: the last value the consumer gets is not the last produced (`spsc2_spec.h:89`, against `benchmark_throughput.h:283`) |
| spsc2_onebatch | `BATCH_NUM` = 1, a power of two as line 26 asks, hangs both threads (`spsc2_spec.h:104`) |
| throughput_alarm | more anycast consumers than producers: `go` throws on a correct queue (`benchmark_throughput.h:280`) |
| throughput_none | fewer messages than consumers: a mgark loop told to consume none never ends (`mgark_spec.h:158`); the comment at `benchmark_throughput.h:204` says "terminate gracefully" |
| suite_samekey | two latency benchmarks that differ only in the threads that play (`_THREAD_N_`) have one key; their totals differ, so the summary throws and says that the "queue appear to have bugs" although each run is complete (`benchmark_base.h:46`, against `benchmark_round_trip_latency.h:118`) |

`InOrder` and the FIFO with the values as they are hold of SPSC2 in the executions in which no
copy runs over the end of the ring (run spsc2). `NoStaleMessage`, which holds of all, says
where they fail: a value that is not the right message comes from behind the ring, and stands
for a message of one of the first `BatchBuf - 1` slots after the first lap. The programs use
`BATCH_NUM` 4 and uint32 messages, 64 to a copy, so such copies can occur in them. The
programs do not use the numbers of threads of throughput_alarm and throughput_none, nor put
benchmarks with equal keys into one suite, nor call `go` of a suite twice.

A second `go` adds its runs to those of the first (run suite); with another number of
messages it throws in the summary's comparison (`Comparable`), as it meets the runs
of the first, with the same message about the queue. Benchmarks that differ in nothing that
changes the totals, as two contexts of the atomic_queue library, which all give one `VENDOR`
(`atomic_queue_spec.h:26`, `38`, `49`, `60`), or two ways to make messages, share a row, which
then sums up the runs of both. Names and vendors that run into each other (`ab`, `c` and `a`, `bc`)
are not told apart by a key either; `RowsDescribeRuns` leaves them out.

## 4. Fairness

Each loop runs on a thread of its own and never blocks in the kernel except for
the mutex, whose critical sections are single steps: weak fairness of each
thread. In SPSC2 a thread must also eventually load the latest value of a counter
it keeps loading; the standard asks that stores become visible in a finite time.
Strong fairness is nowhere assumed: an anycast consumer may lose every race, and
yet `go` returns, since the others stop when they have their share.

## 5. What is proved

Every theorem is about every value of the constants that the assumptions of the
module allow (sizes above 0, at least one thread of a kind), where the runs have
one. Each module of proofs lists its invariant by named parts at its head.

### SPSC1Proofs
The proofs do not need that `N_` is a power of two: `& (N_ - 1)` is modelled by
`% N_`, which is the same for powers of two only, hence the assumption `PowerOfTwo`
in the module.

* `TypeCorrect`: `TypeOK` is inductive.
* `NoDataRaceHolds`. `NoDataRace` is not inductive: it speaks of the moment before an access.
  `Handshake` (whoever is inside a slot finds the flag as it left it) keeps the two
  threads apart, and `Ordered` adds that the knowledge in a busy flag covers the
  slot's last write and that in a free one its last read.
* `InOrderHolds`, `NoOverwriteHolds`. `Ring`: the busy slots are the `p_i - c_i` slots from
  `read_idx_` on, and the one at distance `d` holds message `c_i + d + 1`.
* `ImplementsBoundedFifo`: `Spec => Fifo!Spec`. `Counted` says that the mapped history is
  `1 .. p_i`; then `EmplacePublish` is `Publish`, with room by `Ring`, `Process` is `Deliver`, and
  all other steps stutter.

### SPSC2Proofs
* `TypeCorrect`. `Types` is inductive; that the stale copies stay within the messages follows from
  `Stores` and `Window` below, and `BufferRoom` says that the buffer is never full.
* `NoDataRaceHolds`. `Stores`: every store of `read_idx_` that the producer may still load
  carries knowledge of the messages taken when it was made, and later stores are of larger
  values. `Window`: the two copies lie on the safe side of the counters and within what
  the thread knows, so `write_idx_` stays within a lap of them. It does not matter which
  of the allowed stores a load returns.
* `NoOverwriteHolds`, `NoStaleMessageHolds`. `Contents`: the cells of that window hold their
  messages (two counters less than a lap apart never share a slot), and a message in the
  private buffer is right or comes from behind the ring (`RightOrLost`); the arithmetic of a
  slot behind the ring (`SlotBehind`) tells for which messages that can be. No hypothesis.
* `ImplementsMendedBoundedFifo`: `Spec => MendedFifo!Spec`, without a hypothesis. By `Contents`
  the mended histories are `1 .. write_idx_` and `1 .. Len(received)`; so storing
  `write_idx_` is `Publish`, with room by `Window`, each of the three ways to return a message is
  `Deliver`, and all other steps stutter.
* `InOrderHolds`, `ImplementsBoundedFifo`: `InsideSpec => []InOrder`, `InsideSpec => Fifo!Spec`,
  for all rings and buffers, copies and reads in place alternating as they may. `Exact`: what is
  received and what is in the buffer is right. The code does not see to `CopyInside` (run
  spsc2_straddle), which is why it is a condition on executions.
* `ConsumerLagHolds`, `NoMutualWaitHolds`. `Lag`: the next checkpoint is at most a batch
  ahead of `read_idx_`. The second needs `BATCH_NUM > 1` (run spsc2_onebatch shows why; the
  programs use 4).

### ThroughputProofs
`Basis`: types, `Barrier` (a ready counter is the number of threads behind its increment; so
when it is full everybody is behind it) and `Loops` (the counts at each control point).
`Queue`: `log` is the number of turns of the producers' loops, the position of an anycast
queue that of the consumers'. `Sums`, `Over`, `Clock`: the totals are those of the threads
that have added theirs, `go` leaves after everybody, and nobody publishes before the
start time is stored.

* `TypeCorrect`, `JoinedBeforeMessagesHolds`, `TotalsAddUpHolds`: for all numbers of threads,
  messages and failing `emplace` calls, all vendors, both kinds of queue.
* `NoFalseAlarmMulticast`, and `NoFalseAlarmHolds` for `C <= P`. More anycast consumers than
  producers are what run throughput_alarm is about.
* `ImplementsBenchmarkRun`: `Spec => BR!Spec` for `EnoughMessages`: a mgark loop has a message
  for each consumer. Without it a consumer told to take none (run throughput_none) takes
  all it can get, and more than the whole work would be done.

### LatencyProofs
`Barrier` and `Loops` as above. `Bootstrap` and `OneBall`: only the first A thread sends without
having received, and once. `Counts`: sent and received messages of both sides, trip by
trip, against the queues. With these `Ended` threads determine the totals, and `Clock` the
start time. `TypeCorrect`, `OneBallHolds`, `JoinedBeforeBallHolds`, `RoundTripsAddUpHolds`,
`ImplementsBenchmarkRun`, all without hypotheses.

### SuiteProofs
`Rounds`: a benchmark has run once a completed round, and once more if it has left
`remaining`. `Map`: only an exception leaves an entry without runs, and metadata are those
of a benchmark with that key. `FiledRuns`: runs of a key are the turns of its benchmarks.
`Rows`: what the summary returned is about the runs as they stand, until the next call.

* `TypeCorrect`, `BalancedHolds`, `EveryRunFiledHolds`, for all benchmarks, rounds and calls.
* `PercentilesRightHolds`: before index `m` of sorted runs there are at most `m` better ones,
  and up to it `m + 1` as good; the arithmetic of the truncated index does the rest.
* `RowsDescribeRunsHolds`, without a hypothesis on the keys: benchmarks of one name, vendor and
  message type with equal keys have equal metadata (`KeyRead` reads the key from the left; the ring
  size ends at the first hyphen behind it, the producers at the next, because numbers are written
  in digits alone). It rests on the assumption about `to_string`.

### SPSC1ThroughputProofs
The composition takes over both proofs. A step of it is a step of SPSC1 or leaves it
alone (`ImplementsQueue`), so `Handshake`, `Ring` and `InOrder` hold in it; from them, the
producer that stores a flag has room and the consumer that skips has a message
(`RoomAndMessage`), so the step is a step of `Throughput` or leaves that alone
(`ImplementsThroughputSafety`). The theorems of ThroughputProofs then give
`BenchmarkIsRight` and `ImplementsBenchmarkRun`; their hypotheses are true of one producer
and one consumer of SPSC1. `LastValueStoredHolds` puts the two sides together: the totals say
that all messages are consumed, and `InOrder` which one was last.

### Only model-checked
Liveness: `Completes`, and the fairness in `ImplementsFifo`, `ImplementsRun` and
`ImplementsThroughput`, whose safety parts are proved. It needs ENABLED, which is out of
the prover's reach. What `std::to_string` writes is assumed (`TextAssumption`; the runs evaluate it for decimal digits).
An induction would be needed for the existence of a sorted order of the runs (that a summary can
always be made). That the five findings are real is shown by their runs.

## 6. Not modelled

The external queues (their code is not here; they are taken as correct); message
contents beyond a number, so also `OrderBook`; destructors; pinning to cores (stored
and not used by `go`); the CSV output and the scripts; what the ping-pong adapters of mgark
do when `emplace` does not publish (they ignore its code, and the ball would be
lost; when it happens the repository does not tell); `benchmark_creator`, which
wraps a constructor, and `ProduceSameValue`; a second `go` of one benchmark object
and threads that cannot be started (see the hazards); integers beyond their width, which would take 2^31 round
trips or 2^64 messages. Sizes 0 are excluded: they pass the checks of the
constructors (`N & (N - 1)`, and `BATCH_NUM` = 0 the `static_assert`) and are undefined from then on.

## 7. Plan

Done: `BoundedFifo`, `SPSC1` with its proofs, `SPSC2`, `Throughput`, `Latency`, `Suite`, in
this order, the queues first because everything that the repository itself
implements of a lock-free algorithm is in them; then `BenchmarkRun` with the two
refinements, `SPSC1Throughput`, failing `emplace` calls, keys and rows; then the proofs
of section 5, module by module.

Next: the composition of `SPSC2` with the throughput benchmark, and the proof that its
steps are those of `Throughput`, as for SPSC1; that a summary is refused only for too few
rounds or runs of different totals; action properties of the suite's map (runs are
appended, and only a summary reorders them).
