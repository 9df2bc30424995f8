------------------------------- MODULE MCSuite -------------------------------
(***************************************************************************)
(* Suite for TLC: benchmarks, calls of go and the texts of numbers.        *)
(***************************************************************************)
EXTENDS Suite

(* std::to_string: the digits of n.                                        *)
Decimal(n) ==
  LET digits[m \in Nat] ==
        LET digit == <<"0", "1", "2", "3", "4", "5", "6", "7", "8", "9">>[(m % 10) + 1]
        IN  IF m < 10 THEN <<digit>> ELSE Append(digits[m \div 10], digit)
  IN  digits[n]

(* A benchmark of a queue of uint32 on a ring of 64.                       *)
Uint32(producer_num, consumer_num, thread_num) ==
  [name |-> <<"uint32">>, vendor |-> <<"mgark">>, ring_buffer_sz |-> 64,
   msg_type_name |-> <<"j">>, producer_num |-> producer_num, consumer_num |-> consumer_num,
   thread_num |-> thread_num, instance |-> 1]

(* Two benchmarks that differ in their numbers of threads alone, and those *)
(* read alike when nothing stands between them.                            *)
Crowded == {Uint32(1, 11, 1), Uint32(11, 1, 1)}

(* Two latency benchmarks that differ in the threads that play alone.      *)
OneOrTwoThreads == {Uint32(2, 2, 1), Uint32(2, 2, 2)}

(* go called twice for a number of messages that both benchmarks of        *)
(* Crowded divide evenly, and then for one more; and go called once.       *)
ThreeCalls == <<22, 22, 23>>
OneCall    == <<4>>
=============================================================================
