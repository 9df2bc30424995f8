----------------------------- MODULE BenchmarkRun -----------------------------
(***************************************************************************)
(* What one run of a benchmark promises to the suite that calls its go:    *)
(* the clock is started once and before any work is done, all the work     *)
(* asked for is done, and then the run returns.  The throughput benchmark  *)
(* and the latency benchmark are both shown to implement it, so the figure *)
(* each computes is the whole work divided by the time the work took.      *)
(***************************************************************************)
EXTENDS Integers

CONSTANT Work   (* how much is to be done: messages sent and received      *)

VARIABLES
  start_time,   (* when the clock was started, in work done; or Unset      *)
  progress,     (* work done                                               *)
  returned      (* the run is over                                         *)

vars == <<start_time, progress, returned>>

Unset == -1

Init == start_time = Unset /\ progress = 0 /\ returned = FALSE

StartClock ==
  /\ start_time = Unset /\ progress = 0
  /\ start_time' = progress
  /\ UNCHANGED <<progress, returned>>

DoWork ==
  /\ start_time # Unset /\ progress < Work
  /\ progress' = progress + 1
  /\ UNCHANGED <<start_time, returned>>

Return ==
  /\ start_time # Unset /\ progress = Work
  /\ returned' = TRUE
  /\ UNCHANGED <<start_time, progress>>

Next == StartClock \/ DoWork \/ Return

Spec == Init /\ [][Next]_vars

(* Nothing stops a run before it returns.                                  *)
FairSpec == Spec /\ WF_vars(Next)
=============================================================================
