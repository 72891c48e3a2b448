----------------------------- MODULE MCBenchmark -----------------------------
(***************************************************************************)
(* Instances of Benchmark.                                                 *)
(***************************************************************************)
EXTENDS Benchmark

AllFaults == {"arguments", "open", "setup", "transfer", "exitcode"}
=============================================================================
