----------------------------- MODULE MCBenchRun ------------------------------
(* A small instance of BenchRun for TLC.                                   *)
EXTENDS BenchRun
=============================================================================
