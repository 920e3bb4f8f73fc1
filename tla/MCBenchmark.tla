------------------------------- MODULE MCBenchmark -------------------------------
(* Three cases, one of them custom and one with a path that shifts;         *)
(* requests of two cases, of one case twice, of none, and a rejected one.   *)
EXTENDS Benchmark, TLC

CONSTANTS a, b, c

MCTests == {Invalid, <<>>, <<a, b>>, <<b, b>>}
MCDuration == (a :> 1) @@ (b :> 2) @@ (c :> 2)
===============================================================================
