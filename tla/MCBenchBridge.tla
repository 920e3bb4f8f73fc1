----------------------------- MODULE MCBenchBridge -----------------------------
(* Two paths over three cases: the path changes, and comes back.            *)
EXTENDS BenchBridge

CONSTANTS p, q

MCCases == <<p, q, p>>

\* TC-06 and TC-08 asked for alone: two cases, one path.
MCRepeatedCases == <<p, p>>
===============================================================================
