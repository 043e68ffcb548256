-------------------------- MODULE MCLatencyMetrics --------------------------
(***************************************************************************)
(* LatencyMetrics with four redirects, lists of two samples and two        *)
(* latencies: a list may outgrow its bound by two before it is cut.        *)
(***************************************************************************)
EXTENDS LatencyMetrics, TLC

GetSymmetry == Permutations(Gets)
=============================================================================
