--------------------------- MODULE MCPreloadCache ---------------------------
(* PreloadCache for TLC: processes are model values. *)
EXTENDS PreloadCache, TLC

\* Processes are interchangeable within the sets that tell them apart.
RunSymmetry == Permutations(Procs \ (Warmers \union Uncached \union Private \union Stuck))
=============================================================================
