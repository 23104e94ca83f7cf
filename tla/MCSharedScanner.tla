--------------------------- MODULE MCSharedScanner ----------------------------
(***************************************************************************)
(* SharedScanner with a few threads, scanners and implementations, all     *)
(* interchangeable.                                                        *)
(***************************************************************************)
EXTENDS SharedScanner, TLC

Symmetry == Permutations(Threads) \cup Permutations(Scanners) \cup Permutations(Implementations)
=============================================================================
