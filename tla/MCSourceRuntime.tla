--------------------------- MODULE MCSourceRuntime ---------------------------
(* Instances of SourceRuntime for TLC. *)
EXTENDS SourceRuntime, TLC

CONSTANTS t1, t2, t3, kA, kB, c1

BothFeeds == {"source", "logs"}
LaunchFeed == {"source"}

Symmetry == Permutations(Tasks) \cup Permutations(Settings)
=============================================================================
