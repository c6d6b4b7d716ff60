--------------------------- MODULE MCSolverWorker ---------------------------
(***************************************************************************)
(* Two processes on one state directory, a pack that needs two instructions *)
(* and a position that needs one.                                           *)
(***************************************************************************)
EXTENDS SolverWorker, TLC

CONSTANTS pack, position

\* Which process and which signature it is does not matter.
Alike == Permutations(Workers) \cup Permutations(Signatures)

MCWork == [j \in Jobs |-> IF j \in PackJobs THEN 2 ELSE 1]
=============================================================================
