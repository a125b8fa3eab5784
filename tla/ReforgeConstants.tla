-------------------------- MODULE ReforgeConstants --------------------------
(* The parameters of the reforge pre-pass of a bulk simulation.              *)
EXTENDS Integers, Sequences

CONSTANTS
  Workers,    \* the goroutines of the pool, at least one
  Gears,      \* sets of equipment
  NoGear,     \* a nil candidate, or nil gear
  Requests,   \* values of request.Candidates: the gear at each position
  Restored,   \* request.OptimizedCandidates: the gear restored from a cache
  Baseline,   \* the gear the player wears
  Reforged,   \* what the optimizer makes of a gear
  JobCap,     \* capacity of the jobs channel (at least 16 in the code)
  FlushSize   \* bulkSimReforgeProgressOptimizedCandidateFlushSize

ASSUME ReforgeAssumption ==
  /\ Workers # {}
  /\ NoGear \notin Gears
  /\ Requests \subseteq Seq(Gears \cup {NoGear})
  /\ Restored \in Seq(Gears)
  /\ Baseline \in Gears
  /\ Reforged \in [Gears -> Gears]
  /\ JobCap \in Nat \ {0}
  /\ FlushSize \in Nat \ {0}
=============================================================================
