-------------------------------- MODULE MCRepo --------------------------------
(* Small instances of the whole store for TLC. *)
EXTENDS MediaRepo, TLC

(* Locations of different datastores are not interchangeable. *)
MCSymmetry == Permutations(Uploaders) \cup Permutations(Migrators)
                  \cup Permutations(LocalIds \ PinnedIds) \cup Permutations(TargetLocations)
                  \cup Permutations(Locations \ TargetLocations)
=============================================================================
