------------------------------- MODULE MCPurge -------------------------------
(* Small instances of purging without uploads for TLC. *)
EXTENDS PurgeTask, TLC

MCSymmetry == Permutations(Purgers) \cup Permutations(Hashes) \cup Permutations(Locations)

(* Bound: at most two thumbnail rows, which may share a file with each other,  *)
(* with their parent or with the other record.                                 *)
FewThumbs == Cardinality(thumbs) <= 2
=============================================================================
