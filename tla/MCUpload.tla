------------------------------- MODULE MCUpload -------------------------------
(* Small instances of the upload pipeline for TLC. *)
EXTENDS UploadPipeline, TLC

(* Uploaders, media IDs of one origin, hashes and locations are interchangeable. *)
MCSymmetry == Permutations(Uploaders) \cup Permutations(LocalIds)
                  \cup Permutations(Hashes) \cup Permutations(Locations)
=============================================================================
