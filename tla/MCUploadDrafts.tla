--------------------------- MODULE MCUploadDrafts ---------------------------
(* Small instances of UploadDrafts for TLC. *)
EXTENDS UploadDrafts, TLC

RequestSymmetry == Permutations(Users) \cup Permutations(Documents)
=============================================================================
