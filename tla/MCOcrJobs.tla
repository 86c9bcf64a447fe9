------------------------------ MODULE MCOcrJobs ------------------------------
(* Small instances of OcrJobs for TLC. *)
EXTENDS OcrJobs, TLC

MCJobs == 1..2
MCThreeJobs == 1..3

\* A PDF has a page loop and its checks, an image a single unit of work, and a
\* URL neither a hash nor a check.
MCFiles == (1 :> "PDF") @@ (2 :> "IMAGE")
MCFileAndUrl == (1 :> "PDF") @@ (2 :> "URL")
MCMixed == (1 :> "PDF") @@ (2 :> "IMAGE") @@ (3 :> "URL")

ServerSymmetry == Permutations(Servers)
==============================================================================
