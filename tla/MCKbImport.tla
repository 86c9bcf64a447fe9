------------------------------ MODULE MCKbImport ------------------------------
(* Small instances of KbImport for TLC. *)
EXTENDS KbImport, TLC

MCJobs == 1..2
MCKinds == (1 :> "IMAGE") @@ (2 :> "URL")
MCUrls == [j \in MCJobs |-> "URL"]
==============================================================================
