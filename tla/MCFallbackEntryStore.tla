------------------------ MODULE MCFallbackEntryStore ------------------------
(***************************************************************************)
(* Values for checking FallbackEntryStore with faults.                     *)
(***************************************************************************)
EXTENDS FallbackEntryStore, TLC

(* Every sled operation may fail but the scan of the clean-up: its failure *)
(* is taken for a history without a success, and the success is removed.   *)
AllButScan == Steps \ {"findOk"}

(* Payloads are compared, stored and returned, and nothing else: the       *)
(* successful ones may be exchanged.                                       *)
Symmetry == Permutations(OkData)

=============================================================================
