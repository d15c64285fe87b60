--------------------------- MODULE MCTallyResults ---------------------------
(***************************************************************************)
(* Three proposals, so that one may fail between two others.               *)
(***************************************************************************)
EXTENDS TallyResults

Three == 1..3

=============================================================================
