---------------------------- MODULE MCPagedFetch ----------------------------
(***************************************************************************)
(* Values for the constants of PagedFetch: a proposal goes from the        *)
(* deposit period to the voting period, and may stay in either.            *)
(***************************************************************************)
EXTENDS PagedFetch

TwoItems == 1..2
ToVoting == {<<"deposit", "voting">>}

=============================================================================
