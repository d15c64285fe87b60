------------------------- MODULE MCProposalPipeline -------------------------
(***************************************************************************)
(* Settings for checking ProposalPipeline.                                 *)
(***************************************************************************)
EXTENDS ProposalPipeline

(* Nothing goes wrong, and fetches are minutes apart. *)
Calm == [top |-> 2, params |-> 0, polls |-> 0, faulty |-> {},
         rated |-> Proposals, tallied |-> Proposals,
         patient |-> TRUE, sameSecond |-> FALSE, late |-> FALSE]

(* The parameters change once. *)
Changing == [Calm EXCEPT !.top = 1, !.params = 1]

(* A classification cannot be stored, as the proposal goes on or ends. *)
FraudFailed == [Calm EXCEPT !.faulty = {"fraud"}, !.tallied = {}]

(* The proposal has no spam likelihood, or the fraud detection panics. *)
Unrated  == [Calm EXCEPT !.rated = {}, !.tallied = {}]
Panicked == [Calm EXCEPT !.faulty = {"panic"}]

(* A view or a tally result cannot be stored, or a page not be written. *)
ViewFailed  == [Calm EXCEPT !.top = 1, !.faulty = {"view"}]
TallyFailed == [Calm EXCEPT !.top = 1, !.faulty = {"tally"}]
PageFailed  == [Calm EXCEPT !.top = 1, !.faulty = {"page"}]

(* Two fetches at any time, and views of one second. *)
Hasty == [Calm EXCEPT !.polls = 2, !.patient = FALSE, !.sameSecond = TRUE]

(* Two fetches, of what may be there before the subscriptions. *)
Late == [Calm EXCEPT !.top = 1, !.polls = 2, !.late = TRUE]

OneCalm == {Calm}
Various == {Changing, FraudFailed, Unrated, Panicked,
            ViewFailed, TallyFailed, PageFailed, Hasty, Late}

=============================================================================
