------------------------- MODULE MCFeedbackRequests -------------------------
(***************************************************************************)
(* FeedbackRequests on small instances.                                    *)
(***************************************************************************)
EXTENDS FeedbackRequests, TLC

\* Calls are interchangeable, and so are the texts of a message.
Symmetry == Permutations(Calls) \cup Permutations(Messages)

=============================================================================
