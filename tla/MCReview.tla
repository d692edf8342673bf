------------------------------- MODULE MCReview -------------------------------
(* Numbers only: the configuration gives them. *)
EXTENDS ReviewFeed
=============================================================================
