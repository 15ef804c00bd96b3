----------------------------- MODULE MCListing -----------------------------
(* Listing on small instances. *)
EXTENDS Listing
=============================================================================
