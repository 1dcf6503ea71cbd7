------------------------------ MODULE MCListing ------------------------------
(* Model values for Listing, and what the run leaves out. *)
EXTENDS Listing

CONSTANTS i1, i2, d1, d2

(* The seller and the custodian meet in the listed auctions only: a seller who makes more
   than one upload or listing meets a custodian with one certificate and one attestation,
   and the other way round. *)
Apart ==
  \/ /\ files <= 1 /\ attests <= 1 /\ listings <= 1
  \/ /\ uploads <= 1 /\ visit = 1 /\ mount <= 1
=============================================================================
