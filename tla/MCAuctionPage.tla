---------------------------- MODULE MCAuctionPage ----------------------------
(* Model values for AuctionPage. *)
EXTENDS AuctionPage

CONSTANTS u1, u2
=============================================================================
