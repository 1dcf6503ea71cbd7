---------------------------- MODULE MCApiGateway ----------------------------
(* Model values for ApiGateway, and what the run leaves out. *)
EXTENDS ApiGateway

CONSTANTS c1, g1, r1

(* The limiters and the replay cache do not look at the auction: while there is one the
   clock stands still and at most two requests have been made since the last restart. *)
Apart == contract # None =>
  now = 0 /\ accepted = {} /\ seenNonces = {} /\ Cardinality(admitted) <= 2
=============================================================================
