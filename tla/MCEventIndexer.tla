--------------------------- MODULE MCEventIndexer ---------------------------
(* Model values for EventIndexer. *)
EXTENDS EventIndexer

CONSTANTS a1, b1
=============================================================================
