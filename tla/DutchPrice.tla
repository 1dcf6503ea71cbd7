----------------------------- MODULE DutchPrice -----------------------------
(***************************************************************************)
(* dutch.rs, get_current_price: the price of a Dutch listing at ledger     *)
(* time t.  The decay saturates at I128_MAX and the price has the reserve  *)
(* as its floor.                                                           *)
(***************************************************************************)
EXTENDS Integers, I128

(* A variant with a mistake (see UrithiAuction): the reserve is no floor. *)
BugNoFloor(start_price, reserve_price, decay_per_second, start_time, t) ==
  IF t <= start_time
    THEN start_price
    ELSE start_price - Lesser((t - start_time) * decay_per_second, I128_MAX)

CurrentPrice(start_price, reserve_price, decay_per_second, start_time, t) ==
  IF t <= start_time
    THEN start_price
    ELSE LET decay == Lesser((t - start_time) * decay_per_second, I128_MAX)
         IN  Greater(start_price - decay, reserve_price)

=============================================================================
