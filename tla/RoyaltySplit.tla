---------------------------- MODULE RoyaltySplit ----------------------------
(***************************************************************************)
(* royalty.rs: how the winning bid is divided on settlement.  A split is a *)
(* record of three amounts; every product is computed in an i128 whose     *)
(* largest value is I128_MAX, and a product above it aborts the call.      *)
(***************************************************************************)
EXTENDS Integers, I128

BasisPoints == 10000

(* checked_mul(..).expect(..) succeeds on both products. *)
SplitFits(winning_bid, royalty_bps, platform_fee_bps) ==
  /\ winning_bid * royalty_bps <= I128_MAX
  /\ winning_bid * platform_fee_bps <= I128_MAX

(* A variant with a mistake (see UrithiAuction): the seller keeps the fee. *)
BugSellerKeepsFee(winning_bid, royalty_bps, platform_fee_bps) ==
  LET royalty == (winning_bid * royalty_bps) \div BasisPoints
      fee     == (winning_bid * platform_fee_bps) \div BasisPoints
  IN  [seller |-> winning_bid - royalty, royalty |-> royalty, fee |-> fee]

CalculateSplit(winning_bid, royalty_bps, platform_fee_bps) ==
  LET royalty == (winning_bid * royalty_bps) \div BasisPoints
      fee     == (winning_bid * platform_fee_bps) \div BasisPoints
  IN  [seller |-> winning_bid - royalty - fee, royalty |-> royalty, fee |-> fee]

(* distribute_proceeds transfers a part only when it is positive. *)
Payout(part) == IF part > 0 THEN part ELSE 0

TotalPayout(split) ==
  Payout(split.seller) + Payout(split.royalty) + Payout(split.fee)

=============================================================================
