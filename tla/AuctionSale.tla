----------------------------- MODULE AuctionSale -----------------------------
(***************************************************************************)
(* The auctions of digital items, as sales.  (Attesting a physical item     *)
(* again reopens a settled auction: see SettledIsFinal.)                    *)
(***************************************************************************)
EXTENDS UrithiAuction

OnSale(a) == status[a] # "Absent" /\ Digital(a)
Decided(a) == OnSale(a) /\ status[a] \in {"Ended", "Settled"}

PhaseOf(a) ==
  IF ~OnSale(a) THEN "NotListed"
  ELSE CASE status[a] \in {"Created", "Active"} -> "Open"
         [] status[a] = "Ended"     -> "Sold"
         [] status[a] = "Settled"   -> "Paid"
         [] status[a] = "Cancelled" -> "Void"

WinnerOf(a)    == IF Decided(a) THEN highest_bidder[a] ELSE None
PriceOf(a)     == IF Decided(a) THEN highest_bid[a] ELSE 0
PaidInBy(a, b) == IF OnSale(a) THEN deposited[a][b] ELSE 0

phase   == [a \in AuctionIds |-> PhaseOf(a)]
winner  == [a \in AuctionIds |-> WinnerOf(a)]
price   == [a \in AuctionIds |-> PriceOf(a)]
paid_in == [a \in AuctionIds |-> [b \in Bidders |-> PaidInBy(a, b)]]

AbstractSale == INSTANCE Sale WITH Sales <- AuctionIds, Buyers <- Bidders

(* The three formats implement the same promise: through bids, reveals, cancellation,
   withdrawals and settlement, every step of the contract is a step of the abstract
   sale or none.  Checked and proved where FaithfulBidders is TRUE: a bidder who
   reveals more than he escrowed is sold to without having paid the price in. *)
ImplementsSale == AbstractSale!Spec
=============================================================================
