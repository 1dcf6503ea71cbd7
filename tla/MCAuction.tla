----------------------------- MODULE MCAuction -----------------------------
(***************************************************************************)
(* Instances of UrithiAuction for TLC.  A listing's start is at time 0 or  *)
(* 1 and its phases last a few units of time; basis points are large, so   *)
(* that they matter for bids of a few units and the divisions round.       *)
(***************************************************************************)
EXTENDS AuctionSale, TLC

CONSTANTS b1, b2, seller, token1, token2, nft1, nft2

(* Bidders who sell nothing are interchangeable. *)
Symmetry == Permutations(Bidders \ Sellers)

DigitalItem(n) == [kind |-> "Digital", token |-> n]
PhysicalItem   == [kind |-> "Physical", token |-> None]

Base(item, token) ==
  [seller |-> seller, item |-> item, payment_token |-> token,
   reserve_price |-> 1, royalty_bps |-> 3000,
   start_time |-> 1, end_time |-> 3,
   min_increment |-> 0, start_price |-> 0, price_decay_per_second |-> 0,
   commit_deadline |-> 0, reveal_deadline |-> 0, max_bidders |-> 0]

English(item) ==
  [format |-> "English"] @@ [min_increment |-> 1] @@ Base(item, token1)

Dutch(item) ==
  [format |-> "Dutch"] @@ [start_price |-> 5] @@ [price_decay_per_second |-> 2]
    @@ [end_time |-> 5] @@ Base(item, token1)

Sealed(item, seats) ==
  [format |-> "SealedBid"] @@ [commit_deadline |-> 2] @@ [reveal_deadline |-> 4]
    @@ [end_time |-> 4] @@ [max_bidders |-> seats] @@ Base(item, token1)

AnyListings ==
  {English(DigitalItem(nft1)),
   [Dutch(DigitalItem(nft1)) EXCEPT !.reserve_price = 2],
   Sealed(DigitalItem(nft1), 2), English(PhysicalItem),
   [Dutch(DigitalItem(nft1)) EXCEPT !.start_price = 3, !.reserve_price = -1]}

DigitalListings ==
  {English(DigitalItem(nft1)), Sealed(DigitalItem(nft1), 0)}

SharedListings ==
  {English(DigitalItem(nft1)),
   [Dutch(DigitalItem(nft1)) EXCEPT !.start_price = 3],
   Sealed(DigitalItem(nft2), 0)}

SealedListings == {Sealed(DigitalItem(nft1), 0)}

PhysicalListings == {English(PhysicalItem)}
=============================================================================
