--------------------------- MODULE OutcomeProofs ----------------------------
(***************************************************************************)
(* How auctions end, and for whom: a Dutch buyer pays a price the auction   *)
(* showed, the best sealed bid wins, physical items are sold only once      *)
(* attested, the seats of a sealed auction are counted, and the three       *)
(* formats implement Sale.                                                  *)
(***************************************************************************)
EXTENDS AuctionSale, UrithiAuctionProofs, FiniteSetTheorems

(* None of the four properties is inductive.  The winner of a sealed auction stays the
   best only because nobody can reveal any more; a leader tells of an attestation only
   because every state that can produce one does; a price is compared with earlier ones
   only because the listing passed ValidSchedule. *)
Committers(a) == {b \in Bidders : commitments[a][b] # None}

Blank(a) ==
  /\ highest_bidder[a] = None /\ revealed_bids[a] = <<>>
  /\ Committers(a) = {} /\ bidder_count[a] = 0

PaidShownPrice(a) ==
  listing[a].format = "Dutch" =>
    /\ ValidSchedule(listing[a])
    /\ highest_bidder[a] # None => highest_bid[a] = DutchPriceAt(a, last_bid_at[a])

Won(a, w) ==
  /\ w \in DOMAIN revealed_bids[a] /\ IsWinningEntry(a, w)
  /\ highest_bidder[a] = revealed_bids[a][w].bidder
  /\ highest_bid[a] = revealed_bids[a][w].amount

BestWon(a) ==
  listing[a].format = "SealedBid" /\ status[a] \in {"Ended", "Settled"} =>
    now >= listing[a].reveal_deadline /\ \E w \in DOMAIN revealed_bids[a] : Won(a, w)

NothingUnattested(a) ==
  Physical(a) /\ ~attested[a] =>
    /\ status[a] \in {"Created", "Cancelled"}
    /\ highest_bidder[a] = None /\ revealed_bids[a] = <<>> /\ Committers(a) = {}

Seated(a) ==
  /\ IsFiniteSet(Committers(a))
  /\ bidder_count[a] = Cardinality(Committers(a))
  /\ listing[a].max_bidders > 0 => bidder_count[a] <= listing[a].max_bidders

Ends(a) ==
  /\ status[a] = "Absent" => Blank(a)
  /\ status[a] # "Absent" =>
       PaidShownPrice(a) /\ BestWon(a) /\ NothingUnattested(a) /\ Seated(a)

OutcomeInv == \A a \in AuctionIds : Ends(a)

LEMMA OutcomeInit == Init => OutcomeInv
BY DEF Init, OutcomeInv, Ends, Blank, Committers

-----------------------------------------------------------------------------
(* What Ends reads of auction a besides its status and the time. *)
SameBook(a) ==
  /\ listing'[a] = listing[a] /\ attested'[a] = attested[a]
  /\ highest_bidder'[a] = highest_bidder[a] /\ highest_bid'[a] = highest_bid[a]
  /\ last_bid_at'[a] = last_bid_at[a] /\ bidder_count'[a] = bidder_count[a]
  /\ revealed_bids'[a] = revealed_bids[a] /\ commitments'[a] = commitments[a]

(* A step that moves the status of a at most, to none that needs a winner or an
   attestation it has not, keeps its ends. *)
LEMMA EndsFrame ==
  ASSUME TypeOK, TypeOK', NEW a \in AuctionIds, Ends(a), SameBook(a), now' >= now,
         status[a] = "Absent" <=> status'[a] = "Absent",
         status'[a] \in {"Ended", "Settled"} /\ listing[a].format = "SealedBid" =>
           status[a] \in {"Ended", "Settled"},
         status[a] # "Absent" /\ Physical(a) /\ ~attested[a] =>
           status'[a] \in {"Created", "Cancelled"}
  PROVE  Ends(a)'
<1>1. Committers(a)' = Committers(a)
  BY DEF SameBook, Committers
<1>2. status[a] = "Absent" => Blank(a)'
  BY <1>1 DEF Ends, Blank, SameBook
<1>3. ASSUME status[a] # "Absent"
      PROVE  PaidShownPrice(a)' /\ BestWon(a)' /\ NothingUnattested(a)' /\ Seated(a)'
  <2>1. PaidShownPrice(a)'
    BY <1>3 DEF Ends, PaidShownPrice, SameBook, DutchPriceAt, CurrentPrice
  <2>2. BestWon(a)'
    <3>1. now \in Nat /\ now' \in Nat /\ listing[a].reveal_deadline \in Nat
      BY <1>3, ListingFields DEF TypeOK, IsListing
    <3>2. \A w : Won(a, w) => Won(a, w)'
      BY DEF Won, IsWinningEntry, SameBook
    <3>. QED
      BY <1>3, <3>1, <3>2 DEF Ends, BestWon, SameBook
  <2>3. NothingUnattested(a)'
    BY <1>1, <1>3 DEF Ends, NothingUnattested, Physical, SameBook
  <2>4. Seated(a)'
    BY <1>1, <1>3 DEF Ends, Seated, SameBook
  <2>. QED
    BY <2>1, <2>2, <2>3, <2>4
<1>. QED
  BY <1>2, <1>3 DEF Ends

(* For the auctions a step is not about. *)
LEMMA EndsElsewhere ==
  ASSUME TypeOK, TypeOK', OutcomeInv, NEW a \in AuctionIds, SameBook(a), now' = now,
         status'[a] = status[a]
  PROVE  Ends(a)'
<1>1. Ends(a) /\ now \in Nat
  BY DEF OutcomeInv, TypeOK
<1>2. status[a] # "Absent" /\ Physical(a) /\ ~attested[a] =>
        status[a] \in {"Created", "Cancelled"}
  BY <1>1 DEF Ends, NothingUnattested
<1>. QED
  BY <1>1, <1>2, EndsFrame

LEMMA EndsCreate ==
  ASSUME TypeOK, TypeOK', OutcomeInv, NEW l \in Listings, CreateAuction(l)
  PROVE  OutcomeInv'
<1>. SUFFICES ASSUME NEW a \in AuctionIds PROVE Ends(a)'
  BY DEF OutcomeInv
<1>. DEFINE new == auction_count
<1>1. /\ new \in AuctionIds /\ ValidSchedule(l)
      /\ listing' = [listing EXCEPT ![new] = l]
      /\ status' = [status EXCEPT ![new] = "Created"]
      /\ UNCHANGED <<now, attested, highest_bidder, highest_bid, last_bid_at,
                     bidder_count, revealed_bids, commitments>>
  BY DEF CreateAuction, platform, sealed
<1>2. CASE a = new
  <2>1. status[a] = "Absent" /\ status'[a] = "Created" /\ listing'[a] = l
    <3>1. status[a] = "Absent" /\ status'[a] = "Created"
      BY <1>1, <1>2, BoundsAssumption DEF TypeOK, AuctionIds
    <3>2. listing'[a] = l
      BY <1>1, <1>2 DEF TypeOK
    <3>. QED
      BY <3>1, <3>2
  <2>2. Blank(a) /\ Committers(a)' = Committers(a)
    BY <1>1, <2>1 DEF OutcomeInv, Ends, Committers
  <2>3. PaidShownPrice(a)' /\ BestWon(a)' /\ NothingUnattested(a)'
    BY <1>1, <2>1, <2>2 DEF Blank, PaidShownPrice, ValidSchedule, BestWon, NothingUnattested
  <2>4. Seated(a)'
    <3>1. l.max_bidders \in Nat
      BY ListingsAssumption DEF IsListing
    <3>. QED
      BY <1>1, <2>1, <2>2, <3>1, FS_EmptySet DEF Blank, Seated
  <2>. QED
    BY <2>1, <2>3, <2>4 DEF Ends
<1>3. CASE a # new
  <2>1. SameBook(a) /\ status'[a] = status[a]
    BY <1>1, <1>3 DEF SameBook, TypeOK
  <2>. QED
    BY <1>1, <2>1, EndsElsewhere
<1>. QED
  BY <1>2, <1>3

LEMMA EndsPlaceBid ==
  ASSUME TypeOK, TypeOK', OutcomeInv, NEW x \in AuctionIds, NEW b \in Bidders,
         NEW amount \in Amounts, PlaceBid(x, b, amount)
  PROVE  OutcomeInv'
<1>. SUFFICES ASSUME NEW a \in AuctionIds PROVE Ends(a)'
  BY DEF OutcomeInv
<1>1. /\ status[x] = "Active" /\ listing[x].format = "English"
      /\ highest_bidder' = [highest_bidder EXCEPT ![x] = b]
      /\ highest_bid' = [highest_bid EXCEPT ![x] = amount]
      /\ last_bid_at' = [last_bid_at EXCEPT ![x] = now]
      /\ UNCHANGED <<now, listing, status, attested, bidder_count, revealed_bids, commitments>>
  BY DEF PlaceBid, platform, lifecycle, sealed
<1>2. CASE a = x
  <2>1. Ends(a) /\ Committers(a)' = Committers(a)
    BY <1>1 DEF OutcomeInv, Committers
  <2>2. PaidShownPrice(a)' /\ BestWon(a)'
    BY <1>1, <1>2 DEF PaidShownPrice, BestWon
  <2>3. NothingUnattested(a)'
    BY <1>1, <1>2, <2>1 DEF Ends, NothingUnattested, Physical
  <2>4. Seated(a)'
    BY <1>1, <1>2, <2>1 DEF Ends, Seated
  <2>. QED
    BY <1>1, <1>2, <2>2, <2>3, <2>4 DEF Ends
<1>3. CASE a # x
  <2>1. SameBook(a) /\ status'[a] = status[a]
    BY <1>1, <1>3 DEF SameBook, TypeOK
  <2>. QED
    BY <1>1, <2>1, EndsElsewhere
<1>. QED
  BY <1>2, <1>3

(* The buyer pays the price of the moment. *)
LEMMA EndsBuyNow ==
  ASSUME TypeOK, TypeOK', OutcomeInv, NEW x \in AuctionIds, NEW b \in Bidders,
         NEW max_price \in Amounts \cup {None}, BuyNow(x, b, max_price)
  PROVE  OutcomeInv'
<1>. SUFFICES ASSUME NEW a \in AuctionIds PROVE Ends(a)'
  BY DEF OutcomeInv
<1>1. /\ status[x] = "Active" /\ listing[x].format = "Dutch"
      /\ highest_bidder' = [highest_bidder EXCEPT ![x] = b]
      /\ highest_bid' = [highest_bid EXCEPT ![x] = DutchPriceAt(x, now)]
      /\ status' = [status EXCEPT ![x] = "Ended"]
      /\ last_bid_at' = [last_bid_at EXCEPT ![x] = now]
      /\ UNCHANGED <<now, listing, attested, bidder_count, revealed_bids, commitments>>
  BY DEF BuyNow, platform, lifecycle, sealed
<1>2. CASE a = x
  <2>1. Ends(a) /\ Committers(a)' = Committers(a)
    BY <1>1 DEF OutcomeInv, Committers
  <2>2. PaidShownPrice(a)'
    <3>1. highest_bid'[a] = DutchPriceAt(a, now) /\ last_bid_at'[a] = now
      BY <1>1, <1>2 DEF TypeOK
    <3>2. DutchPriceAt(a, now) = DutchPriceAt(a, last_bid_at[a])'
      BY <1>1, <3>1 DEF DutchPriceAt, CurrentPrice
    <3>. QED
      BY <1>1, <1>2, <2>1, <3>1, <3>2 DEF Ends, PaidShownPrice
  <2>3. BestWon(a)'
    BY <1>1, <1>2 DEF BestWon
  <2>4. NothingUnattested(a)'
    BY <1>1, <1>2, <2>1 DEF Ends, NothingUnattested, Physical
  <2>5. Seated(a)'
    BY <1>1, <1>2, <2>1 DEF Ends, Seated
  <2>6. status'[a] # "Absent"
    BY <1>1, <1>2 DEF TypeOK
  <2>. QED
    BY <2>2, <2>3, <2>4, <2>5, <2>6 DEF Ends
<1>3. CASE a # x
  <2>1. SameBook(a) /\ status'[a] = status[a]
    BY <1>1, <1>3 DEF SameBook, TypeOK
  <2>. QED
    BY <1>1, <2>1, EndsElsewhere
<1>. QED
  BY <1>2, <1>3

(* A commitment takes a seat that is free. *)
LEMMA EndsCommitBid ==
  ASSUME TypeOK, TypeOK', OutcomeInv, NEW x \in AuctionIds, NEW b \in Bidders,
         NEW amount \in Amounts, NEW sealed_amount \in Amounts,
         CommitBid(x, b, amount, sealed_amount)
  PROVE  OutcomeInv'
<1>. SUFFICES ASSUME NEW a \in AuctionIds PROVE Ends(a)'
  BY DEF OutcomeInv
<1>. DEFINE record == [commitment |-> Commitment(sealed_amount, x, b), amount |-> amount]
<1>1. /\ status[x] = "Active" /\ listing[x].format = "SealedBid"
      /\ SeatFree(x) /\ commitments[x][b] = None
      /\ commitments' = [commitments EXCEPT ![x][b] = record]
      /\ bidder_count' = [bidder_count EXCEPT ![x] = @ + 1]
      /\ UNCHANGED <<now, listing, attested, status, highest_bidder, highest_bid,
                     last_bid_at, revealed_bids>>
  BY DEF CommitBid, platform, lifecycle, leader
<1>2. CASE a = x
  <2>1. Ends(a)
    BY DEF OutcomeInv
  <2>2. Committers(a)' = Committers(a) \cup {b} /\ b \notin Committers(a)
    <3>1. record \in CommitmentRecords
      BY DEF Commitment, CommitmentRecords
    <3>2. /\ commitments'[a][b] # None
          /\ \A c \in Bidders \ {b} : commitments'[a][c] = commitments[a][c]
      BY <1>1, <1>2, <3>1, NoneAssumption DEF TypeOK
    <3>. QED
      BY <1>1, <1>2, <3>2 DEF Committers
  <2>3. PaidShownPrice(a)' /\ BestWon(a)'
    BY <1>1, <1>2 DEF PaidShownPrice, BestWon
  <2>4. NothingUnattested(a)'
    BY <1>1, <1>2, <2>1 DEF Ends, NothingUnattested, Physical
  <2>5. Seated(a)'
    <3>1. Seated(a) /\ bidder_count[a] \in Nat /\ listing[a].max_bidders \in Nat
      BY <1>1, <1>2, <2>1, ListingFields DEF Ends, TypeOK, IsListing
    <3>2. bidder_count'[a] = bidder_count[a] + 1
      BY <1>1, <1>2 DEF TypeOK
    <3>3. /\ IsFiniteSet(Committers(a) \cup {b})
          /\ Cardinality(Committers(a) \cup {b}) = Cardinality(Committers(a)) + 1
      BY <2>2, <3>1, FS_AddElement DEF Seated
    <3>4. listing[a].max_bidders > 0 => bidder_count'[a] <= listing[a].max_bidders
      BY <1>1, <1>2, <3>1, <3>2 DEF SeatFree
    <3>. QED
      BY <1>1, <2>2, <3>1, <3>2, <3>3, <3>4 DEF Seated
  <2>. QED
    BY <1>1, <1>2, <2>3, <2>4, <2>5 DEF Ends
<1>3. CASE a # x
  <2>1. SameBook(a) /\ status'[a] = status[a]
    BY <1>1, <1>3 DEF SameBook, TypeOK
  <2>. QED
    BY <1>1, <2>1, EndsElsewhere
<1>. QED
  BY <1>2, <1>3

(* Who reveals has committed, so the item is attested; and nobody reveals once the
   auction is decided. *)
LEMMA EndsRevealBid ==
  ASSUME TypeOK, TypeOK', OutcomeInv, NEW x \in AuctionIds, NEW b \in Bidders,
         NEW amount \in Amounts, RevealBid(x, b, amount)
  PROVE  OutcomeInv'
<1>. SUFFICES ASSUME NEW a \in AuctionIds PROVE Ends(a)'
  BY DEF OutcomeInv
<1>1. /\ status[x] # "Absent" /\ listing[x].format = "SealedBid"
      /\ now < listing[x].reveal_deadline /\ commitments[x][b] # None
      /\ revealed_bids' = [revealed_bids EXCEPT ![x] =
                             Append(@, [bidder |-> b, amount |-> amount])]
      /\ UNCHANGED <<now, listing, attested, status, highest_bidder, highest_bid,
                     last_bid_at, bidder_count, commitments>>
  BY DEF RevealBid, platform, lifecycle, leader
<1>2. CASE a = x
  <2>1. Ends(a) /\ Committers(a)' = Committers(a)
    BY <1>1 DEF OutcomeInv, Committers
  <2>2. PaidShownPrice(a)'
    BY <1>1, <1>2 DEF PaidShownPrice
  <2>3. BestWon(a)'
    <3>1. now \in Nat /\ listing[a].reveal_deadline \in Nat
      BY <1>1, <1>2, ListingFields DEF TypeOK, IsListing
    <3>. QED
      BY <1>1, <1>2, <2>1, <3>1 DEF Ends, BestWon
  <2>4. NothingUnattested(a)'
    <3>1. b \in Committers(a)
      BY <1>1, <1>2 DEF Committers
    <3>. QED
      BY <1>1, <1>2, <2>1, <3>1 DEF Ends, NothingUnattested, Physical
  <2>5. Seated(a)'
    BY <1>1, <1>2, <2>1 DEF Ends, Seated
  <2>. QED
    BY <1>1, <1>2, <2>2, <2>3, <2>4, <2>5 DEF Ends
<1>3. CASE a # x
  <2>1. SameBook(a) /\ status'[a] = status[a]
    BY <1>1, <1>3 DEF SameBook, TypeOK
  <2>. QED
    BY <1>1, <2>1, EndsElsewhere
<1>. QED
  BY <1>2, <1>3

(* A deposit taken back frees its seat, and one only. *)
LEMMA EndsRefundUnrevealed ==
  ASSUME TypeOK, TypeOK', OutcomeInv, NEW x \in AuctionIds, NEW b \in Bidders,
         RefundUnrevealed(x, b)
  PROVE  OutcomeInv'
<1>. SUFFICES ASSUME NEW a \in AuctionIds PROVE Ends(a)'
  BY DEF OutcomeInv
<1>1. /\ status[x] # "Absent" /\ commitments[x][b] # None
      /\ commitments' = [commitments EXCEPT ![x][b] = None]
      /\ bidder_count' = [bidder_count EXCEPT ![x] = Greater(@ - 1, 0)]
      /\ UNCHANGED <<now, listing, attested, status, highest_bidder, highest_bid,
                     last_bid_at, revealed_bids>>
  BY DEF RefundUnrevealed, MayTakeBack, platform, lifecycle, leader
<1>2. CASE a = x
  <2>1. Ends(a)
    BY DEF OutcomeInv
  <2>2. Committers(a)' = Committers(a) \ {b} /\ b \in Committers(a)
    <3>1. /\ commitments'[a][b] = None
          /\ \A c \in Bidders \ {b} : commitments'[a][c] = commitments[a][c]
      BY <1>1, <1>2 DEF TypeOK
    <3>. QED
      BY <1>1, <1>2, <3>1 DEF Committers
  <2>3. PaidShownPrice(a)'
    BY <1>1, <1>2, <2>1 DEF Ends, PaidShownPrice, DutchPriceAt, CurrentPrice
  <2>4. BestWon(a)'
    BY <1>1, <1>2, <2>1 DEF Ends, BestWon, Won, IsWinningEntry
  <2>5. NothingUnattested(a)'
    BY <1>1, <1>2, <2>1, <2>2 DEF Ends, NothingUnattested, Physical
  <2>6. Seated(a)'
    <3>1. Seated(a) /\ bidder_count[a] \in Nat /\ listing[a].max_bidders \in Nat
      BY <1>1, <1>2, <2>1, ListingFields DEF Ends, TypeOK, IsListing
    <3>2. /\ IsFiniteSet(Committers(a) \ {b})
          /\ Cardinality(Committers(a) \ {b}) = Cardinality(Committers(a)) - 1
      BY <2>2, <3>1, FS_RemoveElement DEF Seated
    <3>3. Cardinality(Committers(a) \ {b}) \in Nat
      BY <3>2, FS_CardinalityType
    <3>4. bidder_count'[a] = bidder_count[a] - 1
      BY <1>1, <1>2, <3>1, <3>2, <3>3 DEF TypeOK, Seated, Greater
    <3>. QED
      BY <1>1, <2>2, <3>1, <3>2, <3>4 DEF Seated
  <2>. QED
    BY <1>1, <1>2, <2>3, <2>4, <2>5, <2>6 DEF Ends
<1>3. CASE a # x
  <2>1. SameBook(a) /\ status'[a] = status[a]
    BY <1>1, <1>3 DEF SameBook, TypeOK
  <2>. QED
    BY <1>1, <2>1, EndsElsewhere
<1>. QED
  BY <1>2, <1>3

LEMMA EndsClose ==
  ASSUME TypeOK, TypeOK', OutcomeInv, NEW x \in AuctionIds, CloseAuction(x)
  PROVE  OutcomeInv'
<1>. SUFFICES ASSUME NEW a \in AuctionIds PROVE Ends(a)'
  BY DEF OutcomeInv
<1>1. /\ status[x] \in {"Created", "Active"}
      /\ UNCHANGED <<now, listing, attested, last_bid_at, bidder_count,
                     revealed_bids, commitments>>
  BY DEF CloseAuction, platform, lifecycle, sealed
<1>2. Ends(a) /\ now \in Nat
  BY DEF OutcomeInv, TypeOK
<1>3. CASE a = x /\ ~(listing[x].format = "SealedBid" /\ FinalizeSealedAuction(x))
  <2>1. /\ UNCHANGED <<highest_bidder, highest_bid>>
        /\ \/ status' = [status EXCEPT ![x] = "Cancelled"]
           \/ /\ listing[x].format = "English" /\ highest_bidder[x] # None
              /\ status' = [status EXCEPT ![x] = "Ended"]
    BY <1>3 DEF CloseAuction
  <2>2. SameBook(a)
    BY <1>1, <2>1 DEF SameBook
  <2>3. \/ status'[a] = "Cancelled"
        \/ status'[a] = "Ended" /\ listing[a].format = "English" /\ highest_bidder[a] # None
    BY <1>3, <2>1 DEF TypeOK
  <2>. QED
    BY <1>1, <1>2, <1>3, <2>2, <2>3, EndsFrame DEF Ends, NothingUnattested
<1>4. CASE a = x /\ listing[x].format = "SealedBid" /\ FinalizeSealedAuction(x)
  <2>1. PICK w \in DOMAIN revealed_bids[x] :
          /\ IsWinningEntry(x, w) /\ now >= listing[x].reveal_deadline
          /\ highest_bidder' = [highest_bidder EXCEPT ![x] = revealed_bids[x][w].bidder]
          /\ highest_bid' = [highest_bid EXCEPT ![x] = revealed_bids[x][w].amount]
          /\ status' = [status EXCEPT ![x] = "Ended"]
    BY <1>4 DEF FinalizeSealedAuction
  <2>2. /\ highest_bidder'[a] = revealed_bids[a][w].bidder
        /\ highest_bid'[a] = revealed_bids[a][w].amount /\ status'[a] = "Ended"
    BY <1>4, <2>1 DEF TypeOK
  <2>3. PaidShownPrice(a)'
    BY <1>1, <1>4 DEF PaidShownPrice
  <2>4. BestWon(a)'
    <3>1. Won(a, w)'
      BY <1>1, <1>4, <2>1, <2>2 DEF Won, IsWinningEntry
    <3>. QED
      BY <1>1, <1>4, <2>1, <3>1 DEF BestWon
  <2>5. NothingUnattested(a)'
    <3>1. revealed_bids[a] # <<>>
      BY <1>4, <2>1
    <3>. QED
      BY <1>1, <1>2, <1>4, <3>1 DEF Ends, NothingUnattested, Physical
  <2>6. Seated(a)'
    <3>1. Committers(a)' = Committers(a)
      BY <1>1 DEF Committers
    <3>. QED
      BY <1>1, <1>2, <1>4, <3>1 DEF Ends, Seated
  <2>. QED
    BY <2>2, <2>3, <2>4, <2>5, <2>6 DEF Ends
<1>5. CASE a # x
  <2>1. SameBook(a) /\ status'[a] = status[a]
    BY <1>1, <1>5 DEF CloseAuction, FinalizeSealedAuction, SameBook, TypeOK
  <2>. QED
    BY <1>1, <2>1, EndsElsewhere
<1>. QED
  BY <1>3, <1>4, <1>5

LEMMA EndsAttest ==
  ASSUME TypeOK, TypeOK', OutcomeInv, NEW x \in AuctionIds, AttestPhysicalItem(x)
  PROVE  OutcomeInv'
<1>. SUFFICES ASSUME NEW a \in AuctionIds PROVE Ends(a)'
  BY DEF OutcomeInv
<1>1. /\ status[x] # "Absent"
      /\ attested' = [attested EXCEPT ![x] = TRUE]
      /\ status' = [status EXCEPT ![x] = "Active"]
      /\ UNCHANGED <<now, listing, highest_bidder, highest_bid, last_bid_at,
                     bidder_count, revealed_bids, commitments>>
  BY DEF AttestPhysicalItem, platform, leader, sealed
<1>2. CASE a = x
  <2>1. Ends(a) /\ Committers(a)' = Committers(a)
    BY <1>1 DEF OutcomeInv, Committers
  <2>2. status'[a] = "Active" /\ attested'[a]
    BY <1>1, <1>2 DEF TypeOK
  <2>3. PaidShownPrice(a)'
    BY <1>1, <1>2, <2>1 DEF Ends, PaidShownPrice, DutchPriceAt, CurrentPrice
  <2>4. BestWon(a)' /\ NothingUnattested(a)'
    BY <2>2 DEF BestWon, NothingUnattested
  <2>5. Seated(a)'
    BY <1>1, <1>2, <2>1 DEF Ends, Seated
  <2>. QED
    BY <2>2, <2>3, <2>4, <2>5 DEF Ends
<1>3. CASE a # x
  <2>1. SameBook(a) /\ status'[a] = status[a]
    BY <1>1, <1>3 DEF SameBook, TypeOK
  <2>. QED
    BY <1>1, <2>1, EndsElsewhere
<1>. QED
  BY <1>2, <1>3

(* The other actions write nothing but the status and the time. *)
LEMMA EndsOther ==
  ASSUME TypeOK, TypeOK', OutcomeInv,
         \/ Tick \/ UpdateConfig \/ UNCHANGED vars
         \/ \E x \in AuctionIds :
              \/ ActivateAuction(x) \/ CancelAuction(x) \/ ApproveNftTransfer(x)
              \/ SettleAuction(x)
              \/ \E b \in Bidders : WithdrawRefund(x, b)
  PROVE  OutcomeInv'
<1>. SUFFICES ASSUME NEW a \in AuctionIds PROVE Ends(a)'
  BY DEF OutcomeInv
<1>1. Ends(a) /\ now \in Nat
  BY DEF OutcomeInv, TypeOK
<1>2. status[a] # "Absent" /\ Physical(a) /\ ~attested[a] =>
        status[a] \in {"Created", "Cancelled"} /\ highest_bidder[a] = None
  BY <1>1 DEF Ends, NothingUnattested
<1>3. CASE Tick
  <2>1. SameBook(a) /\ status'[a] = status[a] /\ now' = now + 1
    BY <1>3 DEF Tick, lifecycle, leader, sealed, SameBook
  <2>. QED
    BY <1>1, <1>2, <2>1, EndsFrame
<1>4. CASE UpdateConfig \/ UNCHANGED vars
  <2>1. SameBook(a) /\ status'[a] = status[a] /\ now' = now
    BY <1>4 DEF UpdateConfig, vars, platform, lifecycle, leader, sealed, SameBook
  <2>. QED
    BY <2>1, EndsElsewhere
<1>5. ASSUME NEW x \in AuctionIds, ActivateAuction(x) PROVE Ends(a)'
  <2>1. SameBook(a) /\ now' = now
    BY <1>5 DEF ActivateAuction, platform, lifecycle, leader, sealed, SameBook
  <2>2. CASE a = x
    <3>1. status[a] = "Created" /\ status'[a] = "Active" /\ (Physical(a) => attested[a])
      BY <1>5, <2>2 DEF ActivateAuction, ReadyToActivate, TypeOK
    <3>. QED
      BY <1>1, <2>1, <3>1, EndsFrame
  <2>3. CASE a # x
    BY <1>5, <2>1, <2>3, EndsElsewhere DEF ActivateAuction, TypeOK
  <2>. QED
    BY <2>2, <2>3
<1>6. ASSUME NEW x \in AuctionIds, CancelAuction(x) PROVE Ends(a)'
  <2>1. SameBook(a) /\ now' = now
    BY <1>6 DEF CancelAuction, platform, lifecycle, leader, sealed, SameBook
  <2>2. CASE a = x
    <3>1. status[a] # "Absent" /\ status'[a] = "Cancelled"
      BY <1>6, <2>2 DEF CancelAuction, Cancellable, TypeOK
    <3>. QED
      BY <1>1, <2>1, <3>1, EndsFrame
  <2>3. CASE a # x
    BY <1>6, <2>1, <2>3, EndsElsewhere DEF CancelAuction, TypeOK
  <2>. QED
    BY <2>2, <2>3
<1>7. ASSUME NEW x \in AuctionIds,
             ApproveNftTransfer(x) \/ \E b \in Bidders : WithdrawRefund(x, b)
      PROVE  Ends(a)'
  <2>1. SameBook(a) /\ status'[a] = status[a] /\ now' = now
    BY <1>7 DEF ApproveNftTransfer, WithdrawRefund, platform, lifecycle, leader,
       sealed, SameBook
  <2>. QED
    BY <2>1, EndsElsewhere
<1>8. ASSUME NEW x \in AuctionIds, SettleAuction(x) PROVE Ends(a)'
  <2>1. SameBook(a) /\ now' = now
    BY <1>8 DEF SettleAuction, platform, lifecycle, leader, sealed, SameBook
  <2>2. CASE a = x
    <3>1. status[a] = "Ended" /\ status'[a] = "Settled"
      BY <1>8, <2>2 DEF SettleAuction, TypeOK
    <3>. QED
      BY <1>1, <1>2, <2>1, <3>1, EndsFrame
  <2>3. CASE a # x
    BY <1>8, <2>1, <2>3, EndsElsewhere DEF SettleAuction, TypeOK
  <2>. QED
    BY <2>2, <2>3
<1>. QED
  BY <1>3, <1>4, <1>5, <1>6, <1>7, <1>8

LEMMA OutcomeStep == TypeOK /\ TypeOK' /\ OutcomeInv /\ [Next]_vars => OutcomeInv'
<1>. SUFFICES ASSUME TypeOK, TypeOK', OutcomeInv, [Next]_vars PROVE OutcomeInv'
  OBVIOUS
<1>. USE EndsCreate, EndsAttest, EndsOther, EndsClose, EndsPlaceBid, EndsBuyNow,
         EndsCommitBid, EndsRevealBid, EndsRefundUnrevealed
<1>1. CASE Tick \/ UpdateConfig \/ UNCHANGED vars
  BY <1>1
<1>2. ASSUME NEW l \in Listings, CreateAuction(l) PROVE OutcomeInv'
  BY <1>2
<1>3. ASSUME NEW x \in AuctionIds,
             \/ AttestPhysicalItem(x) \/ CloseAuction(x) \/ ActivateAuction(x)
             \/ CancelAuction(x) \/ ApproveNftTransfer(x) \/ SettleAuction(x)
      PROVE  OutcomeInv'
  BY <1>3
<1>4. ASSUME NEW x \in AuctionIds, NEW b \in Bidders,
             RefundUnrevealed(x, b) \/ WithdrawRefund(x, b)
      PROVE  OutcomeInv'
  BY <1>4
<1>5. ASSUME NEW x \in AuctionIds, NEW b \in Bidders, NEW amount \in Amounts,
             PlaceBid(x, b, amount) \/ RevealBid(x, b, amount)
      PROVE  OutcomeInv'
  BY <1>5
<1>6. ASSUME NEW x \in AuctionIds, NEW b \in Bidders, NEW amount \in Amounts,
             NEW sealed_amount \in IF FaithfulBidders THEN {amount} ELSE Amounts,
             CommitBid(x, b, amount, sealed_amount)
      PROVE  OutcomeInv'
  <2>1. sealed_amount \in Amounts
    OBVIOUS
  <2>. QED
    BY <1>6, <2>1
<1>7. ASSUME NEW x \in AuctionIds, NEW b \in Bidders,
             NEW max_price \in Amounts \cup {None}, BuyNow(x, b, max_price)
      PROVE  OutcomeInv'
  BY <1>7
<1>. QED
  BY <1>1, <1>2, <1>3, <1>4, <1>5, <1>6, <1>7 DEF Next

LEMMA OutcomeAlways == Spec => [](TypeOK /\ OutcomeInv)
BY OutcomeInit, OutcomeStep, TypeCorrect, PTL DEF Spec

-----------------------------------------------------------------------------
(* A physical item is sold only after its custodian attested: activate_auction
   refuses an unattested item, and no auction leaves Created any other way than
   by it, the attestation itself or a cancellation. *)
THEOREM SoldOnlyAttestedHolds == Spec => []SoldOnlyAttested
<1>1. OutcomeInv => SoldOnlyAttested
  BY DEF OutcomeInv, Ends, NothingUnattested, SoldOnlyAttested
<1>. QED
  BY <1>1, OutcomeAlways, PTL

(* bidder_count is the number of commitments stored, and never above the cap
   the seller set, through commits and refunds in any order. *)
THEOREM SeatsCountedHolds == Spec => []SeatsCounted
<1>1. OutcomeInv => SeatsCounted
  BY DEF OutcomeInv, Ends, Seated, Committers, SeatsCounted
<1>. QED
  BY <1>1, OutcomeAlways, PTL

(* The winner of a decided sealed auction revealed the highest amount, and
   revealed it before anybody else who bid the same. *)
THEOREM SealedWinnerHolds == Spec => []SealedWinner
<1>1. TypeOK /\ OutcomeInv => SealedWinner
  <2>. SUFFICES ASSUME TypeOK, OutcomeInv, NEW a \in AuctionIds,
                       status[a] \in {"Ended", "Settled"}, listing[a].format = "SealedBid"
                PROVE  LET best == {i \in DOMAIN revealed_bids[a] :
                                      revealed_bids[a][i].amount = highest_bid[a]}
                       IN  /\ best # {}
                           /\ revealed_bids[a][Min(best)].bidder = highest_bidder[a]
                           /\ \A i \in DOMAIN revealed_bids[a] :
                                revealed_bids[a][i].amount <= highest_bid[a]
    BY DEF SealedWinner
  <2>. DEFINE bids == revealed_bids[a]
              best == {i \in DOMAIN bids : bids[i].amount = highest_bid[a]}
  <2>1. PICK w \in DOMAIN bids : Won(a, w)
    BY DEF OutcomeInv, Ends, BestWon
  <2>2. w \in best /\ \A i \in DOMAIN bids : bids[i].amount <= highest_bid[a]
    BY <2>1 DEF Won, IsWinningEntry
  <2>3. bids \in Seq(RevealEntries)
    BY DEF TypeOK
  <2>4. ASSUME NEW i \in best PROVE w <= i
    <3>1. i \in Nat /\ w \in Nat /\ bids[i].amount \in Nat /\ bids[w].amount \in Nat
      <4>1. i \in DOMAIN bids /\ bids[i] \in RevealEntries /\ bids[w] \in RevealEntries
        BY <2>3
      <4>. QED
        BY <2>3, <4>1, AmountsAreNat DEF RevealEntries
    <3>2. bids[w].amount = highest_bid[a] /\ bids[i].amount = highest_bid[a]
      BY <2>2
    <3>3. i < w => bids[i].amount < bids[w].amount
      BY <2>1 DEF Won, IsWinningEntry
    <3>. QED
      BY <3>1, <3>2, <3>3
  <2>5. Min(best) = w
    <3>1. Min(best) \in best /\ \A y \in best : Min(best) <= y
      BY <2>2, <2>4 DEF Min
    <3>2. Min(best) \in Nat /\ w \in Nat
      <4>1. \A y \in best : y \in Nat
        BY <2>3
      <4>. QED
        BY <2>2, <3>1, <4>1
    <3>3. Min(best) <= w /\ w <= Min(best)
      BY <2>2, <2>4, <3>1
    <3>. QED
      BY <3>2, <3>3
  <2>. QED
    BY <2>1, <2>2, <2>5 DEF Won
<1>. QED
  BY <1>1, OutcomeAlways, PTL

(* A Dutch buyer pays a price between the reserve and every price shown before,
   for every schedule create_auction accepts. *)
THEOREM DutchFairHolds == Spec => []DutchFair
<1>1. TypeOK /\ OutcomeInv => DutchFair
  <2>. SUFFICES ASSUME TypeOK, OutcomeInv, NEW a \in AuctionIds,
                       highest_bidder[a] # None, listing[a].format = "Dutch"
                PROVE  /\ highest_bid[a] >= listing[a].reserve_price
                       /\ \A t \in 0 .. last_bid_at[a] :
                            highest_bid[a] <= DutchPriceAt(a, t)
    BY DEF DutchFair
  <2>. DEFINE bought == last_bid_at[a]
  <2>1. status[a] # "Absent"
    BY DEF OutcomeInv, Ends, Blank
  <2>2. ValidSchedule(listing[a]) /\ highest_bid[a] = DutchPriceAt(a, bought)
    BY <2>1 DEF OutcomeInv, Ends, PaidShownPrice
  <2>3. /\ listing[a].start_price \in Int /\ listing[a].reserve_price \in Int
        /\ listing[a].price_decay_per_second \in Nat /\ listing[a].start_time \in Nat
        /\ listing[a].reserve_price <= listing[a].start_price
        /\ bought \in Nat /\ I128_MAX \in Nat
    <3>1. IsListing(listing[a]) /\ bought \in Nat
      BY <2>1, ListingFields DEF TypeOK
    <3>2. listing[a].start_price > listing[a].reserve_price /\ listing[a].price_decay_per_second > 0
      BY <2>2 DEF ValidSchedule
    <3>. QED
      BY <3>1, <3>2, I128Assumption DEF IsListing
  <2>. DEFINE sp == listing[a].start_price
              rp == listing[a].reserve_price
              d  == listing[a].price_decay_per_second
              st == listing[a].start_time
  <2>. HIDE DEF sp, rp, d, st, bought
  <2>4. ASSUME NEW t \in Nat, t <= bought
        PROVE  /\ CurrentPrice(sp, rp, d, st, bought) <= CurrentPrice(sp, rp, d, st, t)
               /\ rp <= CurrentPrice(sp, rp, d, st, t)
    <3>1. sp \in Int /\ rp \in Int /\ d \in Nat /\ st \in Nat /\ rp <= sp
          /\ bought \in Nat /\ I128_MAX \in Nat
      BY <2>3 DEF sp, rp, d, st
    <3>. QED
      BY <2>4, <3>1, DutchPriceFalls
  <2>5. \A t : DutchPriceAt(a, t) = CurrentPrice(sp, rp, d, st, t)
    BY DEF DutchPriceAt, sp, rp, d, st
  <2>6. highest_bid[a] >= rp
    BY <2>2, <2>3, <2>4, <2>5
  <2>7. ASSUME NEW t \in 0 .. bought PROVE highest_bid[a] <= DutchPriceAt(a, t)
    <3>1. t \in Nat /\ t <= bought
      BY <2>3
    <3>. QED
      BY <2>2, <2>4, <2>5, <3>1
  <2>. QED
    BY <2>6, <2>7 DEF rp, bought
<1>. QED
  BY <1>1, OutcomeAlways, PTL

-----------------------------------------------------------------------------
(* The refinement.  Every step of the contract is a step of one sale, or none.  A step
   touches one auction, so each action is mapped by what it does to that auction's
   phase, winner, price and payments; that the winner has the price in, and that a
   withdrawal leaves it there, is what the books of UrithiAuctionProofs say. *)

(* Auction a is, for the abstract sale, what it was. *)
SameSale(a) ==
  /\ phase'[a] = phase[a] /\ winner'[a] = winner[a]
  /\ price'[a] = price[a] /\ paid_in'[a] = paid_in[a]

OnlySale(x) == \A a \in AuctionIds \ {x} : SameSale(a)

LEMMA SaleValues ==
  ASSUME NEW a \in AuctionIds
  PROVE  /\ phase[a] = PhaseOf(a) /\ phase'[a] = PhaseOf(a)'
         /\ winner[a] = WinnerOf(a) /\ winner'[a] = WinnerOf(a)'
         /\ price[a] = PriceOf(a) /\ price'[a] = PriceOf(a)'
BY DEF phase, winner, price

LEMMA PaidInValues ==
  ASSUME NEW a \in AuctionIds
  PROVE  /\ paid_in[a] = [b \in Bidders |-> PaidInBy(a, b)]
         /\ paid_in'[a] = [b \in Bidders |-> PaidInBy(a, b)']
         /\ \A b \in Bidders :
              paid_in[a][b] = PaidInBy(a, b) /\ paid_in'[a][b] = PaidInBy(a, b)'
BY DEF paid_in

(* A step that leaves the auction's entries alone, or one not on sale before and after. *)
LEMMA SaleKept ==
  ASSUME NEW a \in AuctionIds,
         \/ /\ status'[a] = status[a] /\ listing'[a] = listing[a]
            /\ highest_bidder'[a] = highest_bidder[a]
            /\ highest_bid'[a] = highest_bid[a]
            /\ deposited'[a] = deposited[a]
         \/ ~OnSale(a) /\ ~OnSale(a)'
  PROVE  SameSale(a)
<1>. SUFFICES /\ PhaseOf(a)' = PhaseOf(a) /\ WinnerOf(a)' = WinnerOf(a)
              /\ PriceOf(a)' = PriceOf(a)
              /\ \A b \in Bidders : PaidInBy(a, b)' = PaidInBy(a, b)
  <2>1. ASSUME \A b \in Bidders : PaidInBy(a, b)' = PaidInBy(a, b)
        PROVE  paid_in'[a] = paid_in[a]
    <3>1. [b \in Bidders |-> PaidInBy(a, b)'] = [b \in Bidders |-> PaidInBy(a, b)]
      BY <2>1
    <3>. QED
      BY <3>1, PaidInValues
  <2>. QED
    BY <2>1, SaleValues DEF SameSale
<1>1. CASE ~OnSale(a) /\ ~OnSale(a)'
  <2>1. ~Decided(a) /\ ~Decided(a)'
    BY <1>1 DEF Decided
  <2>. QED
    BY <1>1, <2>1 DEF PhaseOf, WinnerOf, PriceOf, PaidInBy
<1>2. CASE /\ status'[a] = status[a] /\ listing'[a] = listing[a]
           /\ highest_bidder'[a] = highest_bidder[a]
           /\ highest_bid'[a] = highest_bid[a]
           /\ deposited'[a] = deposited[a]
  <2>1. OnSale(a)' = OnSale(a)
    BY <1>2 DEF OnSale, Digital
  <2>2. Decided(a)' = Decided(a)
    BY <1>2, <2>1 DEF Decided
  <2>. QED
    BY <1>2, <2>1, <2>2 DEF PhaseOf, WinnerOf, PriceOf, PaidInBy
<1>. QED
  BY <1>1, <1>2

(* Functions on sales that differ at x only. *)
LEMMA OneSale ==
  ASSUME NEW x \in AuctionIds, OnlySale(x)
  PROVE  /\ phase' = [phase EXCEPT ![x] = phase'[x]]
         /\ winner' = [winner EXCEPT ![x] = winner'[x]]
         /\ price' = [price EXCEPT ![x] = price'[x]]
         /\ paid_in' = [paid_in EXCEPT ![x] = paid_in'[x]]
<1>1. /\ DOMAIN phase = AuctionIds /\ DOMAIN phase' = AuctionIds
      /\ DOMAIN winner = AuctionIds /\ DOMAIN winner' = AuctionIds
      /\ DOMAIN price = AuctionIds /\ DOMAIN price' = AuctionIds
      /\ DOMAIN paid_in = AuctionIds /\ DOMAIN paid_in' = AuctionIds
      /\ phase = [a \in AuctionIds |-> phase[a]] /\ phase' = [a \in AuctionIds |-> phase'[a]]
      /\ winner = [a \in AuctionIds |-> winner[a]]
      /\ winner' = [a \in AuctionIds |-> winner'[a]]
      /\ price = [a \in AuctionIds |-> price[a]] /\ price' = [a \in AuctionIds |-> price'[a]]
      /\ paid_in = [a \in AuctionIds |-> paid_in[a]]
      /\ paid_in' = [a \in AuctionIds |-> paid_in'[a]]
  BY DEF phase, winner, price, paid_in
<1>. QED
  BY <1>1 DEF OnlySale, SameSale

LEMMA NoSale ==
  ASSUME \A a \in AuctionIds : SameSale(a)
  PROVE  UNCHANGED AbstractSale!vars
<1>1. /\ phase = [a \in AuctionIds |-> phase[a]] /\ phase' = [a \in AuctionIds |-> phase'[a]]
      /\ winner = [a \in AuctionIds |-> winner[a]]
      /\ winner' = [a \in AuctionIds |-> winner'[a]]
      /\ price = [a \in AuctionIds |-> price[a]] /\ price' = [a \in AuctionIds |-> price'[a]]
      /\ paid_in = [a \in AuctionIds |-> paid_in[a]]
      /\ paid_in' = [a \in AuctionIds |-> paid_in'[a]]
  BY DEF phase, winner, price, paid_in
<1>2. phase' = phase /\ winner' = winner /\ price' = price /\ paid_in' = paid_in
  BY <1>1 DEF SameSale
<1>. QED
  BY <1>2 DEF AbstractSale!vars

-----------------------------------------------------------------------------
(* What makes a step one of the abstract sale x. *)

LEMMA MoveOf ==
  ASSUME NEW x \in AuctionIds, OnlySale(x), NEW from, NEW to,
         PhaseOf(x) = from, PhaseOf(x)' = to
  PROVE  AbstractSale!Move(x, from, to)
BY OneSale, SaleValues DEF AbstractSale!Move

(* The outcome of x stays, and so does everybody's money. *)
LEMMA OutcomeKept ==
  ASSUME NEW x \in AuctionIds, OnlySale(x),
         WinnerOf(x)' = WinnerOf(x), PriceOf(x)' = PriceOf(x)
  PROVE  UNCHANGED <<winner, price>>
<1>1. \A a \in AuctionIds : winner'[a] = winner[a] /\ price'[a] = price[a]
  BY SaleValues DEF OnlySale, SameSale
<1>2. /\ winner = [a \in AuctionIds |-> winner[a]] /\ price = [a \in AuctionIds |-> price[a]]
      /\ winner' = [a \in AuctionIds |-> winner'[a]]
      /\ price' = [a \in AuctionIds |-> price'[a]]
  BY DEF winner, price
<1>. QED
  BY <1>1, <1>2

LEMMA PaymentsKept ==
  ASSUME NEW x \in AuctionIds, OnlySale(x),
         \A b \in Bidders : PaidInBy(x, b)' = PaidInBy(x, b)
  PROVE  UNCHANGED paid_in
<1>1. [b \in Bidders |-> PaidInBy(x, b)'] = [b \in Bidders |-> PaidInBy(x, b)]
  OBVIOUS
<1>2. paid_in'[x] = paid_in[x]
  BY <1>1, PaidInValues
<1>3. \A a \in AuctionIds : paid_in'[a] = paid_in[a]
  BY <1>2 DEF OnlySale, SameSale
<1>4. /\ paid_in = [a \in AuctionIds |-> paid_in[a]]
      /\ paid_in' = [a \in AuctionIds |-> paid_in'[a]]
  BY DEF paid_in
<1>. QED
  BY <1>3, <1>4

LEMMA PhaseKept ==
  ASSUME NEW x \in AuctionIds, OnlySale(x), PhaseOf(x)' = PhaseOf(x)
  PROVE  UNCHANGED phase
<1>1. \A a \in AuctionIds : phase'[a] = phase[a]
  BY SaleValues DEF OnlySale, SameSale
<1>2. phase = [a \in AuctionIds |-> phase[a]] /\ phase' = [a \in AuctionIds |-> phase'[a]]
  BY DEF phase
<1>. QED
  BY <1>1, <1>2

(* One bidder pays amount into x, or takes it out. *)
LEMMA PaysOf ==
  ASSUME NEW x \in AuctionIds, OnlySale(x), NEW b \in Bidders, NEW amount \in Int,
         PaidInBy(x, b) \in Int, PaidInBy(x, b)' = PaidInBy(x, b) + amount,
         \A c \in Bidders \ {b} : PaidInBy(x, c)' = PaidInBy(x, c)
  PROVE  /\ AbstractSale!Pays(x, b, amount)
         /\ paid_in'[x][b] - paid_in[x][b] = amount
<1>1. /\ paid_in[x] = [c \in Bidders |-> PaidInBy(x, c)]
      /\ paid_in'[x] = [c \in Bidders |-> PaidInBy(x, c)']
      /\ paid_in[x][b] = PaidInBy(x, b) /\ paid_in'[x][b] = PaidInBy(x, b)'
  BY PaidInValues
<1>2. paid_in'[x] = [paid_in[x] EXCEPT ![b] = @ + amount]
  BY <1>1
<1>3. paid_in' = [paid_in EXCEPT ![x] = paid_in'[x]]
  BY OneSale
<1>4. paid_in' = [paid_in EXCEPT ![x][b] = @ + amount]
  BY <1>2, <1>3
<1>. QED
  BY <1>1, <1>4 DEF AbstractSale!Pays

LEMMA AwardOf ==
  ASSUME NEW x \in AuctionIds, OnlySale(x), NEW b, NEW amount,
         WinnerOf(x)' = b, PriceOf(x)' = amount
  PROVE  AbstractSale!Award(x, b, amount) /\ price'[x] = amount
BY OneSale, SaleValues DEF AbstractSale!Award

-----------------------------------------------------------------------------
(* The entry points, one by one. *)

SaleStep == AbstractSale!Next \/ UNCHANGED AbstractSale!vars

(* The entries of a the abstract sale is made of. *)
EntriesKept(a) ==
  /\ status'[a] = status[a] /\ listing'[a] = listing[a]
  /\ highest_bidder'[a] = highest_bidder[a] /\ highest_bid'[a] = highest_bid[a]
  /\ deposited'[a] = deposited[a]

LEMMA OthersKept ==
  ASSUME NEW x \in AuctionIds, \A a \in AuctionIds \ {x} : EntriesKept(a)
  PROVE  OnlySale(x)
BY SaleKept DEF EntriesKept, OnlySale

(* An auction of a physical item is none of the sales. *)
LEMMA PhysicalStep ==
  ASSUME NEW x \in AuctionIds, \A a \in AuctionIds \ {x} : EntriesKept(a),
         status[x] # "Absent", ~Digital(x), listing'[x] = listing[x]
  PROVE  SaleStep
<1>1. ~OnSale(x) /\ ~OnSale(x)'
  BY DEF OnSale, Digital
<1>2. \A a \in AuctionIds : SameSale(a)
  BY <1>1, SaleKept DEF EntriesKept
<1>. QED
  BY <1>2, NoSale DEF SaleStep

(* An open sale stays open, changes nothing but one bidder's money. *)
LEMMA OpenValues ==
  ASSUME NEW x \in AuctionIds, Digital(x), listing'[x] = listing[x],
         status[x] \in {"Created", "Active"}
  PROVE  /\ PhaseOf(x) = "Open" /\ WinnerOf(x) = None /\ PriceOf(x) = 0
         /\ OnSale(x) /\ \A b \in Bidders : PaidInBy(x, b) = deposited[x][b]
         /\ status'[x] # "Absent" =>
              /\ OnSale(x)'
              /\ \A b \in Bidders : PaidInBy(x, b)' = deposited'[x][b]
         /\ status'[x] \in {"Created", "Active"} =>
              PhaseOf(x)' = "Open" /\ WinnerOf(x)' = None /\ PriceOf(x)' = 0
         /\ status'[x] = "Ended" =>
              /\ PhaseOf(x)' = "Sold" /\ WinnerOf(x)' = highest_bidder'[x]
              /\ PriceOf(x)' = highest_bid'[x]
         /\ status'[x] = "Cancelled" =>
              PhaseOf(x)' = "Void" /\ WinnerOf(x)' = None /\ PriceOf(x)' = 0
<1>1. OnSale(x) /\ ~Decided(x) /\ (status'[x] # "Absent" => OnSale(x)')
  BY DEF OnSale, Decided, Digital
<1>2. /\ status'[x] \in {"Created", "Active", "Cancelled"} => ~Decided(x)'
      /\ status'[x] = "Ended" => Decided(x)'
  BY <1>1 DEF Decided
<1>3. PhaseOf(x) = "Open" /\ WinnerOf(x) = None /\ PriceOf(x) = 0
  BY <1>1 DEF PhaseOf, WinnerOf, PriceOf
<1>4. /\ status'[x] \in {"Created", "Active"} => PhaseOf(x)' = "Open"
      /\ status'[x] = "Ended" => PhaseOf(x)' = "Sold"
      /\ status'[x] = "Cancelled" => PhaseOf(x)' = "Void"
  BY <1>1 DEF PhaseOf
<1>5. \A b \in Bidders : /\ PaidInBy(x, b) = deposited[x][b]
                         /\ status'[x] # "Absent" => PaidInBy(x, b)' = deposited'[x][b]
  BY <1>1 DEF PaidInBy
<1>6. /\ ~Decided(x)' => WinnerOf(x)' = None /\ PriceOf(x)' = 0
      /\ Decided(x)' => WinnerOf(x)' = highest_bidder'[x] /\ PriceOf(x)' = highest_bid'[x]
  BY DEF WinnerOf, PriceOf
<1>. QED
  BY <1>1, <1>2, <1>3, <1>4, <1>5, <1>6

LEMMA SaleCreate ==
  ASSUME TypeOK, TypeOK', AccountingInv, NEW l \in Listings, CreateAuction(l)
  PROVE  SaleStep
<1>. PICK x \in AuctionIds : x = auction_count
  BY DEF CreateAuction
<1>1. /\ listing' = [listing EXCEPT ![x] = l]
      /\ status' = [status EXCEPT ![x] = "Created"]
      /\ UNCHANGED <<highest_bidder, highest_bid, deposited>>
  BY DEF CreateAuction, money
<1>2. \A a \in AuctionIds \ {x} : EntriesKept(a)
  BY <1>1 DEF EntriesKept, TypeOK
<1>3. OnlySale(x)
  BY <1>1, <1>2, OthersKept
<1>4. status[x] = "Absent" /\ status'[x] = "Created" /\ listing'[x] = l
  BY <1>1, BoundsAssumption DEF TypeOK, AuctionIds
<1>5. \A b \in Bidders : deposited'[x][b] = 0
  BY <1>1, <1>4 DEF AccountingInv, Books, Untouched
<1>6. ~OnSale(x) /\ ~Decided(x) /\ ~Decided(x)'
  BY <1>4 DEF OnSale, Decided
<1>7. CASE ~Digital(x)'
  <2>1. ~OnSale(x)'
    BY <1>7 DEF OnSale
  <2>2. SameSale(x)
    BY <1>1, <1>6, <2>1, SaleKept
  <2>3. \A a \in AuctionIds : SameSale(a)
    BY <1>3, <2>2 DEF OnlySale
  <2>. QED
    BY <2>3, NoSale DEF SaleStep
<1>8. CASE Digital(x)'
  <2>1. OnSale(x)'
    BY <1>4, <1>8 DEF OnSale
  <2>2. PhaseOf(x) = "NotListed" /\ PhaseOf(x)' = "Open"
    BY <1>4, <1>6, <2>1 DEF PhaseOf
  <2>3. AbstractSale!Move(x, "NotListed", "Open")
    BY <1>1, <1>3, <2>2, MoveOf
  <2>4. WinnerOf(x)' = WinnerOf(x) /\ PriceOf(x)' = PriceOf(x)
    BY <1>6 DEF WinnerOf, PriceOf
  <2>5. \A b \in Bidders : PaidInBy(x, b)' = PaidInBy(x, b)
    BY <1>5, <1>6, <2>1 DEF PaidInBy
  <2>6. UNCHANGED <<winner, price, paid_in>>
    BY <1>1, <1>3, <2>4, <2>5, OutcomeKept, PaymentsKept
  <2>7. AbstractSale!List(x)
    BY <2>3, <2>6 DEF AbstractSale!List
  <2>. QED
    BY <1>1, <2>7 DEF SaleStep, AbstractSale!Next
<1>. QED
  BY <1>7, <1>8

(* Steps that leave every sale alone. *)
LEMMA SaleIdle ==
  ASSUME \A a \in AuctionIds : EntriesKept(a)
  PROVE  SaleStep
BY SaleKept, NoSale DEF EntriesKept, SaleStep

(* A bid or a commitment: money comes into an open sale. *)
LEMMA SalePayIn ==
  ASSUME TypeOK, NEW x \in AuctionIds, NEW b \in Bidders, NEW amount \in Nat,
         status[x] = "Active", UNCHANGED <<status, listing>>,
         \A a \in AuctionIds \ {x} : EntriesKept(a),
         deposited' = [deposited EXCEPT ![x][b] = @ + amount]
  PROVE  SaleStep
<1>1. CASE ~Digital(x)
  BY <1>1, PhysicalStep
<1>2. CASE Digital(x)
  <2>1. OnlySale(x)
    BY OthersKept
  <2>2. /\ PhaseOf(x) = "Open" /\ PhaseOf(x)' = "Open"
        /\ WinnerOf(x)' = WinnerOf(x) /\ PriceOf(x)' = PriceOf(x)
        /\ \A c \in Bidders : /\ PaidInBy(x, c) = deposited[x][c]
                              /\ PaidInBy(x, c)' = deposited'[x][c]
    BY <1>2, OpenValues
  <2>3. /\ deposited[x][b] \in Int /\ deposited'[x][b] = deposited[x][b] + amount
        /\ \A c \in Bidders \ {b} : deposited'[x][c] = deposited[x][c]
    BY DEF TypeOK
  <2>4. /\ AbstractSale!Pays(x, b, amount)
        /\ paid_in'[x][b] - paid_in[x][b] = amount
    BY <2>1, <2>2, <2>3, PaysOf
  <2>5. paid_in'[x][b] >= paid_in[x][b]
    <3>1. paid_in[x][b] = deposited[x][b] /\ paid_in'[x][b] = deposited'[x][b]
      BY <2>2, PaidInValues
    <3>. QED
      BY <2>3, <3>1
  <2>6. UNCHANGED <<phase, winner, price>>
    BY <2>1, <2>2, PhaseKept, OutcomeKept
  <2>7. phase[x] = "Open"
    BY <2>2, SaleValues
  <2>8. AbstractSale!PayIn(x, b)
    BY <2>4, <2>5, <2>6, <2>7 DEF AbstractSale!PayIn
  <2>. QED
    BY <2>8 DEF SaleStep, AbstractSale!Next
<1>. QED
  BY <1>1, <1>2

(* A withdrawal that leaves the winning bid in. *)
LEMMA SaleTakeOut ==
  ASSUME TypeOK, NEW x \in AuctionIds, NEW b \in Bidders, NEW amount \in Nat,
         status[x] # "Absent", UNCHANGED <<status, listing, highest_bidder, highest_bid>>,
         deposited' = [deposited EXCEPT ![x][b] = @ - amount],
         Digital(x) => deposited[x][b] - amount >= WinningStake(x, b)
  PROVE  SaleStep
<1>1. \A a \in AuctionIds \ {x} : EntriesKept(a)
  BY DEF EntriesKept, TypeOK
<1>2. /\ deposited[x][b] \in Int /\ deposited'[x][b] = deposited[x][b] - amount
      /\ \A c \in Bidders \ {b} : deposited'[x][c] = deposited[x][c]
  BY DEF TypeOK
<1>3. CASE amount = 0
  <2>1. deposited' = deposited
    BY <1>2, <1>3 DEF TypeOK
  <2>. QED
    BY <2>1, SaleIdle DEF EntriesKept
<1>4. CASE ~Digital(x)
  BY <1>1, <1>4, PhysicalStep
<1>5. CASE Digital(x) /\ amount # 0
  <2>1. OnlySale(x)
    BY <1>1, OthersKept
  <2>2. OnSale(x) /\ OnSale(x)' /\ Decided(x)' = Decided(x)
    BY <1>5 DEF OnSale, Decided, Digital
  <2>3. \A c \in Bidders : /\ PaidInBy(x, c) = deposited[x][c]
                           /\ PaidInBy(x, c)' = deposited'[x][c]
    BY <2>2 DEF PaidInBy
  <2>4. /\ PhaseOf(x)' = PhaseOf(x)
        /\ WinnerOf(x)' = WinnerOf(x) /\ PriceOf(x)' = PriceOf(x)
    BY <2>2 DEF PhaseOf, WinnerOf, PriceOf
  <2>5. /\ AbstractSale!Pays(x, b, -amount)
        /\ paid_in'[x][b] - paid_in[x][b] = -amount
    BY <1>2, <2>1, <2>3, PaysOf
  <2>6. paid_in[x][b] = deposited[x][b] /\ paid_in'[x][b] = deposited'[x][b]
    BY <2>3, PaidInValues
  <2>7. paid_in'[x][b] < paid_in[x][b]
    BY <1>2, <1>5, <2>6
  <2>8. paid_in'[x][b] >= IF winner[x] = b THEN price[x] ELSE 0
    <3>1. WinningStake(x, b) = IF highest_bidder[x] = b THEN highest_bid[x] ELSE 0
      BY DEF WinningStake
    <3>2. highest_bid[x] \in Nat
      BY DEF TypeOK
    <3>3. winner[x] = b => highest_bidder[x] = b /\ price[x] = highest_bid[x]
      BY SaleValues, NoneAssumption DEF WinnerOf, PriceOf
    <3>. QED
      BY <1>2, <1>5, <2>6, <3>1, <3>2, <3>3
  <2>9. UNCHANGED <<phase, winner, price>>
    BY <2>1, <2>4, PhaseKept, OutcomeKept
  <2>10. phase[x] # "NotListed"
    <3>1. status[x] \in Statuses
      BY DEF TypeOK
    <3>. QED
      BY <2>2, <3>1, SaleValues DEF PhaseOf, OnSale, Statuses
  <2>11. AbstractSale!TakeOut(x, b)
    BY <2>5, <2>7, <2>8, <2>9, <2>10 DEF AbstractSale!TakeOut
  <2>. QED
    BY <2>11 DEF SaleStep, AbstractSale!Next
<1>. QED
  BY <1>3, <1>4, <1>5

(* The hammer falls for a bidder who has the price in. *)
LEMMA SaleSell ==
  ASSUME NEW x \in AuctionIds, NEW b \in Bidders, Digital(x),
         status[x] \in {"Created", "Active"}, status'[x] = "Ended",
         UNCHANGED <<listing, deposited>>,
         \A a \in AuctionIds \ {x} : EntriesKept(a),
         highest_bidder'[x] = b, highest_bid'[x] <= deposited[x][b]
  PROVE  SaleStep
<1>1. OnlySale(x)
  BY OthersKept
<1>2. /\ PhaseOf(x) = "Open" /\ PhaseOf(x)' = "Sold"
      /\ WinnerOf(x)' = b /\ PriceOf(x)' = highest_bid'[x]
      /\ \A c \in Bidders : PaidInBy(x, c) = deposited[x][c]
      /\ \A c \in Bidders : PaidInBy(x, c)' = deposited'[x][c]
  BY OpenValues
<1>3. AbstractSale!Move(x, "Open", "Sold")
  BY <1>1, <1>2, MoveOf
<1>4. AbstractSale!Award(x, b, price'[x]) /\ price'[x] = highest_bid'[x]
  BY <1>1, <1>2, AwardOf
<1>5. price'[x] <= paid_in[x][b]
  BY <1>2, <1>4, PaidInValues
<1>6. UNCHANGED paid_in
  BY <1>1, <1>2, PaymentsKept
<1>7. AbstractSale!Sell(x, b)
  BY <1>3, <1>4, <1>5, <1>6 DEF AbstractSale!Sell
<1>. QED
  BY <1>7 DEF SaleStep, AbstractSale!Next

LEMMA SaleAnnul ==
  ASSUME NEW x \in AuctionIds, Digital(x),
         status[x] \in {"Created", "Active"}, status'[x] = "Cancelled",
         UNCHANGED <<listing, deposited>>, \A a \in AuctionIds \ {x} : EntriesKept(a)
  PROVE  SaleStep
<1>1. OnlySale(x)
  BY OthersKept
<1>2. /\ PhaseOf(x) = "Open" /\ PhaseOf(x)' = "Void"
      /\ WinnerOf(x)' = WinnerOf(x) /\ PriceOf(x)' = PriceOf(x)
      /\ \A c \in Bidders : PaidInBy(x, c)' = PaidInBy(x, c)
  BY OpenValues
<1>3. AbstractSale!Move(x, "Open", "Void")
  BY <1>1, <1>2, MoveOf
<1>4. UNCHANGED <<winner, price, paid_in>>
  BY <1>1, <1>2, OutcomeKept, PaymentsKept
<1>5. AbstractSale!Annul(x)
  BY <1>3, <1>4 DEF AbstractSale!Annul
<1>. QED
  BY <1>5 DEF SaleStep, AbstractSale!Next

LEMMA SaleBuyNow ==
  ASSUME TypeOK, NEW x \in AuctionIds, NEW b \in Bidders,
         NEW max_price \in Amounts \cup {None}, BuyNow(x, b, max_price)
  PROVE  SaleStep
<1>. PICK amount : amount = DutchPriceAt(x, now)
  OBVIOUS
<1>1. /\ status[x] = "Active" /\ amount >= 0
      /\ status' = [status EXCEPT ![x] = "Ended"]
      /\ highest_bidder' = [highest_bidder EXCEPT ![x] = b]
      /\ highest_bid' = [highest_bid EXCEPT ![x] = amount]
      /\ deposited' = [deposited EXCEPT ![x][b] = @ + amount]
      /\ UNCHANGED listing
  BY DEF BuyNow, LockBid, lifecycle
<1>2. amount \in Int
  BY <1>1, DutchPriceType
<1>3. /\ status'[x] = "Ended" /\ highest_bidder'[x] = b /\ highest_bid'[x] = amount
      /\ deposited[x][b] \in Int /\ deposited'[x][b] = deposited[x][b] + amount
      /\ \A c \in Bidders \ {b} : deposited'[x][c] = deposited[x][c]
      /\ \A a \in AuctionIds \ {x} : EntriesKept(a)
  BY <1>1 DEF TypeOK, EntriesKept
<1>4. CASE ~Digital(x)
  BY <1>1, <1>3, <1>4, PhysicalStep
<1>5. CASE Digital(x)
  <2>1. OnlySale(x)
    BY <1>3, OthersKept
  <2>2. /\ PhaseOf(x) = "Open" /\ PhaseOf(x)' = "Sold"
        /\ WinnerOf(x)' = b /\ PriceOf(x)' = amount
        /\ \A c \in Bidders : PaidInBy(x, c) = deposited[x][c]
        /\ \A c \in Bidders : PaidInBy(x, c)' = deposited'[x][c]
    BY <1>1, <1>3, <1>5, OpenValues
  <2>3. AbstractSale!Move(x, "Open", "Sold")
    BY <2>1, <2>2, MoveOf
  <2>4. AbstractSale!Award(x, b, amount) /\ price'[x] = amount
    BY <2>1, <2>2, AwardOf
  <2>5. AbstractSale!Pays(x, b, amount)
    BY <1>2, <1>3, <2>1, <2>2, PaysOf
  <2>6. AbstractSale!Buy(x, b)
    BY <1>1, <2>3, <2>4, <2>5 DEF AbstractSale!Buy
  <2>. QED
    BY <2>6 DEF SaleStep, AbstractSale!Next
<1>. QED
  BY <1>4, <1>5

(* Closing sells to the leader of an English auction, or to the highest revealed bid
   of a sealed one, whose commitment has its amount; otherwise it annuls. *)
LEMMA SaleClose ==
  ASSUME TypeOK, AccountingInv, NEW x \in AuctionIds, CloseAuction(x)
  PROVE  SaleStep
<1>1. status[x] \in {"Created", "Active"} /\ UNCHANGED <<listing, deposited>>
  BY DEF CloseAuction, lifecycle
<1>2. \A a \in AuctionIds \ {x} : EntriesKept(a)
  BY <1>1 DEF CloseAuction, FinalizeSealedAuction, EntriesKept, TypeOK
<1>3. CASE ~Digital(x)
  BY <1>1, <1>2, <1>3, PhysicalStep
<1>4. CASE Digital(x) /\ status'[x] = "Cancelled"
  BY <1>1, <1>2, <1>4, SaleAnnul
<1>5. CASE Digital(x) /\ status'[x] # "Cancelled"
  <2>. USE <1>5
  <2>1. FormatBook(x) /\ RevealBook(x) /\ \A b \in Bidders : Account(x, b)
    BY <1>1 DEF AccountingInv, Books
  <2>2. CASE listing[x].format = "English"
    <3>1. /\ highest_bidder[x] # None /\ status'[x] = "Ended"
          /\ UNCHANGED <<highest_bidder, highest_bid>>
      BY <2>2 DEF CloseAuction, TypeOK
    <3>2. PICK b \in Bidders : b = highest_bidder[x]
      BY <3>1 DEF TypeOK
    <3>3. highest_bid[x] <= deposited[x][b]
      <4>1. deposited[x][b] = refunds[x][b] + SealedStake(x, b) + highest_bid[x]
        BY <2>1, <3>2 DEF Account, WinningStake
      <4>2. SealedStake(x, b) = 0
        BY <2>1, <2>2 DEF FormatBook, SealedStake
      <4>3. refunds[x][b] \in Nat /\ highest_bid[x] \in Nat
        BY DEF TypeOK
      <4>. QED
        BY <4>1, <4>2, <4>3
    <3>. QED
      BY <1>1, <1>2, <3>1, <3>2, <3>3, SaleSell
  <2>3. CASE listing[x].format # "English"
    <3>1. listing[x].format = "SealedBid" /\ FinalizeSealedAuction(x)
      BY <2>3 DEF CloseAuction, TypeOK
    <3>2. PICK w \in DOMAIN revealed_bids[x] :
            /\ status[x] = "Active"
            /\ highest_bidder' =
                 [highest_bidder EXCEPT ![x] = revealed_bids[x][w].bidder]
            /\ highest_bid' = [highest_bid EXCEPT ![x] = revealed_bids[x][w].amount]
            /\ status' = [status EXCEPT ![x] = "Ended"]
      BY <3>1 DEF FinalizeSealedAuction
    <3>3. revealed_bids[x][w].bidder \in Bidders
      <4>1. revealed_bids[x] \in Seq(RevealEntries)
        BY DEF TypeOK
      <4>2. revealed_bids[x][w] \in RevealEntries
        BY <4>1
      <4>. QED
        BY <4>2 DEF RevealEntries
    <3>4. PICK b \in Bidders : b = revealed_bids[x][w].bidder
      BY <3>3
    <3>5. /\ status'[x] = "Ended" /\ highest_bidder'[x] = b
          /\ highest_bid'[x] = revealed_bids[x][w].amount
      BY <3>2, <3>4 DEF TypeOK
    <3>6. /\ commitments[x][b] # None
          /\ revealed_bids[x][w].amount = commitments[x][b].amount
      BY <2>1, <3>4 DEF RevealBook
    <3>7. revealed_bids[x][w].amount <= deposited[x][b]
      <4>1. SealedStake(x, b) = commitments[x][b].amount
        BY <3>2, <3>6 DEF SealedStake
      <4>2. deposited[x][b] = refunds[x][b] + commitments[x][b].amount + WinningStake(x, b)
        BY <2>1, <4>1 DEF Account
      <4>3. refunds[x][b] \in Nat /\ WinningStake(x, b) \in Nat
        BY DEF TypeOK, WinningStake
      <4>4. commitments[x][b] \in CommitmentRecords
        BY <3>6 DEF TypeOK
      <4>5. commitments[x][b].amount \in Nat
        BY <4>4, AmountsAreNat DEF CommitmentRecords
      <4>. QED
        BY <3>6, <4>2, <4>3, <4>5
    <3>. QED
      BY <1>1, <1>2, <3>5, <3>7, SaleSell
  <2>. QED
    BY <2>2, <2>3
<1>. QED
  BY <1>3, <1>4, <1>5

LEMMA SaleSettle ==
  ASSUME TypeOK, NEW x \in AuctionIds, SettleAuction(x)
  PROVE  SaleStep
<1>1. /\ status[x] = "Ended" /\ status' = [status EXCEPT ![x] = "Settled"]
      /\ UNCHANGED <<listing, highest_bidder, highest_bid, deposited>>
  BY DEF SettleAuction, lifecycle, leader
<1>2. status'[x] = "Settled" /\ \A a \in AuctionIds \ {x} : EntriesKept(a)
  BY <1>1 DEF TypeOK, EntriesKept
<1>3. CASE ~Digital(x)
  BY <1>1, <1>2, <1>3, PhysicalStep
<1>4. CASE Digital(x)
  <2>1. OnlySale(x)
    BY <1>2, OthersKept
  <2>2. OnSale(x) /\ OnSale(x)' /\ Decided(x) /\ Decided(x)'
    BY <1>1, <1>2, <1>4 DEF OnSale, Decided, Digital
  <2>3. PhaseOf(x) = "Sold" /\ PhaseOf(x)' = "Paid"
    BY <1>1, <1>2, <2>2 DEF PhaseOf
  <2>4. /\ WinnerOf(x)' = WinnerOf(x) /\ PriceOf(x)' = PriceOf(x)
        /\ \A b \in Bidders : PaidInBy(x, b)' = PaidInBy(x, b)
    BY <1>1, <2>2 DEF WinnerOf, PriceOf, PaidInBy
  <2>5. AbstractSale!Move(x, "Sold", "Paid")
    BY <2>1, <2>3, MoveOf
  <2>6. UNCHANGED <<winner, price, paid_in>>
    BY <2>1, <2>4, OutcomeKept, PaymentsKept
  <2>7. AbstractSale!PaySeller(x)
    BY <2>5, <2>6 DEF AbstractSale!PaySeller
  <2>. QED
    BY <2>7 DEF SaleStep, AbstractSale!Next
<1>. QED
  BY <1>3, <1>4

(* Refunds of outbid and losing bids, and deposits taken back, come out of what the
   books hold for the bidder besides the winning bid. *)
LEMMA SaleRefund ==
  ASSUME TypeOK, AccountingInv, NEW x \in AuctionIds, NEW b \in Bidders,
         WithdrawRefund(x, b) \/ RefundUnrevealed(x, b)
  PROVE  SaleStep
<1>1. /\ status[x] # "Absent"
      /\ UNCHANGED <<status, listing, highest_bidder, highest_bid>>
  BY DEF WithdrawRefund, RefundUnrevealed, MayTakeBack, lifecycle, leader
<1>2. refunds[x][b] \in Nat /\ WinningStake(x, b) \in Nat /\ deposited[x][b] \in Int
  BY DEF TypeOK, WinningStake
<1>3. commitments[x][b] # None => commitments[x][b].amount \in Nat
  <2>1. commitments[x][b] # None => commitments[x][b] \in CommitmentRecords
    BY DEF TypeOK
  <2>. QED
    BY <2>1, AmountsAreNat DEF CommitmentRecords
<1>4. SealedStake(x, b) \in Nat
  BY <1>3 DEF SealedStake
<1>5. Digital(x) =>
        deposited[x][b] = refunds[x][b] + SealedStake(x, b) + WinningStake(x, b)
  BY <1>1 DEF AccountingInv, Books, Account
<1>6. CASE WithdrawRefund(x, b)
  <2>1. deposited' = [deposited EXCEPT ![x][b] = @ - refunds[x][b]]
    BY <1>6 DEF WithdrawRefund, RefundBid
  <2>2. Digital(x) => deposited[x][b] - refunds[x][b] >= WinningStake(x, b)
    BY <1>2, <1>4, <1>5
  <2>. QED
    BY <1>1, <1>2, <2>1, <2>2, SaleTakeOut
<1>7. CASE RefundUnrevealed(x, b)
  <2>1. /\ deposited' = [deposited EXCEPT ![x][b] = @ - commitments[x][b].amount]
        /\ commitments[x][b] # None /\ ~HasRevealed(x, b)
    BY <1>7 DEF RefundUnrevealed, RefundBid, MayTakeBack
  <2>2. SealedStake(x, b) = commitments[x][b].amount
    BY <2>1 DEF SealedStake
  <2>3. commitments[x][b].amount \in Nat
    BY <1>3, <2>1
  <2>4. Digital(x) => deposited[x][b] - commitments[x][b].amount >= WinningStake(x, b)
    BY <1>2, <1>5, <2>2, <2>3
  <2>. QED
    BY <1>1, <2>1, <2>3, <2>4, SaleTakeOut
<1>. QED
  BY <1>6, <1>7

LEMMA SaleActivation ==
  ASSUME TypeOK, NEW x \in AuctionIds, AttestPhysicalItem(x) \/ ActivateAuction(x)
  PROVE  SaleStep
<1>1. /\ status[x] # "Absent" /\ status' = [status EXCEPT ![x] = "Active"]
      /\ UNCHANGED <<listing, highest_bidder, highest_bid, deposited>>
  BY DEF AttestPhysicalItem, ActivateAuction, ReadyToActivate, lifecycle, leader, money
<1>2. status'[x] = "Active" /\ \A a \in AuctionIds \ {x} : EntriesKept(a)
  BY <1>1 DEF TypeOK, EntriesKept
<1>3. CASE ~Digital(x)
  BY <1>1, <1>2, <1>3, PhysicalStep
<1>4. CASE Digital(x)
  <2>1. status[x] = "Created"
    BY <1>4 DEF AttestPhysicalItem, Physical, Digital, ActivateAuction, ReadyToActivate
  <2>2. OnlySale(x)
    BY <1>2, OthersKept
  <2>3. /\ PhaseOf(x)' = PhaseOf(x) /\ WinnerOf(x)' = WinnerOf(x)
        /\ PriceOf(x)' = PriceOf(x)
        /\ \A b \in Bidders : PaidInBy(x, b)' = PaidInBy(x, b)
    BY <1>1, <1>2, <1>4, <2>1, OpenValues
  <2>4. UNCHANGED <<phase, winner, price, paid_in>>
    BY <2>2, <2>3, PhaseKept, OutcomeKept, PaymentsKept
  <2>. QED
    BY <2>4 DEF SaleStep, AbstractSale!vars
<1>. QED
  BY <1>3, <1>4

LEMMA SaleCancel ==
  ASSUME TypeOK, NEW x \in AuctionIds, CancelAuction(x)
  PROVE  SaleStep
<1>1. /\ status[x] \in {"Created", "Active"}
      /\ status' = [status EXCEPT ![x] = "Cancelled"]
      /\ UNCHANGED <<listing, highest_bidder, highest_bid, deposited>>
  BY DEF CancelAuction, Cancellable, lifecycle, leader, money
<1>2. status'[x] = "Cancelled" /\ \A a \in AuctionIds \ {x} : EntriesKept(a)
  BY <1>1 DEF TypeOK, EntriesKept
<1>. QED
  BY <1>1, <1>2, PhysicalStep, SaleAnnul

-----------------------------------------------------------------------------
LEMMA SaleNext ==
  ASSUME TypeOK, TypeOK', AccountingInv, [Next]_vars
  PROVE  SaleStep
<1>1. CASE Tick \/ UpdateConfig \/ UNCHANGED vars
  <2>1. UNCHANGED <<status, listing, highest_bidder, highest_bid, deposited>>
    BY <1>1 DEF Tick, UpdateConfig, vars, lifecycle, leader, money
  <2>. QED
    BY <2>1, SaleIdle DEF EntriesKept
<1>2. ASSUME NEW l \in Listings, CreateAuction(l) PROVE SaleStep
  BY <1>2, SaleCreate
<1>3. ASSUME NEW x \in AuctionIds, ApproveNftTransfer(x) PROVE SaleStep
  <2>1. UNCHANGED <<status, listing, highest_bidder, highest_bid, deposited>>
    BY <1>3 DEF ApproveNftTransfer, lifecycle, leader, money
  <2>. QED
    BY <2>1, SaleIdle DEF EntriesKept
<1>4. ASSUME NEW x \in AuctionIds, NEW b \in Bidders, NEW amount \in Amounts,
             PlaceBid(x, b, amount)
      PROVE  SaleStep
  <2>1. /\ status[x] = "Active" /\ UNCHANGED <<status, listing>>
        /\ deposited' = [deposited EXCEPT ![x][b] = @ + amount]
    BY <1>4 DEF PlaceBid, LockBid, lifecycle
  <2>2. \A a \in AuctionIds \ {x} : EntriesKept(a)
    BY <1>4, <2>1 DEF PlaceBid, EntriesKept, TypeOK
  <2>3. amount \in Nat
    BY AmountsAreNat
  <2>. QED
    BY <2>1, <2>2, <2>3, SalePayIn
<1>5. ASSUME NEW x \in AuctionIds, NEW b \in Bidders, NEW amount \in Amounts,
             NEW sealed_amount \in Amounts, CommitBid(x, b, amount, sealed_amount)
      PROVE  SaleStep
  <2>1. /\ status[x] = "Active"
        /\ UNCHANGED <<status, listing, highest_bidder, highest_bid>>
        /\ deposited' = [deposited EXCEPT ![x][b] = @ + amount]
    BY <1>5 DEF CommitBid, LockBid, lifecycle, leader
  <2>2. \A a \in AuctionIds \ {x} : EntriesKept(a)
    BY <2>1 DEF EntriesKept, TypeOK
  <2>3. amount \in Nat
    BY AmountsAreNat
  <2>. QED
    BY <2>1, <2>2, <2>3, SalePayIn
<1>6. ASSUME NEW x \in AuctionIds, NEW b \in Bidders, NEW amount \in Amounts,
             RevealBid(x, b, amount)
      PROVE  SaleStep
  <2>1. UNCHANGED <<status, listing, highest_bidder, highest_bid, deposited>>
    BY <1>6 DEF RevealBid, lifecycle, leader, money
  <2>. QED
    BY <2>1, SaleIdle DEF EntriesKept
<1>. QED
  BY <1>1, <1>2, <1>3, <1>4, <1>5, <1>6, SaleActivation, SaleCancel, SaleClose,
     SaleSettle, SaleRefund, SaleBuyNow DEF Next

LEMMA SaleInit == Init => AbstractSale!Init
<1>. SUFFICES ASSUME Init PROVE AbstractSale!Init
  OBVIOUS
<1>1. \A a \in AuctionIds : ~OnSale(a) /\ ~Decided(a)
  BY DEF Init, OnSale, Decided
<1>2. \A a \in AuctionIds :
        /\ PhaseOf(a) = "NotListed" /\ WinnerOf(a) = None /\ PriceOf(a) = 0
        /\ \A b \in Bidders : PaidInBy(a, b) = 0
  BY <1>1 DEF PhaseOf, WinnerOf, PriceOf, PaidInBy
<1>3. phase = [a \in AuctionIds |-> "NotListed"] /\ winner = [a \in AuctionIds |-> None]
      /\ price = [a \in AuctionIds |-> 0]
  BY <1>2 DEF phase, winner, price
<1>4. \A a \in AuctionIds : [b \in Bidders |-> PaidInBy(a, b)] = [b \in Bidders |-> 0]
  BY <1>2
<1>5. paid_in = [a \in AuctionIds |-> [b \in Bidders |-> 0]]
  BY <1>4 DEF paid_in
<1>. QED
  BY <1>3, <1>5 DEF AbstractSale!Init

(* English, Dutch and sealed auctions of digital items all keep the one promise of Sale:
   sold once, to a bidder who has the price in, or void; the seller paid once; whatever
   else a bidder paid in stays his until he takes it out.  For bidders who escrow what
   they commit to. *)
THEOREM AuctionImplementsSale ==
  ASSUME FaithfulBidders
  PROVE  Spec => ImplementsSale
<1>1. TypeOK /\ TypeOK' /\ AccountingInv /\ [Next]_vars => AccountingInv'
  BY AccountingStep
<1>2. TypeOK /\ TypeOK' /\ AccountingInv /\ [Next]_vars =>
        [AbstractSale!Next]_(AbstractSale!vars)
  BY SaleNext DEF SaleStep
<1>. QED
  BY <1>1, <1>2, SaleInit, AccountingInit, TypeCorrect, PTL
  DEF Spec, ImplementsSale, AbstractSale!Spec
=============================================================================
