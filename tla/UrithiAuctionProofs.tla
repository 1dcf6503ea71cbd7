------------------------ MODULE UrithiAuctionProofs -------------------------
(***************************************************************************)
(* Theorems about UrithiAuction for every set of bidders, listings and     *)
(* amounts, any number of auctions and any length of time: the contract's  *)
(* arithmetic, the shape of its storage, when auctions end, and that every *)
(* unit a faithful bidder paid into one is accounted for and settlement    *)
(* distributes the winning bid exactly once.                               *)
(***************************************************************************)
EXTENDS UrithiAuction, RoyaltySplit, DutchPrice, Induction

(* The settlement split and the Dutch price, for every amount, rate and time. *)

(* Division by the basis points rounds down. *)
LEMMA RoundsDown ==
  ASSUME NEW x \in Nat
  PROVE  /\ x \div BasisPoints \in Nat
         /\ BasisPoints * (x \div BasisPoints) <= x
BY DEF BasisPoints

(* Rates that are at most 100% together take at most 100% of the bid. *)
LEMMA RatesTakeAtMostAll ==
  ASSUME NEW bid \in Nat, NEW r \in Nat, NEW f \in Nat, r + f <= BasisPoints
  PROVE  bid * r + bid * f <= bid * BasisPoints
<1>1. bid * r + bid * f = bid * (r + f)
  OBVIOUS
<1>2. bid * (r + f) <= bid * BasisPoints
  BY DEF BasisPoints
<1>. QED
  BY <1>1, <1>2 DEF BasisPoints

(* royalty.rs, calculate_split: with royalty and fee at most 100% together -
   what create_auction asserts - no part is negative, so no transfer is left
   out, and the three transfers pay out the winning bid, no unit more or less. *)
THEOREM SplitPaysTheBid ==
  ASSUME NEW bid \in Nat, NEW r \in Nat, NEW f \in Nat, r + f <= BasisPoints
  PROVE  LET split == CalculateSplit(bid, r, f)
         IN  /\ split.seller \in Nat /\ split.royalty \in Nat /\ split.fee \in Nat
             /\ TotalPayout(split) = bid
<1>. DEFINE royalty == (bid * r) \div BasisPoints
            fee     == (bid * f) \div BasisPoints
<1>1. bid * r \in Nat /\ bid * f \in Nat
  OBVIOUS
<1>2. royalty \in Nat /\ BasisPoints * royalty <= bid * r
  BY <1>1, RoundsDown
<1>3. fee \in Nat /\ BasisPoints * fee <= bid * f
  BY <1>1, RoundsDown
<1>. HIDE DEF royalty, fee
<1>4. royalty + fee <= bid
  <2>1. BasisPoints * (royalty + fee) <= bid * BasisPoints
    BY <1>1, <1>2, <1>3, RatesTakeAtMostAll DEF BasisPoints
  <2>. QED
    BY <2>1, <1>2, <1>3 DEF BasisPoints
<1>5. CalculateSplit(bid, r, f)
        = [seller |-> bid - royalty - fee, royalty |-> royalty, fee |-> fee]
  BY DEF CalculateSplit, royalty, fee
<1>. QED
  BY <1>2, <1>3, <1>4, <1>5 DEF TotalPayout, Payout

(* A later moment has at least the decay of an earlier one. *)
LEMMA DecayGrows ==
  ASSUME NEW m \in Nat, NEW n \in Nat, m <= n, NEW d \in Nat
  PROVE  /\ m * d \in Nat /\ n * d \in Nat
         /\ m * d <= n * d
<1>1. n * d = m * d + (n - m) * d
  OBVIOUS
<1>2. (n - m) * d >= 0
  OBVIOUS
<1>. QED
  BY <1>1, <1>2

(* dutch.rs, get_current_price: the price never rises, and stays between the
   reserve and the start price, at the saturation limits of the i128 too. *)
THEOREM DutchPriceFalls ==
  ASSUME NEW sp \in Int, NEW rp \in Int, rp <= sp, NEW d \in Nat,
         NEW st \in Nat, NEW t1 \in Nat, NEW t2 \in Nat, t1 <= t2,
         I128_MAX \in Nat
  PROVE  /\ CurrentPrice(sp, rp, d, st, t1) \in Int
         /\ CurrentPrice(sp, rp, d, st, t2) <= CurrentPrice(sp, rp, d, st, t1)
         /\ rp <= CurrentPrice(sp, rp, d, st, t1)
         /\ CurrentPrice(sp, rp, d, st, t1) <= sp
<1>1. CASE t2 <= st
  BY <1>1 DEF CurrentPrice
<1>2. CASE t1 <= st /\ ~(t2 <= st)
  <2>1. (t2 - st) * d \in Nat
    BY <1>2, DecayGrows
  <2>. QED
    BY <1>2, <2>1 DEF CurrentPrice, Lesser, Greater
<1>3. CASE ~(t1 <= st) /\ ~(t2 <= st)
  <2>1. /\ (t1 - st) * d \in Nat /\ (t2 - st) * d \in Nat
        /\ (t1 - st) * d <= (t2 - st) * d
    BY <1>3, DecayGrows
  <2>. QED
    BY <1>3, <2>1 DEF CurrentPrice, Lesser, Greater
<1>. QED
  BY <1>1, <1>2, <1>3

-----------------------------------------------------------------------------
(* The types. *)

(* What the assumptions say of the listing of an auction that exists. *)
LEMMA ListingFields ==
  ASSUME TypeOK, NEW a \in AuctionIds, status[a] # "Absent"
  PROVE  /\ listing[a] \in Listings
         /\ IsListing(listing[a])
         /\ listing[a].payment_token \in Tokens
         /\ listing[a].seller \in Sellers
         /\ Digital(a) => listing[a].item.token \in NFTs
BY ListingsAssumption DEF TypeOK, Tokens, Sellers, NFTs, Digital

LEMMA AmountsAreNat == \A x \in Amounts : x \in Nat
BY AmountsAssumption, I128Assumption

(* A transfer into the escrow keeps the two balances it changes numbers. *)
LEMMA LockBidType ==
  ASSUME TypeOK, NEW a \in AuctionIds, NEW b \in Bidders, NEW x \in Nat,
         status[a] # "Absent", LockBid(a, b, x)
  PROVE  /\ escrow' \in [Tokens -> Nat]
         /\ deposited' \in [AuctionIds -> [Bidders -> Int]]
         /\ UNCHANGED proceeds
<1>1. listing[a].payment_token \in Tokens
  BY ListingFields
<1>2. /\ escrow \in [Tokens -> Nat]
      /\ deposited \in [AuctionIds -> [Bidders -> Int]]
  BY DEF TypeOK
<1>3. escrow[listing[a].payment_token] + x \in Nat
  BY <1>1, <1>2
<1>4. deposited[a][b] + x \in Int
  BY <1>2
<1>. QED
  BY <1>1, <1>2, <1>3, <1>4 DEF LockBid

(* The Dutch price is a number whatever the listing. *)
LEMMA DutchPriceType ==
  ASSUME TypeOK, NEW a \in AuctionIds, status[a] # "Absent"
  PROVE  DutchPriceAt(a, now) \in Int
<1>1. IsListing(listing[a]) /\ now \in Nat
  BY ListingFields DEF TypeOK
<1>. DEFINE elapsed == now - listing[a].start_time
            rate    == listing[a].price_decay_per_second
<1>2. elapsed \in Int /\ rate \in Int
  BY <1>1 DEF IsListing
<1>3. elapsed * rate \in Int
  BY <1>2
<1>. QED
  BY <1>1, <1>3, I128Assumption
  DEF IsListing, DutchPriceAt, CurrentPrice, Lesser, Greater

(* A settlement's payout is a number, and not negative. *)
LEMMA PayoutType ==
  ASSUME NEW bid \in Nat, NEW r \in Nat, NEW f \in Nat
  PROVE  TotalPayout(CalculateSplit(bid, r, f)) \in Nat
<1>1. bid * r \in Nat /\ bid * f \in Nat
  OBVIOUS
<1>2. (bid * r) \div BasisPoints \in Nat /\ (bid * f) \div BasisPoints \in Nat
  BY <1>1, RoundsDown
<1>. QED
  BY <1>2 DEF TotalPayout, CalculateSplit, Payout

LEMMA SatAddType ==
  ASSUME NEW x \in Nat, NEW y \in Nat
  PROVE  SatAdd(x, y) \in Nat
BY I128Assumption DEF SatAdd, Lesser

LEMMA LosingCreditType ==
  ASSUME TypeOK, NEW a \in AuctionIds, NEW b \in Bidders,
         NEW w \in DOMAIN revealed_bids[a]
  PROVE  LosingCredit(a, b, w) \in Nat
<1>1. revealed_bids[a] \in Seq(RevealEntries)
  BY DEF TypeOK
<1>2. ASSUME NEW i \in DOMAIN revealed_bids[a]
      PROVE  revealed_bids[a][i].amount \in Nat
  <2>1. revealed_bids[a][i] \in RevealEntries
    BY <1>1
  <2>. QED
    BY <2>1, AmountsAreNat DEF RevealEntries
<1>3. CASE HasRevealed(a, b)
  <2>. DEFINE i == CHOOSE j \in DOMAIN revealed_bids[a] :
                     revealed_bids[a][j].bidder = b
  <2>1. i \in DOMAIN revealed_bids[a]
    BY <1>3 DEF HasRevealed
  <2>2. revealed_bids[a][i].amount \in Nat
    BY <2>1, <1>2
  <2>3. LosingCredit(a, b, w) \in {revealed_bids[a][i].amount, 0}
    BY DEF LosingCredit
  <2>. QED
    BY <2>2, <2>3
<1>4. CASE ~HasRevealed(a, b)
  BY <1>4 DEF LosingCredit
<1>. QED
  BY <1>3, <1>4

-----------------------------------------------------------------------------

LEMMA TypeInit == Init => TypeOK
<1>. SUFFICES ASSUME Init PROVE TypeOK
  OBVIOUS
<1>1. config \in [fee : Fees, max_royalty : MaxRoyalties, paused : BOOLEAN]
  BY DEF Init
<1>2. auction_count \in 0 .. MaxAuctions
      /\ \A a \in AuctionIds : status[a] = "Absent" /\ ~(a < auction_count)
  BY BoundsAssumption DEF Init, AuctionIds
<1>3. /\ status \in [AuctionIds -> Statuses]
      /\ revealed_bids \in [AuctionIds -> Seq(RevealEntries)]
      /\ nft_owner \in [NFTs -> Sellers \cup Bidders]
  BY DEF Init, Statuses
<1>. QED
  BY <1>1, <1>2, <1>3 DEF Init, TypeOK

LEMMA TypeCreateAuction ==
  ASSUME TypeOK, NEW l \in Listings, CreateAuction(l)
  PROVE  TypeOK'
<1>. DEFINE a == auction_count
<1>1. l.end_time \in Nat
  BY ListingsAssumption DEF IsListing
<1>2. config.fee \in Nat
  BY FeesAssumption DEF TypeOK
<1>3. /\ a \in AuctionIds
      /\ auction_count' = a + 1
      /\ listing' = [listing EXCEPT ![a] = l]
      /\ platform_fee_bps' = [platform_fee_bps EXCEPT ![a] = config.fee]
      /\ status' = [status EXCEPT ![a] = "Created"]
      /\ end_time' = [end_time EXCEPT ![a] = l.end_time]
      /\ UNCHANGED <<platform, attested, highest_bidder, highest_bid,
                     last_bid_at, sealed, money, nft>>
  BY DEF CreateAuction
<1>4. auction_count' \in 0 .. MaxAuctions
  BY <1>3, BoundsAssumption DEF AuctionIds
<1>5. /\ listing' \in [AuctionIds -> Listings \cup {None}]
      /\ platform_fee_bps' \in [AuctionIds -> Nat]
      /\ status' \in [AuctionIds -> Statuses]
      /\ end_time' \in [AuctionIds -> Nat]
  BY <1>1, <1>2, <1>3 DEF TypeOK, Statuses
<1>6. ASSUME NEW x \in AuctionIds
      PROVE  /\ status'[x] # "Absent" <=> x < auction_count'
             /\ status'[x] # "Absent" => listing'[x] \in Listings
  <2>1. CASE x = a
    BY <2>1, <1>3, BoundsAssumption DEF TypeOK, AuctionIds
  <2>2. CASE x # a
    <3>1. status'[x] = status[x] /\ listing'[x] = listing[x]
      BY <2>2, <1>3 DEF TypeOK
    <3>2. x < a + 1 <=> x < a
      BY <2>2, BoundsAssumption DEF TypeOK, AuctionIds
    <3>. QED
      BY <1>3, <3>1, <3>2 DEF TypeOK
  <2>. QED
    BY <2>1, <2>2
<1>. QED
  BY <1>3, <1>4, <1>5, <1>6 DEF TypeOK, platform, sealed, money, nft

LEMMA TypePlaceBid ==
  ASSUME TypeOK, NEW a \in AuctionIds, NEW b \in Bidders, NEW amount \in Amounts,
         PlaceBid(a, b, amount)
  PROVE  TypeOK'
<1>2. amount \in Nat
  BY AmountsAreNat
<1>3. /\ escrow' \in [Tokens -> Nat]
      /\ deposited' \in [AuctionIds -> [Bidders -> Int]]
      /\ UNCHANGED proceeds
  BY <1>2, LockBidType DEF PlaceBid
<1>4. refunds' \in [AuctionIds -> [Bidders -> Nat]]
  <2>1. CASE highest_bidder[a] = None
    BY <2>1 DEF PlaceBid, OutbidRefunds, TypeOK
  <2>2. CASE highest_bidder[a] # None
    <3>1. highest_bidder[a] \in Bidders /\ highest_bid[a] \in Nat
      BY <2>2 DEF TypeOK
    <3>2. SatAdd(refunds[a][highest_bidder[a]], highest_bid[a]) \in Nat
      BY <3>1, SatAddType DEF TypeOK
    <3>. QED
      BY <2>2, <3>1, <3>2 DEF PlaceBid, OutbidRefunds, TypeOK
  <2>. QED
    BY <2>1, <2>2
<1>5. /\ end_time' = [end_time EXCEPT ![a] = DeadlineAfterBid(a)]
      /\ highest_bidder' = [highest_bidder EXCEPT ![a] = b]
      /\ highest_bid' = [highest_bid EXCEPT ![a] = amount]
      /\ last_bid_at' = [last_bid_at EXCEPT ![a] = now]
      /\ UNCHANGED <<platform, lifecycle, status, sealed, nft>>
  BY DEF PlaceBid
<1>6. DeadlineAfterBid(a) \in Nat
  BY TimesAssumption DEF DeadlineAfterBid, TypeOK
<1>7. /\ end_time' \in [AuctionIds -> Nat]
      /\ last_bid_at' \in [AuctionIds -> Nat]
      /\ highest_bidder' \in [AuctionIds -> Bidders \cup {None}]
      /\ highest_bid' \in [AuctionIds -> Nat]
  BY <1>2, <1>5, <1>6 DEF TypeOK
<1>. QED
  BY <1>3, <1>4, <1>5, <1>7 DEF TypeOK, platform, lifecycle, sealed, nft

LEMMA TypeBuyNow ==
  ASSUME TypeOK, NEW a \in AuctionIds, NEW b \in Bidders,
         NEW max_price \in Amounts \cup {None}, BuyNow(a, b, max_price)
  PROVE  TypeOK'
<1>. DEFINE price == DutchPriceAt(a, now)
<1>1. /\ status[a] # "Absent" /\ LockBid(a, b, price)
      /\ highest_bidder' = [highest_bidder EXCEPT ![a] = b]
      /\ highest_bid' = [highest_bid EXCEPT ![a] = price]
      /\ status' = [status EXCEPT ![a] = "Ended"]
      /\ last_bid_at' = [last_bid_at EXCEPT ![a] = now]
      /\ UNCHANGED <<platform, lifecycle, end_time, sealed, refunds, nft>>
  BY DEF BuyNow
<1>2. price \in Nat
  BY <1>1, DutchPriceType DEF LockBid
<1>. HIDE DEF price
<1>3. /\ escrow' \in [Tokens -> Nat]
      /\ deposited' \in [AuctionIds -> [Bidders -> Int]]
      /\ UNCHANGED proceeds
  BY <1>1, <1>2, LockBidType
<1>. QED
  BY <1>1, <1>2, <1>3
  DEF TypeOK, Statuses, platform, lifecycle, sealed, nft

LEMMA TypeCommitBid ==
  ASSUME TypeOK, NEW a \in AuctionIds, NEW b \in Bidders, NEW amount \in Amounts,
         NEW sealed_amount \in Amounts, CommitBid(a, b, amount, sealed_amount)
  PROVE  TypeOK'
<1>3. /\ escrow' \in [Tokens -> Nat]
      /\ deposited' \in [AuctionIds -> [Bidders -> Int]]
      /\ UNCHANGED proceeds
  BY AmountsAreNat, LockBidType DEF CommitBid
<1>4. [commitment |-> Commitment(sealed_amount, a, b), amount |-> amount]
        \in CommitmentRecords
  BY DEF CommitmentRecords, Commitment
<1>5. /\ commitments' \in [AuctionIds -> [Bidders -> CommitmentRecords \cup {None}]]
      /\ bidder_count' \in [AuctionIds -> Nat]
  <2>1. /\ commitments \in [AuctionIds -> [Bidders -> CommitmentRecords \cup {None}]]
        /\ bidder_count \in [AuctionIds -> Nat]
    BY DEF TypeOK
  <2>. QED
    BY <1>4, <2>1 DEF CommitBid
<1>6. UNCHANGED <<platform, lifecycle, status, leader, revealed_bids, refunds, nft>>
  BY DEF CommitBid
<1>. QED
  BY <1>3, <1>5, <1>6
  DEF TypeOK, platform, lifecycle, leader, nft

LEMMA TypeRevealBid ==
  ASSUME TypeOK, NEW a \in AuctionIds, NEW b \in Bidders, NEW amount \in Amounts,
         RevealBid(a, b, amount)
  PROVE  TypeOK'
<1>1. [bidder |-> b, amount |-> amount] \in RevealEntries
  BY DEF RevealEntries
<1>2. revealed_bids' \in [AuctionIds -> Seq(RevealEntries)]
  BY <1>1 DEF RevealBid, TypeOK
<1>3. UNCHANGED <<platform, lifecycle, status, leader, bidder_count, commitments, money, nft>>
  BY DEF RevealBid
<1>. QED
  BY <1>2, <1>3 DEF TypeOK, platform, lifecycle, leader, money, nft

LEMMA TypeRefundUnrevealed ==
  ASSUME TypeOK, NEW a \in AuctionIds, NEW b \in Bidders, RefundUnrevealed(a, b)
  PROVE  TypeOK'
<1>1. status[a] # "Absent" /\ commitments[a][b] # None
  BY DEF RefundUnrevealed, MayTakeBack
<1>2. listing[a].payment_token \in Tokens
  BY <1>1, ListingFields
<1>3. commitments[a][b].amount \in Nat
  <2>1. commitments[a][b] \in CommitmentRecords
    BY <1>1 DEF TypeOK
  <2>. QED
    BY <2>1, AmountsAreNat DEF CommitmentRecords
<1>. DEFINE token == listing[a].payment_token
            amount == commitments[a][b].amount
<1>4. /\ escrow[token] >= amount
      /\ escrow' = [escrow EXCEPT ![token] = @ - amount]
      /\ deposited' = [deposited EXCEPT ![a][b] = @ - amount]
      /\ UNCHANGED proceeds
  BY DEF RefundUnrevealed, RefundBid
<1>5. /\ escrow' \in [Tokens -> Nat]
      /\ deposited' \in [AuctionIds -> [Bidders -> Int]]
      /\ UNCHANGED proceeds
  <2>1. /\ escrow \in [Tokens -> Nat]
        /\ deposited \in [AuctionIds -> [Bidders -> Int]]
    BY DEF TypeOK
  <2>2. token \in Tokens /\ amount \in Nat
    BY <1>2, <1>3
  <2>. HIDE DEF token, amount
  <2>3. escrow' \in [Tokens -> Nat]
    BY <1>4, <2>1, <2>2
  <2>4. deposited' \in [AuctionIds -> [Bidders -> Int]]
    BY <1>4, <2>1, <2>2
  <2>. QED
    BY <1>4, <2>3, <2>4
<1>6. bidder_count' \in [AuctionIds -> Nat]
  BY DEF RefundUnrevealed, TypeOK, Greater
<1>. QED
  BY <1>5, <1>6 DEF RefundUnrevealed, TypeOK, platform, lifecycle, leader, nft

LEMMA TypeWithdrawRefund ==
  ASSUME TypeOK, NEW a \in AuctionIds, NEW b \in Bidders, WithdrawRefund(a, b)
  PROVE  TypeOK'
<1>1. listing[a].payment_token \in Tokens
  BY ListingFields DEF WithdrawRefund
<1>2. /\ escrow' \in [Tokens -> Nat]
      /\ deposited' \in [AuctionIds -> [Bidders -> Int]]
      /\ UNCHANGED proceeds
  BY <1>1 DEF WithdrawRefund, RefundBid, TypeOK
<1>. QED
  BY <1>2 DEF WithdrawRefund, TypeOK, platform, lifecycle, leader, sealed, nft

LEMMA TypeFinalize ==
  ASSUME TypeOK, NEW a \in AuctionIds, FinalizeSealedAuction(a)
  PROVE  /\ refunds' \in [AuctionIds -> [Bidders -> Nat]]
         /\ highest_bidder' \in [AuctionIds -> Bidders \cup {None}]
         /\ highest_bid' \in [AuctionIds -> Nat]
         /\ status' = [status EXCEPT ![a] = "Ended"]
<1>1. PICK w \in DOMAIN revealed_bids[a] :
        /\ refunds' = [refunds EXCEPT ![a] =
             [b \in Bidders |-> SatAdd(refunds[a][b], LosingCredit(a, b, w))]]
        /\ highest_bidder' =
             [highest_bidder EXCEPT ![a] = revealed_bids[a][w].bidder]
        /\ highest_bid' = [highest_bid EXCEPT ![a] = revealed_bids[a][w].amount]
        /\ status' = [status EXCEPT ![a] = "Ended"]
  BY DEF FinalizeSealedAuction
<1>2. revealed_bids[a][w] \in RevealEntries
  BY DEF TypeOK
<1>3. revealed_bids[a][w].bidder \in Bidders /\ revealed_bids[a][w].amount \in Nat
  BY <1>2, AmountsAreNat DEF RevealEntries
<1>4. \A b \in Bidders : SatAdd(refunds[a][b], LosingCredit(a, b, w)) \in Nat
  BY LosingCreditType, SatAddType DEF TypeOK
<1>. QED
  BY <1>1, <1>3, <1>4 DEF TypeOK

LEMMA TypeCloseAuction ==
  ASSUME TypeOK, NEW a \in AuctionIds, CloseAuction(a)
  PROVE  TypeOK'
<1>1. /\ refunds' \in [AuctionIds -> [Bidders -> Nat]]
      /\ highest_bidder' \in [AuctionIds -> Bidders \cup {None}]
      /\ highest_bid' \in [AuctionIds -> Nat]
  BY TypeFinalize DEF CloseAuction, TypeOK
<1>2. status[a] # "Absent"
      /\ \E s \in {"Ended", "Cancelled"} : status' = [status EXCEPT ![a] = s]
  BY TypeFinalize DEF CloseAuction
<1>. QED
  BY <1>1, <1>2
  DEF CloseAuction, TypeOK, Statuses, platform, lifecycle, sealed, nft

LEMMA TypeSettleAuction ==
  ASSUME TypeOK, NEW a \in AuctionIds, SettleAuction(a)
  PROVE  TypeOK'
<1>. DEFINE split == CalculateSplit(highest_bid[a], listing[a].royalty_bps,
                                    platform_fee_bps[a])
            token == listing[a].payment_token
<1>1. status[a] # "Absent" /\ highest_bidder[a] \in Bidders
  BY DEF SettleAuction, TypeOK
<1>2. IsListing(listing[a]) /\ token \in Tokens
      /\ (Digital(a) => listing[a].item.token \in NFTs)
  BY <1>1, ListingFields
<1>3. TotalPayout(split) \in Nat
  BY <1>2, PayoutType DEF TypeOK, IsListing
<1>4. escrow' \in [Tokens -> Nat] /\ proceeds' \in [AuctionIds -> Nat]
  <2>1. /\ escrow[token] >= TotalPayout(split)
        /\ escrow' = [escrow EXCEPT ![token] = @ - TotalPayout(split)]
        /\ proceeds' = [proceeds EXCEPT ![a] = @ + TotalPayout(split)]
    BY DEF SettleAuction
  <2>. HIDE DEF split, token
  <2>. QED
    BY <1>2, <1>3, <2>1 DEF TypeOK
<1>5. nft_owner' \in [NFTs -> Sellers \cup Bidders]
  BY <1>1, <1>2 DEF SettleAuction, TransferNft, TypeOK
<1>6. status' = [status EXCEPT ![a] = "Settled"]
      /\ UNCHANGED <<platform, lifecycle, leader, sealed, refunds, deposited,
                     approved_until>>
  BY DEF SettleAuction
<1>. QED
  BY <1>1, <1>4, <1>5, <1>6
  DEF TypeOK, Statuses, platform, lifecycle, leader, sealed

(* The calls that only move the status, or only the platform. *)
LEMMA TypeOther ==
  ASSUME TypeOK,
         \/ Tick \/ UpdateConfig
         \/ \E a \in AuctionIds :
              \/ AttestPhysicalItem(a) \/ ActivateAuction(a)
              \/ CancelAuction(a) \/ ApproveNftTransfer(a)
         \/ UNCHANGED vars
  PROVE  TypeOK'
<1>1. CASE Tick
  BY <1>1 DEF Tick, TypeOK, lifecycle, leader, sealed, money, nft
<1>2. CASE UpdateConfig
  BY <1>2 DEF UpdateConfig, TypeOK, lifecycle, leader, sealed, money, nft
<1>3. ASSUME NEW a \in AuctionIds, AttestPhysicalItem(a) PROVE TypeOK'
  BY <1>3 DEF AttestPhysicalItem, TypeOK, Statuses, platform, leader, sealed,
     money, nft
<1>4. ASSUME NEW a \in AuctionIds, ActivateAuction(a) PROVE TypeOK'
  BY <1>4 DEF ActivateAuction, ReadyToActivate, TypeOK, Statuses, platform,
     lifecycle, leader, sealed, money, nft
<1>5. ASSUME NEW a \in AuctionIds, CancelAuction(a) PROVE TypeOK'
  BY <1>5 DEF CancelAuction, Cancellable, TypeOK, Statuses, platform,
     lifecycle, leader, sealed, money, nft
<1>6. ASSUME NEW a \in AuctionIds, ApproveNftTransfer(a) PROVE TypeOK'
  <2>1. now + APPROVAL_LIFETIME \in Int
    BY TimesAssumption DEF TypeOK
  <2>. QED
    BY <1>6, <2>1 DEF ApproveNftTransfer, TypeOK, platform, lifecycle, leader,
       sealed, money
<1>7. CASE UNCHANGED vars
  BY <1>7 DEF vars, TypeOK, platform, lifecycle, leader, sealed, money, nft
<1>. QED
  BY <1>1, <1>2, <1>3, <1>4, <1>5, <1>6, <1>7

LEMMA TypeStep == TypeOK /\ [Next]_vars => TypeOK'
<1>. SUFFICES ASSUME TypeOK, [Next]_vars PROVE TypeOK'
  OBVIOUS
<1>1. ASSUME NEW l \in Listings, CreateAuction(l) PROVE TypeOK'
  BY <1>1, TypeCreateAuction
<1>2. ASSUME NEW a \in AuctionIds, CloseAuction(a) \/ SettleAuction(a)
      PROVE  TypeOK'
  BY <1>2, TypeCloseAuction, TypeSettleAuction
<1>3. ASSUME NEW a \in AuctionIds, NEW b \in Bidders,
             RefundUnrevealed(a, b) \/ WithdrawRefund(a, b)
      PROVE  TypeOK'
  BY <1>3, TypeRefundUnrevealed, TypeWithdrawRefund
<1>4. ASSUME NEW a \in AuctionIds, NEW b \in Bidders, NEW amount \in Amounts,
             \/ PlaceBid(a, b, amount) \/ RevealBid(a, b, amount)
             \/ \E sealed_amount \in Amounts : CommitBid(a, b, amount, sealed_amount)
      PROVE  TypeOK'
  BY <1>4, TypePlaceBid, TypeRevealBid, TypeCommitBid
<1>5. ASSUME NEW a \in AuctionIds, NEW b \in Bidders,
             NEW max_price \in Amounts \cup {None}, BuyNow(a, b, max_price)
      PROVE  TypeOK'
  BY <1>5, TypeBuyNow
<1>. QED
  BY <1>1, <1>2, <1>3, <1>4, <1>5, TypeOther DEF Next

(* Type correctness of the contract's storage: no sequence of calls leaves the
   shapes of types.rs, drives a token balance below zero, or gives an id that
   was not created a status. *)
THEOREM TypeCorrect == Spec => []TypeOK
<1>. QED
  BY TypeInit, TypeStep, PTL DEF Spec

-----------------------------------------------------------------------------
(* When auctions end: no English auction is over within the anti-snipe window of its
   last bid, and the outcome of a digital auction is final. *)

(* Only the asserts on the two times make NoSniping true, and they bite at
   different calls: a bid leaves the deadline at least a window away, and the
   auction ends no sooner than its deadline.  The invariant states both. *)
Deadlines(a) ==
  /\ status[a] = "Absent" => highest_bidder[a] = None
  /\ status[a] # "Absent" /\ listing[a].format = "English" =>
       /\ highest_bidder[a] # None =>
            end_time[a] >= last_bid_at[a] + ANTI_SNIPE_WINDOW_SECS
       /\ status[a] \in {"Ended", "Settled"} =>
            highest_bidder[a] # None /\ now >= end_time[a]

DeadlineInv == \A a \in AuctionIds : Deadlines(a)

LEMMA DeadlineInit == Init => DeadlineInv
BY DEF Init, DeadlineInv, Deadlines

(* A step that leaves an auction's times, leader and listing alone, and neither
   creates nor ends it, keeps its deadlines; time may pass. *)
LEMMA DeadlineFrame ==
  ASSUME TypeOK, TypeOK', NEW a \in AuctionIds, Deadlines(a),
         now' >= now, listing'[a] = listing[a], end_time'[a] = end_time[a],
         highest_bidder'[a] = highest_bidder[a],
         last_bid_at'[a] = last_bid_at[a],
         status[a] = "Absent" <=> status'[a] = "Absent",
         status'[a] \in {"Ended", "Settled"} =>
           status[a] \in {"Ended", "Settled"} \/ listing[a].format # "English"
  PROVE  Deadlines(a)'
<1>1. now \in Nat /\ now' \in Nat /\ end_time[a] \in Nat
  BY DEF TypeOK
<1>. QED
  BY <1>1 DEF Deadlines

LEMMA DeadlineCreate ==
  ASSUME TypeOK, TypeOK', DeadlineInv, NEW l \in Listings, CreateAuction(l)
  PROVE  DeadlineInv'
<1>. SUFFICES ASSUME NEW a \in AuctionIds PROVE Deadlines(a)'
  BY DEF DeadlineInv
<1>. DEFINE new == auction_count
<1>1. /\ new \in AuctionIds
      /\ listing' = [listing EXCEPT ![new] = l]
      /\ status' = [status EXCEPT ![new] = "Created"]
      /\ end_time' = [end_time EXCEPT ![new] = l.end_time]
      /\ UNCHANGED <<now, highest_bidder, last_bid_at>>
  BY DEF CreateAuction, platform
<1>2. CASE a = new
  <2>1. status[a] = "Absent" /\ status'[a] = "Created"
    BY <1>1, <1>2, BoundsAssumption DEF TypeOK, AuctionIds
  <2>2. highest_bidder'[a] = None
    BY <1>1, <2>1 DEF DeadlineInv, Deadlines
  <2>. QED
    BY <2>1, <2>2 DEF Deadlines
<1>3. CASE a # new
  <2>1. /\ listing'[a] = listing[a] /\ status'[a] = status[a]
        /\ end_time'[a] = end_time[a]
    BY <1>1, <1>3 DEF TypeOK
  <2>2. now' >= now /\ Deadlines(a)
    BY <1>1 DEF DeadlineInv, TypeOK
  <2>. QED
    BY <1>1, <2>1, <2>2, DeadlineFrame
<1>. QED
  BY <1>2, <1>3

(* A bid leaves its rivals the window: either the deadline was that far away,
   or it is moved by EXTENSION_SECS, which is no shorter. *)
LEMMA DeadlinePlaceBid ==
  ASSUME TypeOK, TypeOK', DeadlineInv, NEW x \in AuctionIds, NEW b \in Bidders,
         NEW amount \in Amounts, PlaceBid(x, b, amount)
  PROVE  DeadlineInv'
<1>. SUFFICES ASSUME NEW a \in AuctionIds PROVE Deadlines(a)'
  BY DEF DeadlineInv
<1>1. /\ status[x] = "Active"
      /\ end_time' = [end_time EXCEPT ![x] = DeadlineAfterBid(x)]
      /\ highest_bidder' = [highest_bidder EXCEPT ![x] = b]
      /\ last_bid_at' = [last_bid_at EXCEPT ![x] = now]
      /\ UNCHANGED <<now, listing, status>>
  BY DEF PlaceBid, platform, lifecycle
<1>2. CASE a = x
  <2>1. DeadlineAfterBid(x) >= now + ANTI_SNIPE_WINDOW_SECS
    <3>1. now \in Nat /\ end_time[x] \in Nat
      BY DEF TypeOK
    <3>. QED
      BY <3>1, TimesAssumption DEF DeadlineAfterBid
  <2>2. end_time'[a] = DeadlineAfterBid(x) /\ last_bid_at'[a] = now
    BY <1>1, <1>2 DEF TypeOK
  <2>. QED
    BY <1>1, <1>2, <2>1, <2>2 DEF Deadlines
<1>3. CASE a # x
  <2>1. /\ end_time'[a] = end_time[a] /\ last_bid_at'[a] = last_bid_at[a]
        /\ highest_bidder'[a] = highest_bidder[a]
    BY <1>1, <1>3 DEF TypeOK
  <2>2. now' >= now /\ Deadlines(a)
    BY <1>1 DEF DeadlineInv, TypeOK
  <2>. QED
    BY <1>1, <2>1, <2>2, DeadlineFrame
<1>. QED
  BY <1>2, <1>3

LEMMA DeadlineBuyNow ==
  ASSUME TypeOK, TypeOK', DeadlineInv, NEW x \in AuctionIds, NEW b \in Bidders,
         NEW max_price \in Amounts \cup {None}, BuyNow(x, b, max_price)
  PROVE  DeadlineInv'
<1>. SUFFICES ASSUME NEW a \in AuctionIds PROVE Deadlines(a)'
  BY DEF DeadlineInv
<1>1. /\ listing[x].format = "Dutch" /\ status[x] = "Active"
      /\ highest_bidder' = [highest_bidder EXCEPT ![x] = b]
      /\ status' = [status EXCEPT ![x] = "Ended"]
      /\ last_bid_at' = [last_bid_at EXCEPT ![x] = now]
      /\ UNCHANGED <<now, listing, end_time>>
  BY DEF BuyNow, platform, lifecycle
<1>2. CASE a = x
  BY <1>1, <1>2 DEF Deadlines, TypeOK
<1>3. CASE a # x
  <2>1. /\ status'[a] = status[a] /\ last_bid_at'[a] = last_bid_at[a]
        /\ highest_bidder'[a] = highest_bidder[a]
    BY <1>1, <1>3 DEF TypeOK
  <2>2. now' >= now /\ Deadlines(a)
    BY <1>1 DEF DeadlineInv, TypeOK
  <2>. QED
    BY <1>1, <2>1, <2>2, DeadlineFrame
<1>. QED
  BY <1>2, <1>3

(* An English auction is closed only at its deadline, and Ended only with a
   bidder in the lead. *)
LEMMA DeadlineClose ==
  ASSUME TypeOK, TypeOK', DeadlineInv, NEW x \in AuctionIds, CloseAuction(x)
  PROVE  DeadlineInv'
<1>. SUFFICES ASSUME NEW a \in AuctionIds PROVE Deadlines(a)'
  BY DEF DeadlineInv
<1>1. /\ status[x] \in {"Created", "Active"} /\ now >= end_time[x]
      /\ UNCHANGED <<now, listing, end_time, last_bid_at>>
  BY DEF CloseAuction, platform, lifecycle
<1>2. CASE a = x /\ listing[x].format = "English"
  <2>1. status' = [status EXCEPT ![x] =
                     IF highest_bidder[x] # None THEN "Ended" ELSE "Cancelled"]
        /\ UNCHANGED highest_bidder
    BY <1>2 DEF CloseAuction
  <2>. QED
    BY <1>1, <1>2, <2>1 DEF Deadlines, DeadlineInv, TypeOK
<1>3. CASE a = x /\ listing[x].format # "English"
  <2>1. status'[x] # "Absent"
    BY TypeFinalize DEF CloseAuction, TypeOK
  <2>. QED
    BY <1>1, <1>3, <2>1 DEF Deadlines
<1>4. CASE a # x
  <2>1. status'[a] = status[a] /\ highest_bidder'[a] = highest_bidder[a]
    BY <1>4 DEF CloseAuction, FinalizeSealedAuction, TypeOK
  <2>2. now' >= now /\ Deadlines(a)
    BY <1>1 DEF DeadlineInv, TypeOK
  <2>. QED
    BY <1>1, <2>1, <2>2, DeadlineFrame
<1>. QED
  BY <1>2, <1>3, <1>4

(* Steps that change nothing Deadlines reads but the time and the status. *)
LEMMA DeadlineStatusOnly ==
  ASSUME TypeOK, TypeOK', DeadlineInv, now' >= now,
         UNCHANGED <<listing, end_time, highest_bidder, last_bid_at>>,
         \/ UNCHANGED status
         \/ \E x \in AuctionIds, s \in {"Active", "Cancelled"} :
              status[x] # "Absent" /\ status' = [status EXCEPT ![x] = s]
         \/ \E x \in AuctionIds :
              status[x] = "Ended" /\ status' = [status EXCEPT ![x] = "Settled"]
  PROVE  DeadlineInv'
<1>. SUFFICES ASSUME NEW a \in AuctionIds PROVE Deadlines(a)'
  BY DEF DeadlineInv
<1>1. /\ status[a] = "Absent" <=> status'[a] = "Absent"
      /\ status'[a] \in {"Ended", "Settled"} => status[a] \in {"Ended", "Settled"}
  BY DEF TypeOK
<1>. QED
  BY <1>1, DeadlineFrame DEF DeadlineInv

(* The calls that move the status only, or none of what Deadlines reads. *)
LEMMA DeadlineOther ==
  ASSUME TypeOK, TypeOK', DeadlineInv,
         \/ Tick \/ UpdateConfig \/ UNCHANGED vars
         \/ \E x \in AuctionIds :
              \/ AttestPhysicalItem(x) \/ ActivateAuction(x) \/ CancelAuction(x)
              \/ ApproveNftTransfer(x) \/ SettleAuction(x)
              \/ \E b \in Bidders :
                   \/ RefundUnrevealed(x, b) \/ WithdrawRefund(x, b)
                   \/ \E amount, sealed_amount \in Amounts :
                        \/ CommitBid(x, b, amount, sealed_amount)
                        \/ RevealBid(x, b, amount)
  PROVE  DeadlineInv'
<1>0. now \in Nat
  BY DEF TypeOK
<1>1. CASE Tick \/ UpdateConfig \/ UNCHANGED vars
  <2>1. now' >= now /\ UNCHANGED <<status, listing, end_time, highest_bidder,
                                   last_bid_at>>
    BY <1>0, <1>1 DEF Tick, UpdateConfig, vars, platform, lifecycle, leader
  <2>. QED
    BY <2>1, DeadlineStatusOnly
<1>2. ASSUME NEW x \in AuctionIds,
             \/ AttestPhysicalItem(x) \/ ActivateAuction(x) \/ CancelAuction(x)
             \/ ApproveNftTransfer(x) \/ SettleAuction(x)
      PROVE  DeadlineInv'
  <2>1. now' >= now /\ UNCHANGED <<listing, end_time, highest_bidder, last_bid_at>>
    BY <1>0, <1>2 DEF AttestPhysicalItem, ActivateAuction, CancelAuction,
       ApproveNftTransfer, SettleAuction, platform, lifecycle, leader
  <2>2. \/ UNCHANGED status
        \/ \E s \in {"Active", "Cancelled"} :
             status[x] # "Absent" /\ status' = [status EXCEPT ![x] = s]
        \/ status[x] = "Ended" /\ status' = [status EXCEPT ![x] = "Settled"]
    BY <1>2 DEF AttestPhysicalItem, ActivateAuction, ReadyToActivate,
       CancelAuction, Cancellable, ApproveNftTransfer, SettleAuction
  <2>. QED
    BY <2>1, <2>2, DeadlineStatusOnly
<1>3. ASSUME NEW x \in AuctionIds, NEW b \in Bidders,
             RefundUnrevealed(x, b) \/ WithdrawRefund(x, b)
      PROVE  DeadlineInv'
  <2>1. now' >= now /\ UNCHANGED <<status, listing, end_time, highest_bidder,
                                   last_bid_at>>
    BY <1>0, <1>3 DEF RefundUnrevealed, WithdrawRefund, platform, lifecycle, leader
  <2>. QED
    BY <2>1, DeadlineStatusOnly
<1>4. ASSUME NEW x \in AuctionIds, NEW b \in Bidders, NEW amount \in Amounts,
             NEW sealed_amount \in Amounts,
             CommitBid(x, b, amount, sealed_amount) \/ RevealBid(x, b, amount)
      PROVE  DeadlineInv'
  <2>1. now' >= now /\ UNCHANGED <<status, listing, end_time, highest_bidder,
                                   last_bid_at>>
    BY <1>0, <1>4 DEF CommitBid, RevealBid, platform, lifecycle, leader
  <2>. QED
    BY <2>1, DeadlineStatusOnly
<1>. QED
  BY <1>1, <1>2, <1>3, <1>4

LEMMA DeadlineStep == TypeOK /\ TypeOK' /\ DeadlineInv /\ [Next]_vars => DeadlineInv'
<1>. SUFFICES ASSUME TypeOK, TypeOK', DeadlineInv, [Next]_vars PROVE DeadlineInv'
  OBVIOUS
<1>1. CASE \E l \in Listings : CreateAuction(l)
  BY <1>1, DeadlineCreate
<1>2. ASSUME NEW x \in AuctionIds, NEW b \in Bidders, NEW amount \in Amounts,
             PlaceBid(x, b, amount)
      PROVE  DeadlineInv'
  BY <1>2, DeadlinePlaceBid
<1>3. ASSUME NEW x \in AuctionIds, NEW b \in Bidders,
             NEW max_price \in Amounts \cup {None}, BuyNow(x, b, max_price)
      PROVE  DeadlineInv'
  BY <1>3, DeadlineBuyNow
<1>4. CASE \E x \in AuctionIds : CloseAuction(x)
  BY <1>4, DeadlineClose
<1>. QED
  BY <1>1, <1>2, <1>3, <1>4, DeadlineOther DEF Next

LEMMA DeadlineInvImpliesNoSniping == TypeOK /\ DeadlineInv => NoSniping
<1>. SUFFICES ASSUME TypeOK, DeadlineInv, NEW a \in AuctionIds,
                     status[a] \in {"Ended", "Settled"},
                     listing[a].format = "English"
              PROVE  now >= last_bid_at[a] + ANTI_SNIPE_WINDOW_SECS
  BY DEF NoSniping
<1>1. /\ end_time[a] >= last_bid_at[a] + ANTI_SNIPE_WINDOW_SECS
      /\ now >= end_time[a]
  BY DEF DeadlineInv, Deadlines
<1>2. now \in Nat /\ end_time[a] \in Nat /\ last_bid_at[a] \in Nat
  BY DEF TypeOK
<1>. QED
  BY <1>1, <1>2, TimesAssumption

(* The anti-sniping promise: when an English auction is over, the window since
   its last bid has passed - for digital and physical items, and even when a
   custodian attests again. *)
THEOREM NoSnipingHolds == Spec => []NoSniping
<1>1. Init => DeadlineInv
  BY DeadlineInit
<1>2. TypeOK /\ TypeOK' /\ DeadlineInv /\ [Next]_vars => DeadlineInv'
  BY DeadlineStep
<1>3. TypeOK /\ DeadlineInv => NoSniping
  BY DeadlineInvImpliesNoSniping
<1>. QED
  BY <1>1, <1>2, <1>3, TypeCorrect, PTL DEF Spec

-----------------------------------------------------------------------------
(* What one step may do to an auction of a digital item that is over. *)
StaysDecided(a) ==
  /\ \/ status'[a] = status[a]
     \/ status[a] = "Ended" /\ status'[a] = "Settled"
  /\ highest_bidder'[a] = highest_bidder[a]
  /\ highest_bid'[a] = highest_bid[a]
  /\ end_time'[a] = end_time[a]

LEMMA DecidedStep ==
  ASSUME TypeOK, [Next]_vars, NEW a \in AuctionIds, Over(a), Digital(a)
  PROVE  StaysDecided(a)
<1>. DEFINE Still == /\ status'[a] = status[a]
                     /\ highest_bidder'[a] = highest_bidder[a]
                     /\ highest_bid'[a] = highest_bid[a]
                     /\ end_time'[a] = end_time[a]
<1>1. Still => StaysDecided(a)
  BY DEF StaysDecided
<1>2. CASE Tick \/ UpdateConfig \/ UNCHANGED vars
  BY <1>2 DEF StaysDecided, Tick, UpdateConfig, vars, leader
<1>3. ASSUME NEW l \in Listings, CreateAuction(l) PROVE StaysDecided(a)
  <2>1. a # auction_count
    <3>1. a < auction_count
      BY DEF TypeOK, Over
    <3>2. a \in Int
      BY BoundsAssumption DEF AuctionIds
    <3>. QED
      BY <3>1, <3>2
  <2>2. Still
    BY <1>3, <2>1 DEF CreateAuction, TypeOK
  <2>. QED
    BY <1>1, <2>2
<1>4. ASSUME NEW x \in AuctionIds,
             \/ AttestPhysicalItem(x) \/ ActivateAuction(x)
             \/ CancelAuction(x) \/ ApproveNftTransfer(x)
      PROVE  StaysDecided(a)
  <2>1. UNCHANGED leader /\ (UNCHANGED status \/ (x # a /\ status'[a] = status[a]))
    BY <1>4 DEF AttestPhysicalItem, Physical, Digital, ActivateAuction,
       ReadyToActivate, CancelAuction, Cancellable, ApproveNftTransfer, Over, TypeOK
  <2>. QED
    BY <1>1, <2>1 DEF leader
<1>5. ASSUME NEW x \in AuctionIds, CloseAuction(x) PROVE StaysDecided(a)
  <2>1. x # a
    BY <1>5 DEF CloseAuction, Over
  <2>2. Still
    BY <1>5, <2>1 DEF CloseAuction, FinalizeSealedAuction, TypeOK
  <2>. QED
    BY <1>1, <2>2
<1>6. ASSUME NEW x \in AuctionIds, SettleAuction(x) PROVE StaysDecided(a)
  BY <1>6 DEF SettleAuction, StaysDecided, leader, TypeOK
<1>7. ASSUME NEW x \in AuctionIds, NEW b \in Bidders,
             RefundUnrevealed(x, b) \/ WithdrawRefund(x, b)
      PROVE  StaysDecided(a)
  BY <1>7 DEF RefundUnrevealed, WithdrawRefund, StaysDecided, leader
<1>8. ASSUME NEW x \in AuctionIds, NEW b \in Bidders, NEW amount \in Amounts,
             NEW sealed_amount \in Amounts,
             CommitBid(x, b, amount, sealed_amount) \/ RevealBid(x, b, amount)
      PROVE  StaysDecided(a)
  BY <1>8 DEF CommitBid, RevealBid, StaysDecided, leader
<1>9. ASSUME NEW x \in AuctionIds, NEW b \in Bidders, NEW amount \in Amounts,
             PlaceBid(x, b, amount)
      PROVE  StaysDecided(a)
  <2>1. x # a
    BY <1>9 DEF PlaceBid, Over
  <2>2. Still
    BY <1>9, <2>1 DEF PlaceBid, TypeOK
  <2>. QED
    BY <1>1, <2>2
<1>10. ASSUME NEW x \in AuctionIds, NEW b \in Bidders,
              NEW max_price \in Amounts \cup {None}, BuyNow(x, b, max_price)
       PROVE  StaysDecided(a)
  <2>1. x # a
    BY <1>10 DEF BuyNow, Over
  <2>2. Still
    BY <1>10, <2>1 DEF BuyNow, TypeOK
  <2>. QED
    BY <1>1, <2>2
<1>. QED
  BY <1>2, <1>3, <1>4, <1>5, <1>6, <1>7, <1>8, <1>9, <1>10 DEF Next

(* The outcome of a digital auction is final: after the hammer its winner,
   price and deadline never change, and the only later step is settlement. *)
THEOREM OutcomeIsFinalHolds == Spec => OutcomeIsFinal
<1>1. TypeOK /\ [Next]_vars =>
        [\A a \in AuctionIds :
           Over(a) /\ Digital(a) =>
             /\ \/ status'[a] = status[a]
                \/ status[a] = "Ended" /\ status'[a] = "Settled"
             /\ highest_bidder'[a] = highest_bidder[a]
             /\ highest_bid'[a] = highest_bid[a]
             /\ end_time'[a] = end_time[a]]_vars
  BY DecidedStep DEF StaysDecided
<1>. QED
  BY <1>1, TypeCorrect, PTL DEF Spec, OutcomeIsFinal

-----------------------------------------------------------------------------
(***************************************************************************)
(* DepositsAccounted is not inductive.  That an outbid leader's refund     *)
(* does not saturate needs the bound on deposits; that finalization moves  *)
(* the deposits it decides, and no others, needs to know that a reveal has *)
(* the amount of its commitment, that the commitment is still there, and   *)
(* that no reveal can come after; and that a purchase or a finalization    *)
(* overwrites no earlier leader needs FormatBook.                          *)
(***************************************************************************)
(* Before an auction exists nothing is booked under its id. *)
Untouched(a) ==
  /\ highest_bidder[a] = None /\ revealed_bids[a] = <<>>
  /\ \A b \in Bidders :
       commitments[a][b] = None /\ refunds[a][b] = 0 /\ deposited[a][b] = 0

(* Only sealed auctions have commitments and reveals, and Dutch and sealed ones
   get a leader only with the step that ends them; a sealed auction is decided
   only when nobody can reveal any more. *)
FormatBook(a) ==
  /\ listing[a].format # "SealedBid" =>
       revealed_bids[a] = <<>> /\ \A b \in Bidders : commitments[a][b] = None
  /\ listing[a].format # "English" /\ highest_bidder[a] # None =>
       status[a] \in {"Ended", "Settled"}
  /\ listing[a].format = "SealedBid" /\ status[a] \in {"Ended", "Settled"} =>
       now >= listing[a].reveal_deadline

(* A commitment hides the amount escrowed, and outlives its reveal, which has
   that amount. *)
RevealBook(a) ==
  /\ \A b \in Bidders :
       commitments[a][b] # None =>
         commitments[a][b].commitment[1] = commitments[a][b].amount
  /\ \A i \in DOMAIN revealed_bids[a] :
       LET b == revealed_bids[a][i].bidder
       IN  /\ commitments[a][b] # None
           /\ revealed_bids[a][i].amount = commitments[a][b].amount

Account(a, b) ==
  /\ deposited[a][b] <= I128_MAX
  /\ deposited[a][b] = refunds[a][b] + SealedStake(a, b) + WinningStake(a, b)

Books(a) ==
  /\ status[a] = "Absent" => Untouched(a)
  /\ status[a] # "Absent" /\ Digital(a) =>
       /\ FormatBook(a)
       /\ RevealBook(a)
       /\ \A b \in Bidders : Account(a, b)

AccountingInv == \A a \in AuctionIds : Books(a)

-----------------------------------------------------------------------------
(* The part of auction a's state its books are about. *)
SameBids(a) ==
  /\ listing'[a] = listing[a] /\ highest_bidder'[a] = highest_bidder[a]
  /\ highest_bid'[a] = highest_bid[a] /\ revealed_bids'[a] = revealed_bids[a]
  /\ commitments'[a] = commitments[a] /\ refunds'[a] = refunds[a]
  /\ deposited'[a] = deposited[a]

LEMMA UntouchedBooks ==
  ASSUME TypeOK, TypeOK', NEW a \in AuctionIds, Books(a),
         SameBids(a), status'[a] = status[a], now' >= now
  PROVE  Books(a)'
<1>1. status[a] = "Absent" => Untouched(a)'
  BY DEF Books, Untouched, SameBids
<1>. SUFFICES ASSUME status[a] # "Absent", Digital(a)
              PROVE  FormatBook(a)' /\ RevealBook(a)'
                     /\ \A b \in Bidders : Account(a, b)'
  BY <1>1 DEF Books, Digital, SameBids
<1>2. FormatBook(a) /\ RevealBook(a) /\ \A b \in Bidders : Account(a, b)
  BY DEF Books
<1>3. FormatBook(a)'
  <2>1. now \in Nat /\ now' \in Nat /\ listing[a].reveal_deadline \in Nat
    BY ListingFields DEF TypeOK, IsListing
  <2>. QED
    BY <1>2, <2>1 DEF FormatBook, SameBids
<1>4. RevealBook(a)'
  BY <1>2 DEF RevealBook, SameBids
<1>5. ASSUME NEW b \in Bidders PROVE Account(a, b)'
  BY <1>2 DEF Account, SealedStake, WinningStake, HasRevealed, SameBids
<1>. QED
  BY <1>3, <1>4, <1>5

(* Moving the status alone keeps the books, if the auction is not thereby
   decided or reopened - for an English one, whose stakes are in the leading
   bid, deciding it changes nothing either. *)
LEMMA StatusMove ==
  ASSUME TypeOK, TypeOK', NEW a \in AuctionIds, Books(a), SameBids(a), now' = now,
         status[a] # "Absent", status'[a] # "Absent",
         \/ listing[a].format = "English"
         \/ status[a] \in {"Ended", "Settled"} <=> status'[a] \in {"Ended", "Settled"}
  PROVE  Books(a)'
<1>. SUFFICES ASSUME Digital(a)
              PROVE  FormatBook(a)' /\ RevealBook(a)'
                     /\ \A b \in Bidders : Account(a, b)'
  BY DEF Books, Digital, SameBids
<1>1. FormatBook(a) /\ RevealBook(a) /\ \A b \in Bidders : Account(a, b)
  BY DEF Books
<1>2. FormatBook(a)'
  BY <1>1 DEF FormatBook, SameBids
<1>3. RevealBook(a)'
  BY <1>1 DEF RevealBook, SameBids
<1>4. ASSUME NEW b \in Bidders PROVE Account(a, b)'
  <2>1. SealedStake(a, b)' = SealedStake(a, b)
    BY <1>1 DEF FormatBook, SealedStake, HasRevealed, SameBids
  <2>. QED
    BY <1>1, <2>1 DEF Account, WinningStake, SameBids
<1>. QED
  BY <1>2, <1>3, <1>4

(* The books a transfer touches are those of its auction and bidder. *)
LEMMA LockBidEffect ==
  ASSUME TypeOK, NEW a \in AuctionIds, NEW c \in Bidders, NEW x \in Nat,
         LockBid(a, c, x), NEW b \in Bidders
  PROVE  /\ deposited'[a][b] = IF b = c THEN deposited[a][b] + x ELSE deposited[a][b]
         /\ deposited[a][b] \in Int
         /\ b = c => deposited[a][b] + x <= I128_MAX
<1>1. deposited \in [AuctionIds -> [Bidders -> Int]]
  BY DEF TypeOK
<1>2. /\ deposited' = [deposited EXCEPT ![a][c] = @ + x]
      /\ deposited[a][c] + x <= I128_MAX
  BY DEF LockBid
<1>. QED
  BY <1>1, <1>2

LEMMA OutbidEffect ==
  ASSUME TypeOK, NEW a \in AuctionIds, refunds' = OutbidRefunds(a),
         NEW b \in Bidders
  PROVE  refunds'[a][b] = IF highest_bidder[a] = b
                            THEN SatAdd(refunds[a][b], highest_bid[a])
                            ELSE refunds[a][b]
<1>1. refunds \in [AuctionIds -> [Bidders -> Nat]]
  BY DEF TypeOK
<1>2. CASE highest_bidder[a] = None
  BY <1>2, NoneAssumption DEF OutbidRefunds
<1>3. CASE highest_bidder[a] # None
  <2>1. highest_bidder[a] \in Bidders
    BY <1>3 DEF TypeOK
  <2>2. refunds' = [refunds EXCEPT ![a][highest_bidder[a]] =
                      SatAdd(@, highest_bid[a])]
    BY <1>3 DEF OutbidRefunds
  <2>. QED
    BY <1>1, <2>1, <2>2
<1>. QED
  BY <1>2, <1>3

-----------------------------------------------------------------------------
(* One lemma per call, about the auction it is for. *)

LEMMA BooksCreate ==
  ASSUME TypeOK, TypeOK', NEW l \in Listings, CreateAuction(l),
         NEW a \in AuctionIds, a = auction_count, Books(a)
  PROVE  Books(a)'
<1>1. status[a] = "Absent"
  BY BoundsAssumption DEF TypeOK, AuctionIds
<1>2. status'[a] = "Created"
      /\ UNCHANGED <<highest_bidder, highest_bid, sealed, money>>
  BY DEF CreateAuction, TypeOK
<1>3. Untouched(a)
  BY <1>1 DEF Books
<1>4. /\ highest_bidder'[a] = None /\ revealed_bids'[a] = <<>>
      /\ \A b \in Bidders : commitments'[a][b] = None /\ refunds'[a][b] = 0
                            /\ deposited'[a][b] = 0
  BY <1>2, <1>3 DEF Untouched, sealed, money
<1>5. FormatBook(a)' /\ RevealBook(a)'
  BY <1>2, <1>4 DEF FormatBook, RevealBook
<1>6. ASSUME NEW b \in Bidders PROVE Account(a, b)'
  <2>1. SealedStake(a, b)' = 0 /\ WinningStake(a, b)' = 0
    BY <1>4, NoneAssumption DEF SealedStake, WinningStake
  <2>. QED
    BY <1>4, <2>1, I128Assumption DEF Account
<1>. QED
  BY <1>2, <1>5, <1>6 DEF Books

(* An English bid adds to the bidder's deposit what becomes its winning stake,
   and turns the former leader's winning stake into a refund; the two may be
   the same bidder. *)
LEMMA BooksPlaceBid ==
  ASSUME TypeOK, TypeOK', NEW a \in AuctionIds, NEW c \in Bidders,
         NEW amount \in Amounts, PlaceBid(a, c, amount), Books(a)
  PROVE  Books(a)'
<1>1. /\ status[a] = "Active" /\ listing[a].format = "English"
      /\ LockBid(a, c, amount) /\ refunds' = OutbidRefunds(a)
      /\ highest_bidder' = [highest_bidder EXCEPT ![a] = c]
      /\ highest_bid' = [highest_bid EXCEPT ![a] = amount]
      /\ UNCHANGED <<now, listing, status, sealed>>
  BY DEF PlaceBid, platform, lifecycle
<1>. SUFFICES ASSUME Digital(a)
              PROVE  FormatBook(a)' /\ RevealBook(a)'
                     /\ \A b \in Bidders : Account(a, b)'
  BY <1>1 DEF Books, Digital
<1>2. FormatBook(a) /\ RevealBook(a) /\ \A b \in Bidders : Account(a, b)
  BY <1>1 DEF Books
<1>3. FormatBook(a)' /\ RevealBook(a)'
  BY <1>1, <1>2 DEF FormatBook, RevealBook, sealed
<1>4. ASSUME NEW b \in Bidders PROVE Account(a, b)'
  <2>1. /\ deposited[a][b] \in Int /\ refunds[a][b] \in Nat
        /\ highest_bid[a] \in Nat /\ amount \in Nat /\ I128_MAX \in Nat
    BY AmountsAreNat, I128Assumption DEF TypeOK
  <2>2. SealedStake(a, b) = 0 /\ SealedStake(a, b)' = 0
    BY <1>1, <1>2 DEF FormatBook, SealedStake, sealed
  <2>3. deposited'[a][b] = IF b = c THEN deposited[a][b] + amount
                                    ELSE deposited[a][b]
    BY <1>1, <2>1, LockBidEffect
  <2>4. WinningStake(a, b)' = IF b = c THEN amount ELSE 0
    BY <1>1 DEF WinningStake, TypeOK
  <2>5. deposited[a][b] = refunds[a][b] + WinningStake(a, b)
        /\ deposited[a][b] <= I128_MAX
    BY <1>2, <2>1, <2>2 DEF Account, WinningStake
  <2>6. refunds'[a][b] = refunds[a][b] + WinningStake(a, b)
    <3>1. CASE highest_bidder[a] # b
      BY <1>1, <2>1, <3>1, OutbidEffect DEF WinningStake
    <3>2. CASE highest_bidder[a] = b
      <4>1. refunds'[a][b] = SatAdd(refunds[a][b], highest_bid[a])
        BY <1>1, <3>2, OutbidEffect
      <4>. QED
        BY <2>1, <2>5, <3>2, <4>1 DEF SatAdd, Lesser, WinningStake
    <3>. QED
      BY <3>1, <3>2
  <2>7. b = c => deposited[a][b] + amount <= I128_MAX
    BY <1>1 DEF LockBid
  <2>8. WinningStake(a, b) \in Nat
    BY <2>1 DEF WinningStake
  <2>. QED
    BY <2>1, <2>2, <2>3, <2>4, <2>5, <2>6, <2>7, <2>8 DEF Account
<1>. QED
  BY <1>3, <1>4

(* A purchase finds no leader to overwrite. *)
LEMMA BooksBuyNow ==
  ASSUME TypeOK, TypeOK', NEW a \in AuctionIds, NEW c \in Bidders,
         NEW max_price \in Amounts \cup {None}, BuyNow(a, c, max_price), Books(a)
  PROVE  Books(a)'
<1>. DEFINE price == DutchPriceAt(a, now)
<1>1. /\ status[a] = "Active" /\ listing[a].format = "Dutch"
      /\ LockBid(a, c, price) /\ UNCHANGED refunds
      /\ highest_bidder' = [highest_bidder EXCEPT ![a] = c]
      /\ highest_bid' = [highest_bid EXCEPT ![a] = price]
      /\ status' = [status EXCEPT ![a] = "Ended"]
      /\ UNCHANGED <<now, listing, sealed>>
  BY DEF BuyNow, platform, lifecycle
<1>2. price \in Nat
  BY <1>1, DutchPriceType DEF LockBid
<1>. HIDE DEF price
<1>3. status'[a] = "Ended"
  BY <1>1 DEF TypeOK
<1>. SUFFICES ASSUME Digital(a)
              PROVE  FormatBook(a)' /\ RevealBook(a)'
                     /\ \A b \in Bidders : Account(a, b)'
  BY <1>1, <1>3 DEF Books, Digital
<1>4. FormatBook(a) /\ RevealBook(a) /\ \A b \in Bidders : Account(a, b)
  BY <1>1 DEF Books
<1>5. FormatBook(a)' /\ RevealBook(a)'
  BY <1>1, <1>3, <1>4 DEF FormatBook, RevealBook, sealed
<1>6. ASSUME NEW b \in Bidders PROVE Account(a, b)'
  <2>1. deposited[a][b] \in Int /\ refunds[a][b] \in Nat /\ I128_MAX \in Nat
    BY I128Assumption DEF TypeOK
  <2>2. SealedStake(a, b) = 0 /\ SealedStake(a, b)' = 0
    BY <1>1, <1>4 DEF FormatBook, SealedStake, sealed
  <2>3. deposited'[a][b] = IF b = c THEN deposited[a][b] + price
                                    ELSE deposited[a][b]
    BY <1>1, <1>2, LockBidEffect
  <2>4. WinningStake(a, b)' = IF b = c THEN price ELSE 0
    BY <1>1 DEF WinningStake, TypeOK
  <2>5. WinningStake(a, b) = 0
    BY <1>1, <1>4, NoneAssumption DEF FormatBook, WinningStake
  <2>6. b = c => deposited[a][b] + price <= I128_MAX
    BY <1>1 DEF LockBid
  <2>7. deposited[a][b] = refunds[a][b] /\ deposited[a][b] <= I128_MAX
    BY <1>4, <2>1, <2>2, <2>5 DEF Account
  <2>. QED
    BY <1>1, <1>2, <2>1, <2>2, <2>3, <2>4, <2>6, <2>7 DEF Account
<1>. QED
  BY <1>5, <1>6

(* A commitment's escrow is the sealed stake it becomes. *)
LEMMA BooksCommitBid ==
  ASSUME TypeOK, TypeOK', FaithfulBidders, NEW a \in AuctionIds,
         NEW c \in Bidders, NEW amount \in Amounts,
         CommitBid(a, c, amount, amount), Books(a)
  PROVE  Books(a)'
<1>. DEFINE record == [commitment |-> Commitment(amount, a, c), amount |-> amount]
<1>1. /\ status[a] = "Active" /\ listing[a].format = "SealedBid"
      /\ commitments[a][c] = None
      /\ LockBid(a, c, amount)
      /\ commitments' = [commitments EXCEPT ![a][c] = record]
      /\ UNCHANGED <<now, listing, status, highest_bidder, highest_bid,
                     revealed_bids, refunds>>
  BY DEF CommitBid, platform, lifecycle, leader
<1>2. record.amount = amount /\ record.commitment[1] = amount /\ record # None
  BY NoneAssumption DEF Commitment, CommitmentRecords
<1>. HIDE DEF record
<1>3. ASSUME NEW b \in Bidders
      PROVE  commitments'[a][b] = IF b = c THEN record ELSE commitments[a][b]
  <2>1. commitments \in [AuctionIds -> [Bidders -> CommitmentRecords \cup {None}]]
    BY DEF TypeOK
  <2>. QED
    BY <1>1, <2>1
<1>. SUFFICES ASSUME Digital(a)
              PROVE  FormatBook(a)' /\ RevealBook(a)'
                     /\ \A b \in Bidders : Account(a, b)'
  BY <1>1 DEF Books, Digital
<1>4. FormatBook(a) /\ RevealBook(a) /\ \A b \in Bidders : Account(a, b)
  BY <1>1 DEF Books
<1>5. FormatBook(a)'
  BY <1>1, <1>4 DEF FormatBook
<1>6. RevealBook(a)'
  <2>1. ASSUME NEW i \in DOMAIN revealed_bids[a]
        PROVE  /\ revealed_bids[a][i].bidder \in Bidders \ {c}
               /\ commitments'[a][revealed_bids[a][i].bidder]
                    = commitments[a][revealed_bids[a][i].bidder]
    <3>1. revealed_bids[a] \in Seq(RevealEntries)
      BY DEF TypeOK
    <3>2. revealed_bids[a][i] \in RevealEntries
      BY <3>1
    <3>3. revealed_bids[a][i].bidder \in Bidders
      BY <3>2 DEF RevealEntries
    <3>. QED
      BY <1>1, <1>3, <1>4, <3>3 DEF RevealBook
  <2>. QED
    BY <1>1, <1>2, <1>3, <1>4, <2>1 DEF RevealBook
<1>7. ASSUME NEW b \in Bidders PROVE Account(a, b)'
  <2>1. amount \in Nat
    BY AmountsAreNat
  <2>2. WinningStake(a, b)' = WinningStake(a, b)
        /\ refunds'[a][b] = refunds[a][b]
    BY <1>1 DEF WinningStake
  <2>3. CASE b # c
    <3>1. SealedStake(a, b)' = SealedStake(a, b)
      BY <1>1, <1>3, <2>3 DEF SealedStake, HasRevealed
    <3>2. deposited'[a][b] = deposited[a][b]
      BY <1>1, <2>1, <2>3, LockBidEffect
    <3>. QED
      BY <1>4, <2>2, <3>1, <3>2 DEF Account
  <2>4. CASE b = c
    <3>1. SealedStake(a, b) = 0 /\ SealedStake(a, b)' = amount
      BY <1>1, <1>2, <1>3, <2>4 DEF SealedStake
    <3>2. /\ deposited'[a][b] = deposited[a][b] + amount
          /\ deposited[a][b] + amount <= I128_MAX
          /\ deposited[a][b] \in Int
      BY <1>1, <2>1, <2>4, LockBidEffect
    <3>3. refunds[a][b] \in Nat /\ WinningStake(a, b) \in Nat
      BY DEF TypeOK, WinningStake
    <3>4. deposited[a][b] = refunds[a][b] + SealedStake(a, b) + WinningStake(a, b)
      BY <1>4 DEF Account
    <3>. QED
      BY <2>1, <2>2, <3>1, <3>2, <3>3, <3>4 DEF Account
  <2>. QED
    BY <2>3, <2>4
<1>. QED
  BY <1>1, <1>5, <1>6, <1>7 DEF Books, Digital

(* A reveal has the amount of its commitment; before the auction is decided it
   moves no stake, and after that it cannot happen. *)
LEMMA BooksRevealBid ==
  ASSUME TypeOK, TypeOK', NEW a \in AuctionIds,
         NEW c \in Bidders, NEW amount \in Amounts, RevealBid(a, c, amount),
         Books(a)
  PROVE  Books(a)'
<1>. DEFINE entry == [bidder |-> c, amount |-> amount]
<1>1. /\ status[a] # "Absent" /\ listing[a].format = "SealedBid"
      /\ now < listing[a].reveal_deadline
      /\ commitments[a][c] # None
      /\ Commitment(amount, a, c) = commitments[a][c].commitment
      /\ revealed_bids' = [revealed_bids EXCEPT ![a] = Append(@, entry)]
      /\ UNCHANGED <<now, listing, status, highest_bidder, highest_bid,
                     commitments, refunds, deposited>>
  BY DEF RevealBid, platform, lifecycle, leader, money
<1>. SUFFICES ASSUME Digital(a)
              PROVE  FormatBook(a)' /\ RevealBook(a)'
                     /\ \A b \in Bidders : Account(a, b)'
  BY <1>1 DEF Books, Digital
<1>2. FormatBook(a) /\ RevealBook(a) /\ \A b \in Bidders : Account(a, b)
  BY <1>1 DEF Books
<1>3. FormatBook(a)'
  BY <1>1, <1>2 DEF FormatBook
<1>4. amount = commitments[a][c].amount
  BY <1>1, <1>2 DEF RevealBook, Commitment
<1>5. revealed_bids[a] \in Seq(RevealEntries) /\ entry \in RevealEntries
      /\ revealed_bids'[a] = Append(revealed_bids[a], entry)
  BY <1>1 DEF TypeOK, RevealEntries
<1>6. ASSUME NEW i \in DOMAIN revealed_bids'[a]
      PROVE  \/ i \in DOMAIN revealed_bids[a]
                /\ revealed_bids'[a][i] = revealed_bids[a][i]
             \/ revealed_bids'[a][i] = entry
  BY <1>5
<1>7. RevealBook(a)'
  <2>1. \A b \in Bidders :
          commitments'[a][b] # None =>
            commitments'[a][b].commitment[1] = commitments'[a][b].amount
    BY <1>1, <1>2 DEF RevealBook
  <2>2. ASSUME NEW i \in DOMAIN revealed_bids'[a]
        PROVE  LET b == revealed_bids'[a][i].bidder
               IN  /\ commitments'[a][b] # None
                   /\ revealed_bids'[a][i].amount = commitments'[a][b].amount
    BY <1>1, <1>2, <1>4, <1>6 DEF RevealBook
  <2>. QED
    BY <2>1, <2>2 DEF RevealBook
<1>8. ASSUME NEW b \in Bidders PROVE Account(a, b)'
  <2>1. status[a] \notin {"Ended", "Settled"}
    <3>1. now \in Nat /\ listing[a].reveal_deadline \in Nat
      BY <1>1, ListingFields DEF TypeOK, IsListing
    <3>. QED
      BY <1>1, <1>2, <3>1 DEF FormatBook
  <2>2. SealedStake(a, b)' = SealedStake(a, b)
    BY <1>1, <2>1 DEF SealedStake
  <2>. QED
    BY <1>1, <1>2, <2>2 DEF Account, WinningStake
<1>. QED
  BY <1>3, <1>7, <1>8

(* Taking an unrevealed deposit back ends its sealed stake. *)
LEMMA BooksRefundUnrevealed ==
  ASSUME TypeOK, TypeOK', NEW a \in AuctionIds, NEW c \in Bidders,
         RefundUnrevealed(a, c), Books(a)
  PROVE  Books(a)'
<1>. DEFINE stake == commitments[a][c].amount
<1>1. /\ status[a] # "Absent" /\ listing[a].format = "SealedBid"
      /\ commitments[a][c] # None /\ ~HasRevealed(a, c)
      /\ RefundBid(a, c, stake)
      /\ commitments' = [commitments EXCEPT ![a][c] = None]
      /\ UNCHANGED <<now, listing, status, highest_bidder, highest_bid,
                     revealed_bids, refunds>>
  BY DEF RefundUnrevealed, MayTakeBack, platform, lifecycle, leader
<1>2. commitments[a] \in [Bidders -> CommitmentRecords \cup {None}]
  BY DEF TypeOK
<1>3. stake \in Nat
  BY <1>1, <1>2, AmountsAreNat DEF CommitmentRecords
<1>. HIDE DEF stake
<1>4. ASSUME NEW b \in Bidders
      PROVE  commitments'[a][b] = IF b = c THEN None ELSE commitments[a][b]
  <2>1. commitments \in [AuctionIds -> [Bidders -> CommitmentRecords \cup {None}]]
    BY DEF TypeOK
  <2>. QED
    BY <1>1, <2>1
<1>5. ASSUME NEW b \in Bidders
      PROVE  deposited'[a][b] = IF b = c THEN deposited[a][b] - stake
                                         ELSE deposited[a][b]
  <2>1. deposited \in [AuctionIds -> [Bidders -> Int]]
    BY DEF TypeOK
  <2>2. deposited' = [deposited EXCEPT ![a][c] = @ - stake]
    BY <1>1 DEF RefundBid
  <2>. QED
    BY <2>1, <2>2
<1>. SUFFICES ASSUME Digital(a)
              PROVE  FormatBook(a)' /\ RevealBook(a)'
                     /\ \A b \in Bidders : Account(a, b)'
  BY <1>1 DEF Books, Digital
<1>6. FormatBook(a) /\ RevealBook(a) /\ \A b \in Bidders : Account(a, b)
  BY <1>1 DEF Books
<1>7. FormatBook(a)'
  BY <1>1, <1>6 DEF FormatBook
<1>8. RevealBook(a)'
  <2>1. ASSUME NEW i \in DOMAIN revealed_bids[a]
        PROVE  commitments'[a][revealed_bids[a][i].bidder]
                 = commitments[a][revealed_bids[a][i].bidder]
    <3>1. revealed_bids[a] \in Seq(RevealEntries)
      BY DEF TypeOK
    <3>2. revealed_bids[a][i] \in RevealEntries
      BY <3>1
    <3>3. revealed_bids[a][i].bidder \in Bidders
      BY <3>2 DEF RevealEntries
    <3>4. revealed_bids[a][i].bidder # c
      BY <1>1 DEF HasRevealed
    <3>. QED
      BY <1>4, <3>3, <3>4
  <2>. QED
    BY <1>1, <1>4, <1>6, <2>1 DEF RevealBook
<1>9. ASSUME NEW b \in Bidders PROVE Account(a, b)'
  <2>1. WinningStake(a, b)' = WinningStake(a, b) /\ refunds'[a][b] = refunds[a][b]
    BY <1>1 DEF WinningStake
  <2>2. CASE b # c
    <3>1. SealedStake(a, b)' = SealedStake(a, b)
      BY <1>1, <1>4, <2>2 DEF SealedStake, HasRevealed
    <3>. QED
      BY <1>5, <1>6, <2>1, <2>2, <3>1 DEF Account
  <2>3. CASE b = c
    <3>1. SealedStake(a, b)' = 0 /\ SealedStake(a, b) = stake
      BY <1>1, <1>4, <2>3 DEF SealedStake, stake
    <3>2. /\ refunds[a][b] \in Nat /\ WinningStake(a, b) \in Nat
          /\ deposited[a][b] \in Int /\ I128_MAX \in Nat
      BY I128Assumption DEF TypeOK, WinningStake
    <3>3. /\ deposited[a][b] = refunds[a][b] + SealedStake(a, b) + WinningStake(a, b)
          /\ deposited[a][b] <= I128_MAX
      BY <1>6 DEF Account
    <3>4. deposited'[a][b] = deposited[a][b] - stake
      BY <1>5, <2>3
    <3>. QED
      BY <1>3, <2>1, <3>1, <3>2, <3>3, <3>4 DEF Account
  <2>. QED
    BY <2>2, <2>3
<1>. QED
  BY <1>7, <1>8, <1>9

(* A withdrawal takes the whole refund out of the deposit. *)
LEMMA BooksWithdrawRefund ==
  ASSUME TypeOK, TypeOK', NEW a \in AuctionIds, NEW c \in Bidders,
         WithdrawRefund(a, c), Books(a)
  PROVE  Books(a)'
<1>1. /\ status[a] # "Absent"
      /\ refunds' = [refunds EXCEPT ![a][c] = 0]
      /\ deposited' = [deposited EXCEPT ![a][c] = @ - refunds[a][c]]
      /\ UNCHANGED <<now, listing, status, highest_bidder, highest_bid,
                     revealed_bids, commitments>>
  BY DEF WithdrawRefund, RefundBid, platform, lifecycle, leader, sealed
<1>2. /\ refunds \in [AuctionIds -> [Bidders -> Nat]]
      /\ deposited \in [AuctionIds -> [Bidders -> Int]]
  BY DEF TypeOK
<1>3. ASSUME NEW b \in Bidders
      PROVE  /\ refunds'[a][b] = IF b = c THEN 0 ELSE refunds[a][b]
             /\ deposited'[a][b] = IF b = c THEN deposited[a][b] - refunds[a][b]
                                            ELSE deposited[a][b]
  BY <1>1, <1>2
<1>. SUFFICES ASSUME Digital(a)
              PROVE  FormatBook(a)' /\ RevealBook(a)'
                     /\ \A b \in Bidders : Account(a, b)'
  BY <1>1 DEF Books, Digital
<1>4. FormatBook(a) /\ RevealBook(a) /\ \A b \in Bidders : Account(a, b)
  BY <1>1 DEF Books
<1>5. FormatBook(a)' /\ RevealBook(a)'
  BY <1>1, <1>4 DEF FormatBook, RevealBook
<1>6. ASSUME NEW b \in Bidders PROVE Account(a, b)'
  <2>1. SealedStake(a, b)' = SealedStake(a, b)
        /\ WinningStake(a, b)' = WinningStake(a, b)
    BY <1>1 DEF SealedStake, WinningStake, HasRevealed
  <2>2. SealedStake(a, b) \in Nat /\ WinningStake(a, b) \in Nat
    <3>1. commitments[a][b] \in CommitmentRecords \cup {None}
      BY DEF TypeOK
    <3>2. highest_bid[a] \in Nat
      BY DEF TypeOK
    <3>. QED
      BY <3>1, <3>2, AmountsAreNat DEF SealedStake, WinningStake, CommitmentRecords
  <2>3. /\ refunds[a][b] \in Nat /\ deposited[a][b] \in Int /\ I128_MAX \in Nat
    BY <1>2, I128Assumption
  <2>4. /\ deposited[a][b] = refunds[a][b] + SealedStake(a, b) + WinningStake(a, b)
        /\ deposited[a][b] <= I128_MAX
    BY <1>4 DEF Account
  <2>. QED
    BY <1>3, <2>1, <2>2, <2>3, <2>4 DEF Account
<1>. QED
  BY <1>5, <1>6

-----------------------------------------------------------------------------
(* Deciding a sealed auction. *)

(* What finalization credits a loser is what his commitment escrowed. *)
LEMMA CreditIsCommitment ==
  ASSUME TypeOK, NEW a \in AuctionIds, RevealBook(a), NEW b \in Bidders,
         NEW w \in DOMAIN revealed_bids[a],
         HasRevealed(a, b), b # revealed_bids[a][w].bidder
  PROVE  LosingCredit(a, b, w) = commitments[a][b].amount
<1>. DEFINE i == CHOOSE j \in DOMAIN revealed_bids[a] :
                   revealed_bids[a][j].bidder = b
<1>1. i \in DOMAIN revealed_bids[a] /\ revealed_bids[a][i].bidder = b
  BY DEF HasRevealed
<1>2. LosingCredit(a, b, w) = revealed_bids[a][i].amount
  BY DEF LosingCredit
<1>. HIDE DEF i
<1>. QED
  BY <1>1, <1>2 DEF RevealBook

(* Finalization moves the sealed stake of each bidder who revealed: the
   winner's becomes the winning bid, a loser's a refund. *)
LEMMA BooksFinalize ==
  ASSUME TypeOK, TypeOK', NEW a \in AuctionIds, listing[a].format = "SealedBid",
         FinalizeSealedAuction(a), UNCHANGED <<now, listing, sealed, deposited>>,
         Books(a)
  PROVE  Books(a)'
<1>1. PICK w \in DOMAIN revealed_bids[a] :
        /\ status[a] = "Active"
        /\ now >= listing[a].reveal_deadline
        /\ refunds' = [refunds EXCEPT ![a] =
             [b \in Bidders |-> SatAdd(refunds[a][b], LosingCredit(a, b, w))]]
        /\ highest_bidder' =
             [highest_bidder EXCEPT ![a] = revealed_bids[a][w].bidder]
        /\ highest_bid' = [highest_bid EXCEPT ![a] = revealed_bids[a][w].amount]
        /\ status' = [status EXCEPT ![a] = "Ended"]
  BY DEF FinalizeSealedAuction
<1>2. UNCHANGED <<revealed_bids, commitments>>
  BY DEF sealed
<1>. DEFINE winner == revealed_bids[a][w].bidder
            price  == revealed_bids[a][w].amount
<1>3. /\ status'[a] = "Ended" /\ highest_bidder'[a] = winner
      /\ highest_bid'[a] = price
  BY <1>1 DEF TypeOK
<1>. SUFFICES ASSUME Digital(a)
              PROVE  FormatBook(a)' /\ RevealBook(a)'
                     /\ \A b \in Bidders : Account(a, b)'
  BY <1>3 DEF Books, Digital
<1>4. FormatBook(a) /\ RevealBook(a) /\ \A b \in Bidders : Account(a, b)
  BY <1>1 DEF Books
<1>5. FormatBook(a)'
  BY <1>1, <1>3 DEF FormatBook
<1>6. RevealBook(a)'
  BY <1>2, <1>4 DEF RevealBook
<1>7. winner \in Bidders /\ price \in Nat
  <2>1. revealed_bids[a] \in Seq(RevealEntries)
    BY DEF TypeOK
  <2>2. revealed_bids[a][w] \in RevealEntries
    BY <2>1
  <2>. QED
    BY <2>2, AmountsAreNat DEF RevealEntries
<1>8. ASSUME NEW b \in Bidders PROVE Account(a, b)'
  <2>. DEFINE stake == commitments[a][b].amount
  <2>1. refunds'[a][b] = SatAdd(refunds[a][b], LosingCredit(a, b, w))
    BY <1>1 DEF TypeOK
  <2>2. /\ refunds[a][b] \in Nat /\ deposited[a][b] \in Int /\ I128_MAX \in Nat
    BY I128Assumption DEF TypeOK
  <2>3. WinningStake(a, b) = 0 /\ WinningStake(a, b)' = IF b = winner THEN price ELSE 0
    BY <1>1, <1>3, <1>4, NoneAssumption DEF FormatBook, WinningStake
  <2>4. /\ deposited[a][b] = refunds[a][b] + SealedStake(a, b) + WinningStake(a, b)
        /\ deposited[a][b] <= I128_MAX /\ deposited'[a][b] = deposited[a][b]
    BY <1>4 DEF Account
  <2>5. commitments[a][b] # None => stake \in Nat
    <3>1. commitments[a][b] \in CommitmentRecords \cup {None}
      BY DEF TypeOK
    <3>. QED
      BY <3>1, AmountsAreNat DEF CommitmentRecords
  <2>6. HasRevealed(a, b)' = HasRevealed(a, b)
    BY <1>2 DEF HasRevealed
  <2>7. CASE ~HasRevealed(a, b)
    <3>1. b # winner /\ LosingCredit(a, b, w) = 0
      BY <2>7 DEF HasRevealed, LosingCredit
    <3>2. SealedStake(a, b)' = SealedStake(a, b) /\ SealedStake(a, b) \in Nat
      BY <1>2, <2>5, <2>6, <2>7 DEF SealedStake
    <3>3. refunds'[a][b] = refunds[a][b]
      BY <2>1, <2>2, <2>3, <2>4, <3>1, <3>2 DEF SatAdd, Lesser
    <3>. QED
      BY <2>2, <2>3, <2>4, <3>1, <3>2, <3>3 DEF Account
  <2>8. CASE HasRevealed(a, b)
    <3>1. commitments[a][b] # None
      BY <1>4, <2>8 DEF RevealBook, HasRevealed
    <3>2. SealedStake(a, b) = stake /\ SealedStake(a, b)' = 0 /\ stake \in Nat
      BY <1>1, <1>3, <2>5, <2>6, <2>8, <3>1 DEF SealedStake
    <3>3. CASE b = winner
      <4>1. LosingCredit(a, b, w) = 0 /\ price = stake
        BY <1>4, <3>3 DEF LosingCredit, RevealBook
      <4>2. refunds'[a][b] = refunds[a][b]
        BY <2>1, <2>2, <2>3, <2>4, <3>2, <4>1 DEF SatAdd, Lesser
      <4>. QED
        BY <2>2, <2>3, <2>4, <3>2, <3>3, <4>1, <4>2 DEF Account
    <3>4. CASE b # winner
      <4>1. LosingCredit(a, b, w) = stake
        BY <1>4, <2>8, <3>4, CreditIsCommitment
      <4>2. refunds'[a][b] = refunds[a][b] + stake
        BY <2>1, <2>2, <2>3, <2>4, <3>2, <4>1 DEF SatAdd, Lesser
      <4>. QED
        BY <2>2, <2>3, <2>4, <3>2, <3>4, <4>2 DEF Account
    <3>. QED
      BY <3>3, <3>4
  <2>. QED
    BY <2>7, <2>8
<1>. QED
  BY <1>5, <1>6, <1>8

LEMMA BooksClose ==
  ASSUME TypeOK, TypeOK', NEW a \in AuctionIds, CloseAuction(a), Books(a)
  PROVE  Books(a)'
<1>1. /\ status[a] \in {"Created", "Active"}
      /\ UNCHANGED <<now, listing, sealed, deposited>>
  BY DEF CloseAuction, platform, lifecycle
<1>2. CASE listing[a].format = "SealedBid" /\ FinalizeSealedAuction(a)
  BY <1>1, <1>2, BooksFinalize
<1>3. CASE listing[a].format = "English"
           /\ status' = [status EXCEPT ![a] =
                IF highest_bidder[a] # None THEN "Ended" ELSE "Cancelled"]
           /\ UNCHANGED <<highest_bidder, highest_bid, refunds>>
  <2>1. status'[a] # "Absent"
    BY <1>3 DEF TypeOK
  <2>2. SameBids(a)
    BY <1>1, <1>3 DEF SameBids, sealed
  <2>. QED
    BY <1>1, <1>3, <2>1, <2>2, StatusMove
<1>4. CASE status' = [status EXCEPT ![a] = "Cancelled"]
           /\ UNCHANGED <<highest_bidder, highest_bid, refunds>>
  <2>1. status'[a] = "Cancelled"
    BY <1>4 DEF TypeOK
  <2>2. SameBids(a)
    BY <1>1, <1>4 DEF SameBids, sealed
  <2>. QED
    BY <1>1, <2>1, <2>2, StatusMove
<1>. QED
  BY <1>2, <1>3, <1>4 DEF CloseAuction

(* The calls that move no bids of any auction. *)
LEMMA BooksStatusOnly ==
  ASSUME TypeOK, TypeOK', NEW x \in AuctionIds,
         \/ AttestPhysicalItem(x) \/ ActivateAuction(x) \/ CancelAuction(x)
         \/ ApproveNftTransfer(x) \/ SettleAuction(x),
         NEW a \in AuctionIds, Books(a)
  PROVE  Books(a)'
<1>1. SameBids(a) /\ now' = now
  BY DEF AttestPhysicalItem, ActivateAuction, CancelAuction, ApproveNftTransfer,
     SettleAuction, SameBids, platform, lifecycle, leader, sealed, money
<1>2. CASE status'[a] = status[a]
  <2>1. now \in Nat
    BY DEF TypeOK
  <2>. QED
    BY <1>1, <1>2, <2>1, UntouchedBooks
<1>3. CASE AttestPhysicalItem(x) /\ status'[a] # status[a]
  <2>1. a = x /\ ~Digital(a) /\ status'[a] = "Active"
    BY <1>3 DEF AttestPhysicalItem, Physical, Digital, TypeOK
  <2>. QED
    BY <1>1, <2>1 DEF Books, Digital, SameBids
<1>4. CASE ActivateAuction(x) /\ status'[a] # status[a]
  <2>1. a = x /\ status[a] = "Created" /\ status'[a] = "Active"
    BY <1>4 DEF ActivateAuction, ReadyToActivate, TypeOK
  <2>. QED
    BY <1>1, <2>1, StatusMove
<1>5. CASE CancelAuction(x) /\ status'[a] # status[a]
  <2>1. a = x /\ status[a] \in {"Created", "Active"} /\ status'[a] = "Cancelled"
    BY <1>5 DEF CancelAuction, Cancellable, TypeOK
  <2>. QED
    BY <1>1, <2>1, StatusMove
<1>6. CASE SettleAuction(x) /\ status'[a] # status[a]
  <2>1. a = x /\ status[a] = "Ended" /\ status'[a] = "Settled"
    BY <1>6 DEF SettleAuction, TypeOK
  <2>. QED
    BY <1>1, <2>1, StatusMove
<1>7. ApproveNftTransfer(x) => status' = status
  BY DEF ApproveNftTransfer
<1>. QED
  BY <1>2, <1>3, <1>4, <1>5, <1>6, <1>7

LEMMA AccountingStep ==
  ASSUME FaithfulBidders, TypeOK, TypeOK', AccountingInv, [Next]_vars
  PROVE  AccountingInv'
<1>. SUFFICES ASSUME NEW a \in AuctionIds PROVE Books(a)'
  BY DEF AccountingInv
<1>1. Books(a) /\ now \in Nat /\ now' \in Nat
  BY DEF AccountingInv, TypeOK
<1>2. CASE Tick \/ UpdateConfig \/ UNCHANGED vars
  <2>1. SameBids(a) /\ status'[a] = status[a] /\ now' >= now
    BY <1>1, <1>2 DEF Tick, UpdateConfig, vars, SameBids, platform, lifecycle,
       leader, sealed, money
  <2>. QED
    BY <1>1, <2>1, UntouchedBooks
<1>3. ASSUME NEW l \in Listings, CreateAuction(l) PROVE Books(a)'
  <2>1. CASE a = auction_count
    BY <1>1, <1>3, <2>1, BooksCreate
  <2>2. CASE a # auction_count
    <3>1. SameBids(a) /\ status'[a] = status[a] /\ now' = now
      BY <1>3, <2>2 DEF CreateAuction, SameBids, platform, sealed, money, TypeOK
    <3>. QED
      BY <1>1, <3>1, UntouchedBooks
  <2>. QED
    BY <2>1, <2>2
<1>4. ASSUME NEW x \in AuctionIds,
             \/ AttestPhysicalItem(x) \/ ActivateAuction(x) \/ CancelAuction(x)
             \/ ApproveNftTransfer(x) \/ SettleAuction(x)
      PROVE  Books(a)'
  BY <1>1, <1>4, BooksStatusOnly
<1>5. ASSUME NEW x \in AuctionIds, CloseAuction(x) PROVE Books(a)'
  <2>1. CASE a # x
    <3>1. /\ highest_bidder'[a] = highest_bidder[a]
          /\ highest_bid'[a] = highest_bid[a] /\ refunds'[a] = refunds[a]
          /\ status'[a] = status[a]
      BY <1>5, <2>1 DEF CloseAuction, FinalizeSealedAuction, TypeOK
    <3>2. UNCHANGED <<now, listing, sealed, deposited>>
      BY <1>5 DEF CloseAuction, platform, lifecycle
    <3>3. SameBids(a) /\ status'[a] = status[a] /\ now' = now
      BY <3>1, <3>2 DEF SameBids, sealed
    <3>. QED
      BY <1>1, <3>3, UntouchedBooks
  <2>. QED
    BY <1>1, <1>5, <2>1, BooksClose
<1>6. ASSUME NEW x \in AuctionIds, NEW b \in Bidders, RefundUnrevealed(x, b)
      PROVE  Books(a)'
  <2>1. CASE a # x
    <3>1. SameBids(a) /\ status'[a] = status[a] /\ now' = now
      BY <1>6, <2>1
      DEF RefundUnrevealed, RefundBid, SameBids, platform, lifecycle, leader, TypeOK
    <3>. QED
      BY <1>1, <3>1, UntouchedBooks
  <2>. QED
    BY <1>1, <1>6, <2>1, BooksRefundUnrevealed
<1>7. ASSUME NEW x \in AuctionIds, NEW b \in Bidders, WithdrawRefund(x, b)
      PROVE  Books(a)'
  <2>1. CASE a # x
    <3>1. SameBids(a) /\ status'[a] = status[a] /\ now' = now
      BY <1>7, <2>1
      DEF WithdrawRefund, RefundBid, SameBids, platform, lifecycle, leader,
          sealed, TypeOK
    <3>. QED
      BY <1>1, <3>1, UntouchedBooks
  <2>. QED
    BY <1>1, <1>7, <2>1, BooksWithdrawRefund
<1>8. ASSUME NEW x \in AuctionIds, NEW b \in Bidders, NEW amount \in Amounts,
             PlaceBid(x, b, amount)
      PROVE  Books(a)'
  <2>1. CASE a # x
    <3>1. refunds'[a] = refunds[a]
      BY <1>8, <2>1 DEF PlaceBid, OutbidRefunds, TypeOK
    <3>2. SameBids(a) /\ status'[a] = status[a] /\ now' = now
      BY <1>8, <2>1, <3>1
      DEF PlaceBid, LockBid, SameBids, platform, lifecycle, sealed, TypeOK
    <3>. QED
      BY <1>1, <3>2, UntouchedBooks
  <2>. QED
    BY <1>1, <1>8, <2>1, BooksPlaceBid
<1>9. ASSUME NEW x \in AuctionIds, NEW b \in Bidders, NEW amount \in Amounts,
             RevealBid(x, b, amount)
      PROVE  Books(a)'
  <2>1. CASE a # x
    <3>1. SameBids(a) /\ status'[a] = status[a] /\ now' = now
      BY <1>9, <2>1
      DEF RevealBid, SameBids, platform, lifecycle, leader, money, TypeOK
    <3>. QED
      BY <1>1, <3>1, UntouchedBooks
  <2>. QED
    BY <1>1, <1>9, <2>1, BooksRevealBid
<1>10. ASSUME NEW x \in AuctionIds, NEW b \in Bidders, NEW amount \in Amounts,
              CommitBid(x, b, amount, amount)
       PROVE  Books(a)'
  <2>1. CASE a # x
    <3>1. SameBids(a) /\ status'[a] = status[a] /\ now' = now
      BY <1>10, <2>1
      DEF CommitBid, LockBid, SameBids, platform, lifecycle, leader, TypeOK
    <3>. QED
      BY <1>1, <3>1, UntouchedBooks
  <2>. QED
    BY <1>1, <1>10, <2>1, BooksCommitBid
<1>11. ASSUME NEW x \in AuctionIds, NEW b \in Bidders,
              NEW max_price \in Amounts \cup {None}, BuyNow(x, b, max_price)
       PROVE  Books(a)'
  <2>1. CASE a # x
    <3>1. SameBids(a) /\ status'[a] = status[a] /\ now' = now
      BY <1>11, <2>1
      DEF BuyNow, LockBid, SameBids, platform, lifecycle, sealed, TypeOK
    <3>. QED
      BY <1>1, <3>1, UntouchedBooks
  <2>. QED
    BY <1>1, <1>11, <2>1, BooksBuyNow
<1>. QED
  BY <1>2, <1>3, <1>4, <1>5, <1>6, <1>7, <1>8, <1>9, <1>10, <1>11 DEF Next

LEMMA AccountingInit == Init => AccountingInv
BY DEF Init, AccountingInv, Books, Untouched

(* Every unit a bidder paid into an auction of a digital item and did not get
   back is a refund he may withdraw, his sealed deposit, or the bid he leads or
   won with, whatever the calls, their order and the number of auctions. *)
THEOREM DepositsAccountedHolds == Spec => []DepositsAccounted
<1>1. CASE ~FaithfulBidders
  <2>1. DepositsAccounted
    BY <1>1 DEF DepositsAccounted
  <2>. QED
    BY <2>1, PTL
<1>2. CASE FaithfulBidders
  <2>1. TypeOK /\ TypeOK' /\ AccountingInv /\ [Next]_vars => AccountingInv'
    BY <1>2, AccountingStep
  <2>2. AccountingInv => DepositsAccounted
    BY DEF AccountingInv, Books, Account, DepositsAccounted
  <2>. QED
    BY <2>1, <2>2, AccountingInit, TypeCorrect, PTL DEF Spec
<1>. QED
  BY <1>1, <1>2

-----------------------------------------------------------------------------
(* Settlement.  That the three shares add up to the bid needs the rates agreed
   at creation to fit, and that nothing was distributed before needs to know
   that the status Settled is where distribution leads. *)
ProceedsBook(a) ==
  /\ status[a] = "Absent" => proceeds[a] = 0
  /\ status[a] # "Absent" =>
       listing[a].royalty_bps + platform_fee_bps[a] <= BasisPoints
  /\ status[a] # "Absent" /\ Digital(a) =>
       proceeds[a] = IF status[a] = "Settled" THEN highest_bid[a] ELSE 0

ProceedsInv == \A a \in AuctionIds : ProceedsBook(a)

LEMMA ProceedsCreate ==
  ASSUME TypeOK, NEW l \in Listings, CreateAuction(l), NEW a \in AuctionIds,
         a = auction_count, ProceedsBook(a)
  PROVE  ProceedsBook(a)'
<1>1. status[a] = "Absent"
  BY BoundsAssumption DEF TypeOK, AuctionIds
<1>2. /\ status'[a] = "Created" /\ listing'[a] = l
      /\ platform_fee_bps'[a] = config.fee /\ proceeds' = proceeds
      /\ l.royalty_bps + config.fee <= BasisPoints
  BY DEF CreateAuction, TypeOK, money
<1>. QED
  BY <1>1, <1>2 DEF ProceedsBook

LEMMA ProceedsSettle ==
  ASSUME TypeOK, NEW a \in AuctionIds, SettleAuction(a), ProceedsBook(a)
  PROVE  ProceedsBook(a)'
<1>. DEFINE paid == TotalPayout(CalculateSplit(highest_bid[a],
                      listing[a].royalty_bps, platform_fee_bps[a]))
<1>1. /\ status[a] = "Ended"
      /\ proceeds' = [proceeds EXCEPT ![a] = @ + paid]
      /\ status' = [status EXCEPT ![a] = "Settled"]
      /\ UNCHANGED <<listing, platform_fee_bps, highest_bid>>
  BY DEF SettleAuction, lifecycle, leader
<1>2. listing[a].royalty_bps + platform_fee_bps[a] <= BasisPoints
  BY <1>1 DEF ProceedsBook
<1>3. /\ highest_bid[a] \in Nat /\ listing[a].royalty_bps \in Nat
      /\ platform_fee_bps[a] \in Nat
  BY <1>1, ListingFields DEF TypeOK, IsListing
<1>4. paid = highest_bid[a]
  BY <1>2, <1>3, SplitPaysTheBid
<1>. HIDE DEF paid
<1>5. Digital(a) => proceeds[a] = 0
  BY <1>1 DEF ProceedsBook
<1>6. /\ status'[a] = "Settled"
      /\ Digital(a) => proceeds'[a] = highest_bid[a]
  BY <1>1, <1>3, <1>4, <1>5 DEF TypeOK
<1>. QED
  BY <1>1, <1>2, <1>6 DEF ProceedsBook, Digital

LEMMA ProceedsStep ==
  ASSUME TypeOK, TypeOK', ProceedsInv, [Next]_vars
  PROVE  ProceedsInv'
<1>. SUFFICES ASSUME NEW a \in AuctionIds PROVE ProceedsBook(a)'
  BY DEF ProceedsInv
<1>1. ProceedsBook(a)
  BY DEF ProceedsInv
<1>. DEFINE Agreed == /\ listing'[a] = listing[a]
                      /\ platform_fee_bps'[a] = platform_fee_bps[a]
                      /\ proceeds'[a] = proceeds[a]
            Unsettled == /\ status'[a] \notin {"Absent", "Settled"}
                         /\ status[a] \notin {"Absent", "Settled"}
            Unmoved == status'[a] = status[a] /\ highest_bid'[a] = highest_bid[a]
<1>2. Agreed /\ (Unsettled \/ Unmoved) => ProceedsBook(a)'
  BY <1>1 DEF ProceedsBook, Digital
<1>3. CASE Tick \/ UpdateConfig \/ UNCHANGED vars
  BY <1>2, <1>3 DEF Tick, UpdateConfig, vars, lifecycle, leader, money
<1>4. ASSUME NEW l \in Listings, CreateAuction(l) PROVE ProceedsBook(a)'
  <2>1. CASE a = auction_count
    BY <1>1, <1>4, <2>1, ProceedsCreate
  <2>2. CASE a # auction_count
    BY <1>2, <1>4, <2>2 DEF CreateAuction, TypeOK, money
  <2>. QED
    BY <2>1, <2>2
<1>5. ASSUME NEW x \in AuctionIds, AttestPhysicalItem(x) PROVE ProceedsBook(a)'
  <2>1. Agreed /\ (x # a => Unmoved)
    BY <1>5 DEF AttestPhysicalItem, leader, money, TypeOK
  <2>2. x = a => /\ status'[a] = "Active" /\ ~Digital(a)
                 /\ status[a] # "Absent"
    BY <1>5 DEF AttestPhysicalItem, Physical, Digital, TypeOK
  <2>. QED
    BY <1>1, <1>2, <2>1, <2>2 DEF ProceedsBook, Digital
<1>6. ASSUME NEW x \in AuctionIds, ActivateAuction(x) \/ CancelAuction(x)
      PROVE  ProceedsBook(a)'
  <2>1. Agreed /\ (x # a => Unmoved)
    BY <1>6 DEF ActivateAuction, CancelAuction, lifecycle, leader, money, TypeOK
  <2>2. x = a => Unsettled
    BY <1>6 DEF ActivateAuction, ReadyToActivate, CancelAuction, Cancellable, TypeOK
  <2>. QED
    BY <1>2, <2>1, <2>2
<1>7. ASSUME NEW x \in AuctionIds, ApproveNftTransfer(x) PROVE ProceedsBook(a)'
  BY <1>2, <1>7 DEF ApproveNftTransfer, lifecycle, leader, money
<1>8. ASSUME NEW x \in AuctionIds, CloseAuction(x) PROVE ProceedsBook(a)'
  <2>1. Agreed
    BY <1>8 DEF CloseAuction, lifecycle
  <2>2. x # a => Unmoved
    BY <1>8 DEF CloseAuction, FinalizeSealedAuction, TypeOK
  <2>3. x = a => Unsettled
    <3>1. /\ status[x] \in {"Created", "Active"}
          /\ \E s \in {"Ended", "Cancelled"} : status' = [status EXCEPT ![x] = s]
      BY <1>8, TypeFinalize DEF CloseAuction
    <3>. QED
      BY <3>1 DEF TypeOK
  <2>. QED
    BY <1>2, <2>1, <2>2, <2>3
<1>9. ASSUME NEW x \in AuctionIds, SettleAuction(x) PROVE ProceedsBook(a)'
  <2>1. CASE x = a
    BY <1>1, <1>9, <2>1, ProceedsSettle
  <2>2. CASE x # a
    <3>1. Agreed /\ Unmoved
      BY <1>9, <2>2 DEF SettleAuction, lifecycle, leader, TypeOK
    <3>. QED
      BY <1>2, <3>1
  <2>. QED
    BY <2>1, <2>2
<1>10. ASSUME NEW x \in AuctionIds, NEW b \in Bidders,
              RefundUnrevealed(x, b) \/ WithdrawRefund(x, b)
       PROVE  ProceedsBook(a)'
  BY <1>2, <1>10 DEF RefundUnrevealed, WithdrawRefund, RefundBid, lifecycle, leader
<1>11. ASSUME NEW x \in AuctionIds, NEW b \in Bidders, NEW amount \in Amounts,
              NEW sealed_amount \in Amounts,
              CommitBid(x, b, amount, sealed_amount) \/ RevealBid(x, b, amount)
       PROVE  ProceedsBook(a)'
  BY <1>2, <1>11 DEF CommitBid, RevealBid, LockBid, lifecycle, leader, money
<1>12. ASSUME NEW x \in AuctionIds, NEW b \in Bidders, NEW amount \in Amounts,
              PlaceBid(x, b, amount)
       PROVE  ProceedsBook(a)'
  <2>1. Agreed /\ (x # a => Unmoved)
    BY <1>12 DEF PlaceBid, LockBid, lifecycle, TypeOK
  <2>2. x = a => Unsettled
    BY <1>12 DEF PlaceBid
  <2>. QED
    BY <1>2, <2>1, <2>2
<1>13. ASSUME NEW x \in AuctionIds, NEW b \in Bidders,
              NEW max_price \in Amounts \cup {None}, BuyNow(x, b, max_price)
       PROVE  ProceedsBook(a)'
  <2>1. Agreed /\ (x # a => Unmoved)
    BY <1>13 DEF BuyNow, LockBid, lifecycle, TypeOK
  <2>2. x = a => Unsettled
    BY <1>13 DEF BuyNow, TypeOK
  <2>. QED
    BY <1>2, <2>1, <2>2
<1>. QED
  BY <1>3, <1>4, <1>5, <1>6, <1>7, <1>8, <1>9, <1>10, <1>11, <1>12, <1>13 DEF Next

(* Settlement distributes the winning bid of a digital item exactly, and once,
   for every bid, every pair of rates that create_auction lets through, and
   whatever the admin changes in between. *)
THEOREM ProceedsExactHolds == Spec => []ProceedsExact
<1>1. Init => ProceedsInv
  BY DEF Init, ProceedsInv, ProceedsBook
<1>2. ProceedsInv => ProceedsExact
  BY DEF ProceedsInv, ProceedsBook, ProceedsExact
<1>. QED
  BY <1>1, <1>2, ProceedsStep, TypeCorrect, PTL DEF Spec
-----------------------------------------------------------------------------
(***************************************************************************)
(* The pooled balance.  By the books, what an auction still owes a bidder  *)
(* is his deposit, less the winning bid that settlement distributed.  So a *)
(* call has to move the balance only as it moves deposits, and settlement  *)
(* as it distributes.                                                      *)
(***************************************************************************)
Held(a, b) ==
  deposited[a][b] - IF status[a] = "Settled" THEN WinningStake(a, b) ELSE 0

Pooled(t, a, b) == IF a \in AuctionsIn(t) THEN Held(a, b) ELSE 0

Pool(t) == [ab \in AuctionIds \X Bidders |-> Pooled(t, ab[1], ab[2])]

PoolInv == \A t \in Tokens : escrow[t] = SumFunction(Pool(t))

LEMMA PoolType ==
  ASSUME TypeOK, NEW t \in Tokens
  PROVE  /\ Pool(t) \in [AuctionIds \X Bidders -> Int]
         /\ \A a \in AuctionIds, b \in Bidders :
              Pooled(t, a, b) \in Int /\ Pool(t)[<<a, b>>] = Pooled(t, a, b)
<1>1. ASSUME NEW a \in AuctionIds, NEW b \in Bidders
      PROVE  Pooled(t, a, b) \in Int
  <2>1. deposited[a][b] \in Int /\ highest_bid[a] \in Nat
    BY DEF TypeOK
  <2>. QED
    BY <2>1 DEF Pooled, Held, WinningStake
<1>. QED
  BY <1>1 DEF Pool

LEMMA OwedIsHeld ==
  ASSUME TypeOK, AccountingInv, \A l \in Listings : l.item.kind = "Digital",
         NEW t \in Tokens
  PROVE  Owed(t) = SumFunction(Pool(t))
<1>1. ASSUME NEW a \in AuctionsIn(t), NEW b \in Bidders
      PROVE  OwedTo(a, b) = Held(a, b)
  <2>1. a \in AuctionIds /\ status[a] # "Absent" /\ Digital(a)
    BY ListingFields DEF AuctionsIn, Digital
  <2>2. deposited[a][b] = refunds[a][b] + SealedStake(a, b) + WinningStake(a, b)
    BY <2>1 DEF AccountingInv, Books, Account
  <2>3. refunds[a][b] \in Nat /\ WinningStake(a, b) \in Nat
    BY <2>1 DEF TypeOK, WinningStake
  <2>4. SealedStake(a, b) \in Nat
    <3>1. commitments[a][b] \in CommitmentRecords \cup {None}
      BY <2>1 DEF TypeOK
    <3>. QED
      BY <3>1, AmountsAreNat DEF SealedStake, CommitmentRecords
  <2>. QED
    BY <2>2, <2>3, <2>4 DEF OwedTo, Held
<1>2. ASSUME NEW ab \in AuctionIds \X Bidders
      PROVE  (IF ab[1] \in AuctionsIn(t) THEN OwedTo(ab[1], ab[2]) ELSE 0)
               = Pooled(t, ab[1], ab[2])
  BY <1>1 DEF Pooled
<1>. QED
  BY <1>2 DEF Owed, Pool

(* A step that moves what one bidder holds moves the sum by as much. *)
LEMMA PoolMoves ==
  ASSUME TypeOK, TypeOK', IsFiniteSet(Bidders), NEW t \in Tokens,
         NEW x \in AuctionIds, NEW c \in Bidders,
         \A a \in AuctionIds, b \in Bidders :
           a # x \/ b # c => Pooled(t, a, b)' = Pooled(t, a, b),
         escrow[t] = SumFunction(Pool(t)),
         escrow'[t] = escrow[t] + Pooled(t, x, c)' - Pooled(t, x, c)
  PROVE  escrow'[t] = SumFunction(Pool(t))'
<1>. DEFINE pairs == AuctionIds \X Bidders
<1>1. IsFiniteSet(pairs)
  <2>1. IsFiniteSet(AuctionIds)
    BY BoundsAssumption, FS_Interval DEF AuctionIds
  <2>. QED
    BY <2>1, FS_Product
<1>2. PICK f \in [pairs -> Int] : f = Pool(t)
  BY PoolType
<1>3. PICK h \in [pairs -> Int] : h = Pool(t)'
  <2>1. ASSUME NEW a \in AuctionIds, NEW b \in Bidders
        PROVE  Pooled(t, a, b)' \in Int
    <3>1. deposited'[a][b] \in Int /\ highest_bid'[a] \in Nat
      BY DEF TypeOK
    <3>. QED
      BY <3>1 DEF Pooled, Held, WinningStake
  <2>. QED
    BY <2>1 DEF Pool
<1>4. ASSUME NEW a \in AuctionIds, NEW b \in Bidders
      PROVE  f[<<a, b>>] = Pooled(t, a, b) /\ h[<<a, b>>] = Pooled(t, a, b)'
  BY <1>2, <1>3 DEF Pool
<1>5. \A ab \in pairs \ {<<x, c>>} : h[ab] = f[ab]
  BY <1>4
<1>6. SumFunction(h) = SumFunction(f) + h[<<x, c>>] - f[<<x, c>>]
  <2>1. <<x, c>> \in pairs
    OBVIOUS
  <2>. HIDE DEF pairs
  <2>. QED
    BY <1>1, <1>5, <2>1, SumMoves
<1>. QED
  BY <1>2, <1>3, <1>4, <1>6

LEMMA PoolStays ==
  ASSUME NEW t \in Tokens,
         \A a \in AuctionIds, b \in Bidders : Pooled(t, a, b)' = Pooled(t, a, b),
         escrow[t] = SumFunction(Pool(t)), escrow'[t] = escrow[t]
  PROVE  escrow'[t] = SumFunction(Pool(t))'
<1>1. Pool(t)' = Pool(t)
  BY DEF Pool
<1>. QED
  BY <1>1

(* A transfer between a bidder and the contract moves his deposit. *)
LEMMA TransferMovesPool ==
  ASSUME TypeOK, TypeOK', IsFiniteSet(Bidders), NEW t \in Tokens,
         NEW x \in AuctionIds, NEW c \in Bidders, NEW n \in Int,
         status[x] # "Absent", listing' = listing,
         \A a \in AuctionIds :
           \/ status'[a] = status[a] /\ highest_bid'[a] = highest_bid[a]
              /\ highest_bidder'[a] = highest_bidder[a]
           \/ {status[a], status'[a]} \subseteq {"Active", "Ended"},
         escrow' = [escrow EXCEPT ![listing[x].payment_token] = @ + n],
         deposited' = [deposited EXCEPT ![x][c] = @ + n],
         escrow[t] = SumFunction(Pool(t))
  PROVE  escrow'[t] = SumFunction(Pool(t))'
<1>1. AuctionsIn(t)' = AuctionsIn(t)
  BY DEF AuctionsIn
<1>2. /\ deposited \in [AuctionIds -> [Bidders -> Int]]
      /\ escrow \in [Tokens -> Nat]
      /\ listing[x].payment_token \in Tokens
  BY ListingFields DEF TypeOK
<1>3. ASSUME NEW a \in AuctionIds, NEW b \in Bidders
      PROVE  /\ deposited[a][b] \in Int
             /\ Held(a, b) \in Int
             /\ Held(a, b)' = IF a = x /\ b = c THEN Held(a, b) + n ELSE Held(a, b)
  <2>1. deposited[a][b] \in Int
        /\ deposited'[a][b] = IF a = x /\ b = c THEN deposited[a][b] + n
                                                ELSE deposited[a][b]
    BY <1>2
  <2>2. WinningStake(a, b) \in Int
    BY DEF WinningStake, TypeOK
  <2>3. status[a] = "Settled" <=> status'[a] = "Settled"
    OBVIOUS
  <2>4. status[a] = "Settled" => WinningStake(a, b)' = WinningStake(a, b)
    BY DEF WinningStake
  <2>. QED
    BY <2>1, <2>2, <2>3, <2>4 DEF Held
<1>4. CASE x \in AuctionsIn(t)
  <2>1. escrow'[t] = escrow[t] + n /\ escrow[t] \in Int
    BY <1>2, <1>4 DEF AuctionsIn
  <2>2. \A a \in AuctionIds, b \in Bidders :
          a # x \/ b # c => Pooled(t, a, b)' = Pooled(t, a, b)
    BY <1>1, <1>3 DEF Pooled
  <2>3. Pooled(t, x, c)' = Pooled(t, x, c) + n /\ Pooled(t, x, c) \in Int
    BY <1>1, <1>3, <1>4 DEF Pooled
  <2>4. escrow'[t] = escrow[t] + Pooled(t, x, c)' - Pooled(t, x, c)
    BY <2>1, <2>3
  <2>. QED
    BY <2>2, <2>4, PoolMoves
<1>5. CASE x \notin AuctionsIn(t)
  <2>1. escrow'[t] = escrow[t]
    BY <1>2, <1>5 DEF AuctionsIn
  <2>2. \A a \in AuctionIds, b \in Bidders : Pooled(t, a, b)' = Pooled(t, a, b)
    BY <1>1, <1>3, <1>5 DEF Pooled
  <2>. QED
    BY <2>1, <2>2, PoolStays
<1>. QED
  BY <1>4, <1>5

(* Settlement takes the winning bid out of the balance, and the winner's stake
   out of what the auction owes. *)
LEMMA SettleMovesPool ==
  ASSUME TypeOK, TypeOK', ProceedsInv, IsFiniteSet(Bidders), NEW t \in Tokens,
         NEW x \in AuctionIds, SettleAuction(x), escrow[t] = SumFunction(Pool(t))
  PROVE  escrow'[t] = SumFunction(Pool(t))'
<1>. DEFINE paid == TotalPayout(CalculateSplit(highest_bid[x],
                      listing[x].royalty_bps, platform_fee_bps[x]))
<1>1. /\ status[x] = "Ended" /\ highest_bidder[x] # None
      /\ escrow' = [escrow EXCEPT ![listing[x].payment_token] = @ - paid]
      /\ status' = [status EXCEPT ![x] = "Settled"]
      /\ UNCHANGED <<listing, highest_bidder, highest_bid, deposited>>
  BY DEF SettleAuction, lifecycle, leader
<1>2. paid = highest_bid[x] /\ highest_bid[x] \in Nat
  <2>1. listing[x].royalty_bps + platform_fee_bps[x] <= BasisPoints
    BY <1>1 DEF ProceedsInv, ProceedsBook
  <2>2. /\ highest_bid[x] \in Nat /\ listing[x].royalty_bps \in Nat
        /\ platform_fee_bps[x] \in Nat
    BY <1>1, ListingFields DEF TypeOK, IsListing
  <2>. QED
    BY <2>1, <2>2, SplitPaysTheBid
<1>. HIDE DEF paid
<1>3. PICK c \in Bidders : c = highest_bidder[x]
  BY <1>1 DEF TypeOK
<1>4. \A a \in AuctionIds : status'[a] = IF a = x THEN "Settled" ELSE status[a]
  BY <1>1 DEF TypeOK
<1>5. AuctionsIn(t)' = AuctionsIn(t)
  BY <1>1, <1>4 DEF AuctionsIn
<1>6. ASSUME NEW a \in AuctionIds, NEW b \in Bidders
      PROVE  /\ Held(a, b) \in Int
             /\ Held(a, b)' = IF a = x /\ b = c THEN Held(a, b) - paid ELSE Held(a, b)
  <2>1. deposited[a][b] \in Int /\ highest_bid[a] \in Nat
    BY DEF TypeOK
  <2>. QED
    BY <1>1, <1>2, <1>3, <1>4, <2>1 DEF Held, WinningStake
<1>7. escrow \in [Tokens -> Nat] /\ listing[x].payment_token \in Tokens
  BY <1>1, ListingFields DEF TypeOK
<1>8. CASE x \in AuctionsIn(t)
  <2>1. escrow'[t] = escrow[t] - paid /\ escrow[t] \in Int
    BY <1>1, <1>7, <1>8 DEF AuctionsIn
  <2>2. \A a \in AuctionIds, b \in Bidders :
          a # x \/ b # c => Pooled(t, a, b)' = Pooled(t, a, b)
    BY <1>5, <1>6 DEF Pooled
  <2>3. Pooled(t, x, c)' = Pooled(t, x, c) - paid /\ Pooled(t, x, c) \in Int
    BY <1>5, <1>6, <1>8 DEF Pooled
  <2>4. escrow'[t] = escrow[t] + Pooled(t, x, c)' - Pooled(t, x, c)
    BY <1>2, <2>1, <2>3
  <2>. QED
    BY <2>2, <2>4, PoolMoves
<1>9. CASE x \notin AuctionsIn(t)
  <2>1. escrow'[t] = escrow[t]
    BY <1>1, <1>7, <1>9 DEF AuctionsIn
  <2>2. \A a \in AuctionIds, b \in Bidders : Pooled(t, a, b)' = Pooled(t, a, b)
    BY <1>5, <1>6, <1>9 DEF Pooled
  <2>. QED
    BY <2>1, <2>2, PoolStays
<1>. QED
  BY <1>8, <1>9

LEMMA PoolStep ==
  ASSUME IsFiniteSet(Bidders), \A l \in Listings : l.item.kind = "Digital",
         TypeOK, TypeOK', AccountingInv, ProceedsInv, PoolInv, [Next]_vars
  PROVE  PoolInv'
<1>. SUFFICES ASSUME NEW t \in Tokens PROVE escrow'[t] = SumFunction(Pool(t))'
  BY DEF PoolInv
<1>1. escrow[t] = SumFunction(Pool(t))
  BY DEF PoolInv
(* Deposits, the balance and what is settled stay. *)
<1>. DEFINE Still ==
       /\ listing' = listing /\ deposited' = deposited /\ escrow' = escrow
       /\ \A a \in AuctionIds :
            \/ status'[a] = status[a] /\ highest_bid'[a] = highest_bid[a]
               /\ highest_bidder'[a] = highest_bidder[a]
            \/ {status[a], status'[a]} \subseteq
                 {"Created", "Active", "Ended", "Cancelled"}
<1>2. ASSUME Still PROVE escrow'[t] = SumFunction(Pool(t))'
  <2>1. AuctionsIn(t)' = AuctionsIn(t)
    BY <1>2 DEF AuctionsIn
  <2>2. \A a \in AuctionIds, b \in Bidders : Held(a, b)' = Held(a, b)
    BY <1>2 DEF Held, WinningStake
  <2>3. \A a \in AuctionIds, b \in Bidders : Pooled(t, a, b)' = Pooled(t, a, b)
    BY <2>1, <2>2 DEF Pooled
  <2>. QED
    BY <1>1, <1>2, <2>3, PoolStays
<1>3. CASE Tick \/ UpdateConfig \/ UNCHANGED vars
  BY <1>2, <1>3 DEF Tick, UpdateConfig, vars, lifecycle, leader, money
<1>4. ASSUME NEW l \in Listings, CreateAuction(l)
      PROVE  escrow'[t] = SumFunction(Pool(t))'
  <2>. DEFINE x == auction_count
  <2>1. /\ x \in AuctionIds /\ status[x] = "Absent"
        /\ \A a \in AuctionIds \ {x} :
             status'[a] = status[a] /\ listing'[a] = listing[a]
        /\ status'[x] = "Created"
        /\ UNCHANGED <<highest_bidder, highest_bid, deposited, escrow>>
    BY <1>4, BoundsAssumption DEF CreateAuction, TypeOK, AuctionIds, money
  <2>2. \A b \in Bidders : deposited[x][b] = 0
    BY <2>1 DEF AccountingInv, Books, Untouched
  <2>. HIDE DEF x
  <2>3. ASSUME NEW a \in AuctionIds, NEW b \in Bidders
        PROVE  Pooled(t, a, b)' = Pooled(t, a, b)
    <3>1. CASE a = x
      BY <2>1, <2>2, <3>1 DEF Pooled, AuctionsIn, Held
    <3>2. CASE a # x
      BY <2>1, <3>2 DEF Pooled, AuctionsIn, Held, WinningStake
    <3>. QED
      BY <3>1, <3>2
  <2>. QED
    BY <1>1, <2>1, <2>3, PoolStays
<1>5. ASSUME NEW x \in AuctionIds,
             \/ AttestPhysicalItem(x) \/ ActivateAuction(x)
             \/ CancelAuction(x) \/ ApproveNftTransfer(x)
      PROVE  escrow'[t] = SumFunction(Pool(t))'
  <2>1. ~AttestPhysicalItem(x)
    BY ListingFields DEF AttestPhysicalItem, Physical
  <2>2. Still
    BY <1>5, <2>1
    DEF ActivateAuction, ReadyToActivate, CancelAuction, Cancellable,
        ApproveNftTransfer, lifecycle, leader, money, TypeOK
  <2>. QED
    BY <1>2, <2>2
<1>6. ASSUME NEW x \in AuctionIds, CloseAuction(x)
      PROVE  escrow'[t] = SumFunction(Pool(t))'
  <2>1. /\ status[x] \in {"Created", "Active"}
        /\ \E s \in {"Ended", "Cancelled"} : status' = [status EXCEPT ![x] = s]
        /\ UNCHANGED <<listing, deposited, escrow>>
    BY <1>6, TypeFinalize DEF CloseAuction, lifecycle
  <2>2. \A a \in AuctionIds \ {x} : highest_bid'[a] = highest_bid[a]
                                    /\ highest_bidder'[a] = highest_bidder[a]
    BY <1>6 DEF CloseAuction, FinalizeSealedAuction, TypeOK
  <2>3. Still
    BY <2>1, <2>2 DEF TypeOK
  <2>. QED
    BY <1>2, <2>3
<1>7. ASSUME NEW x \in AuctionIds, SettleAuction(x)
      PROVE  escrow'[t] = SumFunction(Pool(t))'
  BY <1>1, <1>7, SettleMovesPool
<1>8. ASSUME NEW x \in AuctionIds, NEW b \in Bidders,
             RefundUnrevealed(x, b) \/ WithdrawRefund(x, b)
      PROVE  escrow'[t] = SumFunction(Pool(t))'
  <2>1. PICK n \in Nat : RefundBid(x, b, n) /\ status[x] # "Absent"
    <3>1. WithdrawRefund(x, b) => refunds[x][b] \in Nat
      BY DEF TypeOK
    <3>2. RefundUnrevealed(x, b) => commitments[x][b].amount \in Nat
      <4>1. commitments[x][b] \in CommitmentRecords \cup {None}
        BY DEF TypeOK
      <4>. QED
        BY <4>1, AmountsAreNat DEF RefundUnrevealed, MayTakeBack, CommitmentRecords
    <3>. QED
      BY <1>8, <3>1, <3>2 DEF RefundUnrevealed, MayTakeBack, WithdrawRefund
  <2>2. UNCHANGED <<listing, status, highest_bid, highest_bidder>>
    BY <1>8 DEF RefundUnrevealed, WithdrawRefund, lifecycle, leader
  <2>3. PICK m \in Int : m = 0 - n
    BY <2>1
  <2>4. /\ escrow' = [escrow EXCEPT ![listing[x].payment_token] = @ + m]
        /\ deposited' = [deposited EXCEPT ![x][b] = @ + m]
    <3>1. escrow[listing[x].payment_token] \in Int /\ deposited[x][b] \in Int
      <4>1. /\ escrow \in [Tokens -> Nat]
            /\ deposited \in [AuctionIds -> [Bidders -> Int]]
        BY DEF TypeOK
      <4>2. listing[x].payment_token \in Tokens
        BY <2>1, ListingFields
      <4>. QED
        BY <4>1, <4>2
    <3>2. /\ escrow[listing[x].payment_token] - n
               = escrow[listing[x].payment_token] + m
          /\ deposited[x][b] - n = deposited[x][b] + m
      BY <2>3, <3>1
    <3>. QED
      BY <2>1, <3>2 DEF RefundBid
  <2>. QED
    BY <1>1, <2>1, <2>2, <2>4, TransferMovesPool
<1>9. ASSUME NEW x \in AuctionIds, NEW b \in Bidders, NEW amount \in Amounts,
             RevealBid(x, b, amount)
      PROVE  escrow'[t] = SumFunction(Pool(t))'
  BY <1>2, <1>9 DEF RevealBid, lifecycle, leader, money
<1>10. ASSUME NEW x \in AuctionIds, NEW b \in Bidders, NEW amount \in Amounts,
              \/ PlaceBid(x, b, amount)
              \/ \E sealed_amount \in Amounts : CommitBid(x, b, amount, sealed_amount)
       PROVE  escrow'[t] = SumFunction(Pool(t))'
  <2>1. /\ LockBid(x, b, amount) /\ status[x] = "Active"
        /\ listing' = listing /\ status' = status
    BY <1>10 DEF PlaceBid, CommitBid, lifecycle
  <2>2. \A a \in AuctionIds \ {x} : highest_bid'[a] = highest_bid[a]
                                    /\ highest_bidder'[a] = highest_bidder[a]
    BY <1>10 DEF PlaceBid, CommitBid, leader, TypeOK
  <2>3. amount \in Int
    BY AmountsAreNat
  <2>. QED
    BY <1>1, <2>1, <2>2, <2>3, TransferMovesPool DEF LockBid
<1>11. ASSUME NEW x \in AuctionIds, NEW b \in Bidders,
              NEW max_price \in Amounts \cup {None}, BuyNow(x, b, max_price)
       PROVE  escrow'[t] = SumFunction(Pool(t))'
  <2>1. /\ LockBid(x, b, DutchPriceAt(x, now)) /\ status[x] = "Active"
        /\ status' = [status EXCEPT ![x] = "Ended"] /\ listing' = listing
    BY <1>11 DEF BuyNow, lifecycle
  <2>2. \A a \in AuctionIds \ {x} : highest_bid'[a] = highest_bid[a]
                                    /\ highest_bidder'[a] = highest_bidder[a]
                                    /\ status'[a] = status[a]
    BY <1>11 DEF BuyNow, TypeOK
  <2>3. PICK price \in Int : price = DutchPriceAt(x, now)
    BY <2>1, DutchPriceType
  <2>4. status'[x] = "Ended"
    BY <2>1 DEF TypeOK
  <2>. QED
    BY <1>1, <2>1, <2>2, <2>3, <2>4, TransferMovesPool DEF LockBid
<1>. QED
  BY <1>3, <1>4, <1>5, <1>6, <1>7, <1>8, <1>9, <1>10, <1>11 DEF Next

LEMMA PoolInit ==
  ASSUME IsFiniteSet(Bidders), Init
  PROVE  PoolInv
<1>. SUFFICES ASSUME NEW t \in Tokens PROVE SumFunction(Pool(t)) = 0
  BY DEF PoolInv, Init
<1>1. Pool(t) \in [AuctionIds \X Bidders -> {0}]
  BY DEF Init, Pool, Pooled, AuctionsIn
<1>2. IsFiniteSet(AuctionIds \X Bidders)
  <2>1. IsFiniteSet(AuctionIds)
    BY BoundsAssumption, FS_Interval DEF AuctionIds
  <2>. QED
    BY <2>1, FS_Product
<1>. QED
  BY <1>1, <1>2, SumZero

(* The balance in which the contract pools every bid is exactly what its auctions
   owe their bidders together, whatever the number of auctions, of bidders and of
   tokens - for digital items and bidders that reveal what they escrowed: without
   either, the contract pays out money of another auction. *)
THEOREM EscrowExactHolds ==
  ASSUME FaithfulBidders, IsFiniteSet(Bidders),
         \A l \in Listings : l.item.kind = "Digital"
  PROVE  Spec => []EscrowExact
<1>1. Init => AccountingInv /\ ProceedsInv /\ PoolInv
  BY AccountingInit, PoolInit DEF Init, ProceedsInv, ProceedsBook
<1>2. TypeOK /\ TypeOK' /\ AccountingInv /\ ProceedsInv /\ PoolInv /\ [Next]_vars
        => AccountingInv' /\ ProceedsInv' /\ PoolInv'
  BY AccountingStep, ProceedsStep, PoolStep
<1>3. TypeOK /\ AccountingInv /\ PoolInv => EscrowExact
  BY OwedIsHeld DEF PoolInv, EscrowExact
<1>. QED
  BY <1>1, <1>2, <1>3, TypeCorrect, PTL DEF Spec

(* Where bidders reveal what they escrowed, every refund the contract promises
   can be paid out of its balance: all of them together, in any order.  (Where
   they do not, the run "unfaithful" shows that they cannot.) *)
THEOREM RefundsBackedIfFaithful ==
  ASSUME FaithfulBidders, IsFiniteSet(Bidders),
         \A l \in Listings : l.item.kind = "Digital"
  PROVE  Spec => []RefundsBacked
<1>1. ASSUME TypeOK, EscrowExact, NEW t \in Tokens
      PROVE  escrow[t] >= SumFunction([ab \in AuctionsIn(t) \X Bidders |->
                                         refunds[ab[1]][ab[2]]])
  <2>. DEFINE pairs == AuctionIds \X Bidders
              S == AuctionsIn(t) \X Bidders
  <2>1. PICK f \in [S -> Nat] : f = [ab \in S |-> refunds[ab[1]][ab[2]]]
    <3>1. \A a \in AuctionsIn(t), b \in Bidders : refunds[a][b] \in Nat
      BY <1>1 DEF TypeOK, AuctionsIn
    <3>. QED
      BY <3>1
  <2>2. ASSUME NEW a \in AuctionIds, NEW b \in Bidders
        PROVE  OwedTo(a, b) \in Nat /\ refunds[a][b] <= OwedTo(a, b)
    <3>1. refunds[a][b] \in Nat /\ WinningStake(a, b) \in Nat
      BY <1>1 DEF TypeOK, WinningStake
    <3>2. SealedStake(a, b) \in Nat
      <4>1. commitments[a][b] \in CommitmentRecords \cup {None}
        BY <1>1 DEF TypeOK
      <4>. QED
        BY <4>1, AmountsAreNat DEF SealedStake, CommitmentRecords
    <3>. QED
      BY <3>1, <3>2 DEF OwedTo
  <2>. DEFINE owed(ab) == IF ab[1] \in AuctionsIn(t) THEN OwedTo(ab[1], ab[2]) ELSE 0
  <2>3. PICK h \in [pairs -> Nat] : h = [ab \in pairs |-> owed(ab)]
    BY <2>2
  <2>4. IsFiniteSet(pairs) /\ S \in SUBSET pairs
    <3>1. IsFiniteSet(AuctionIds)
      BY BoundsAssumption, FS_Interval DEF AuctionIds
    <3>. QED
      BY <3>1, FS_Product DEF AuctionsIn
  <2>5. \A ab \in S : f[ab] <= h[ab]
    BY <2>1, <2>2, <2>3 DEF AuctionsIn
  <2>6. SumFunction(f) <= SumFunction(h)
    <3>. HIDE DEF pairs, S
    <3>. QED
      BY <2>4, <2>5, SumGrows
  <2>7. SumFunction(h) = escrow[t]
    BY <1>1, <2>3 DEF EscrowExact, Owed
  <2>8. SumFunction(h) \in Int /\ SumFunction(f) \in Int
    BY <2>4, FS_Subset, SumType
  <2>. QED
    BY <2>1, <2>6, <2>7, <2>8
<1>2. TypeOK /\ EscrowExact => RefundsBacked
  BY <1>1 DEF RefundsBacked
<1>. QED
  BY <1>2, TypeCorrect, EscrowExactHolds, PTL
=============================================================================
