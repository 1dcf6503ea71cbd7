--------------------------- MODULE UrithiAuction ---------------------------
(***************************************************************************)
(* The Soroban auction contract (contracts/auction/src): several auctions  *)
(* of the three formats, their bidders, and the one token balance per      *)
(* payment token in which the contract pools every bid.                    *)
(*                                                                         *)
(* An invocation is atomic (a panic reverts it), so each entry point is    *)
(* one action whose guard is the conjunction of the asserts the call must  *)
(* get past.  What the caller chooses is quantified in Next; that the      *)
(* caller may sign for the account named is part of the choice.            *)
(***************************************************************************)
EXTENDS Integers, Sequences, FiniteSetsExt, RoyaltySplit, DutchPrice

CONSTANTS
  Bidders,              \* accounts that may bid, buy or commit
  Listings,             \* the CreateAuctionParams sellers may submit
  Amounts,              \* the bid amounts that may be offered
  Fees,                 \* values an admin may give default_platform_fee_bps
  MaxRoyalties,         \* values an admin may give max_royalty_bps
  ANTI_SNIPE_WINDOW_SECS,
  EXTENSION_SECS,
  APPROVAL_LIFETIME,    \* how long an NFT approval lasts, in units of time
  MaxAuctions,          \* bound: auctions created
  MaxTime,              \* bound: ledger time
  FaithfulBidders,      \* TRUE: a bidder commits to the amount it escrows
  None                  \* Option::None

Formats  == {"English", "Dutch", "SealedBid"}
Statuses == {"Absent", "Created", "Active", "Ended", "Settled", "Cancelled"}

AuctionIds == 0 .. MaxAuctions - 1
Tokens     == {l.payment_token : l \in Listings}
Sellers    == {l.seller : l \in Listings}
NFTs       == {l.item.token : l \in {k \in Listings : k.item.kind = "Digital"}}

(* The fields of CreateAuctionParams the contract acts on. *)
IsListing(l) ==
  /\ l.format \in Formats
  /\ l.item.kind \in {"Digital", "Physical"}
  /\ {l.reserve_price, l.min_increment, l.start_price,
      l.price_decay_per_second} \subseteq Int
  /\ {l.royalty_bps, l.start_time, l.end_time, l.commit_deadline,
      l.reveal_deadline, l.max_bidders} \subseteq Nat

ASSUME ListingsAssumption == \A l \in Listings : IsListing(l)
ASSUME AmountsAssumption  == Amounts \subseteq 0 .. I128_MAX
ASSUME FeesAssumption     == Fees \subseteq Nat /\ MaxRoyalties \subseteq Nat
ASSUME TimesAssumption ==
  /\ ANTI_SNIPE_WINDOW_SECS \in Nat \ {0}
  /\ EXTENSION_SECS \in Nat
  /\ EXTENSION_SECS >= ANTI_SNIPE_WINDOW_SECS
  /\ APPROVAL_LIFETIME \in Nat
ASSUME BoundsAssumption   == MaxAuctions \in Nat /\ MaxTime \in Nat
ASSUME FaithfulAssumption == FaithfulBidders \in BOOLEAN

CommitmentRecords ==
  [commitment : Amounts \X AuctionIds \X Bidders, amount : Amounts]

ASSUME NoneAssumption ==
  None \notin Bidders /\ None \notin CommitmentRecords /\ None \notin Listings

VARIABLES
  now,             \* ledger timestamp
  config,          \* PlatformConfig: fee, max_royalty, paused
  auction_count,
  \* Auction(id), one variable per group of fields
  listing, platform_fee_bps, status, attested, highest_bidder, highest_bid,
  end_time, bidder_count, revealed_bids,
  commitments,     \* Commitment(id, bidder)
  refunds,         \* Refund(id, bidder)
  \* the token contracts
  escrow,          \* payment token -> balance of the auction contract
  approved_until,  \* seller -> ledger time its NFT approval expires
  nft_owner,
  \* history: what the transfers and the emitted BidRecords add up to
  deposited,       \* [id][bidder]: transferred in, less transferred back
  proceeds,        \* [id]: amount distributed on settlement
  last_bid_at      \* [id]: timestamp of the last bid or purchase

lifecycle == <<auction_count, listing, platform_fee_bps, attested>>
leader    == <<highest_bidder, highest_bid, end_time, last_bid_at>>
sealed    == <<bidder_count, revealed_bids, commitments>>
money     == <<refunds, escrow, deposited, proceeds>>
nft       == <<approved_until, nft_owner>>
platform  == <<now, config>>
vars == <<platform, lifecycle, status, leader, sealed, money, nft>>

-----------------------------------------------------------------------------

Digital(a)  == listing[a].item.kind = "Digital"
Physical(a) == listing[a].item.kind = "Physical"

(* HMAC(salt, bid_amount || auction_id || bidder), for a salt only the bidder
   knows: two messages hash alike only when they are the same message. *)
Commitment(amount, a, b) == <<amount, a, b>>

HasRevealed(a, b) ==
  \E i \in DOMAIN revealed_bids[a] : revealed_bids[a][i].bidder = b

DutchPriceAt(a, t) ==
  CurrentPrice(listing[a].start_price, listing[a].reserve_price,
               listing[a].price_decay_per_second, listing[a].start_time, t)

(* Definitions named Bug... are variants with a plausible mistake: no action uses
   them, and a property that could not tell them from the real definition would
   say nothing (see the README). *)
BugLockUnsigned(a, b, amount) ==
  /\ escrow' = [escrow EXCEPT ![listing[a].payment_token] = @ + amount]
  /\ deposited' = [deposited EXCEPT ![a][b] = @ + amount]
  /\ UNCHANGED proceeds

(* token.transfer(bidder, contract, amount): a token refuses a negative amount,
   and its supply is an i128.  Whether the bidder can pay is part of its choice
   of amount. *)
LockBid(a, b, amount) ==
  /\ amount >= 0
  /\ deposited[a][b] + amount <= I128_MAX
  /\ escrow' = [escrow EXCEPT ![listing[a].payment_token] = @ + amount]
  /\ deposited' = [deposited EXCEPT ![a][b] = @ + amount]
  /\ UNCHANGED proceeds

(* token.transfer(contract, bidder, amount): aborts when the balance is short. *)
RefundBid(a, b, amount) ==
  /\ escrow[listing[a].payment_token] >= amount
  /\ escrow' = [escrow EXCEPT ![listing[a].payment_token] = @ - amount]
  /\ deposited' = [deposited EXCEPT ![a][b] = @ - amount]
  /\ UNCHANGED proceeds

-----------------------------------------------------------------------------

(* The state initialize leaves: a configured platform without auctions. *)
Init ==
  /\ now = 0
  /\ config \in [fee : Fees, max_royalty : MaxRoyalties, paused : {FALSE}]
  /\ auction_count = 0
  /\ listing = [a \in AuctionIds |-> None]
  /\ platform_fee_bps = [a \in AuctionIds |-> 0]
  /\ status = [a \in AuctionIds |-> "Absent"]
  /\ attested = [a \in AuctionIds |-> FALSE]
  /\ highest_bidder = [a \in AuctionIds |-> None]
  /\ highest_bid = [a \in AuctionIds |-> 0]
  /\ end_time = [a \in AuctionIds |-> 0]
  /\ bidder_count = [a \in AuctionIds |-> 0]
  /\ revealed_bids = [a \in AuctionIds |-> <<>>]
  /\ commitments = [a \in AuctionIds |-> [b \in Bidders |-> None]]
  /\ refunds = [a \in AuctionIds |-> [b \in Bidders |-> 0]]
  /\ escrow = [t \in Tokens |-> 0]
  /\ approved_until = [s \in Sellers |-> -1]
  /\ nft_owner \in [NFTs -> Sellers]
  /\ deposited = [a \in AuctionIds |-> [b \in Bidders |-> 0]]
  /\ proceeds = [a \in AuctionIds |-> 0]
  /\ last_bid_at = [a \in AuctionIds |-> 0]

-----------------------------------------------------------------------------
(* Auction lifecycle *)

ValidSchedule(l) ==
  /\ l.start_time < l.end_time
  /\ l.format = "English" => l.min_increment > 0
  /\ l.format = "Dutch" =>
       l.start_price > l.reserve_price /\ l.price_decay_per_second > 0
  /\ l.format = "SealedBid" =>
       /\ l.start_time < l.commit_deadline
       /\ l.commit_deadline < l.reveal_deadline
       /\ l.reveal_deadline <= l.end_time

CreateAuction(l) ==
  LET a == auction_count IN
  /\ a \in AuctionIds
  /\ ~config.paused
  /\ l.royalty_bps <= config.max_royalty
  /\ l.royalty_bps + config.fee <= BasisPoints
  /\ ValidSchedule(l)
  /\ auction_count' = a + 1
  /\ listing' = [listing EXCEPT ![a] = l]
  /\ platform_fee_bps' = [platform_fee_bps EXCEPT ![a] = config.fee]
  /\ status' = [status EXCEPT ![a] = "Created"]
  /\ end_time' = [end_time EXCEPT ![a] = l.end_time]
  /\ UNCHANGED <<platform, attested, highest_bidder, highest_bid, last_bid_at,
                 sealed, money, nft>>

(* The designated custodian attests.  The status is overwritten whatever it
   was. *)
AttestPhysicalItem(a) ==
  /\ status[a] # "Absent"
  /\ Physical(a)
  /\ attested' = [attested EXCEPT ![a] = TRUE]
  /\ status' = [status EXCEPT ![a] = "Active"]
  /\ UNCHANGED <<platform, auction_count, listing, platform_fee_bps, leader,
                 sealed, money, nft>>

BugActivateUnattested(a) ==
  status[a] = "Created" /\ now >= listing[a].start_time

ReadyToActivate(a) ==
  /\ status[a] = "Created"
  /\ Physical(a) => attested[a]
  /\ now >= listing[a].start_time

ActivateAuction(a) ==
  /\ ReadyToActivate(a)
  /\ status' = [status EXCEPT ![a] = "Active"]
  /\ UNCHANGED <<platform, lifecycle, leader, sealed, money, nft>>

BugCancelAnything(a) == status[a] \notin {"Absent", "Settled", "Cancelled"}

Cancellable(a) ==
  /\ status[a] \in {"Created", "Active"}
  /\ highest_bidder[a] = None

CancelAuction(a) ==
  /\ Cancellable(a)
  /\ status' = [status EXCEPT ![a] = "Cancelled"]
  /\ UNCHANGED <<platform, lifecycle, leader, sealed, money, nft>>

(* One approval per seller and NFT contract: it overwrites the last one. *)
ApproveNftTransfer(a) ==
  /\ status[a] \in {"Created", "Active"}
  /\ Digital(a)
  /\ approved_until' =
       [approved_until EXCEPT ![listing[a].seller] = now + APPROVAL_LIFETIME]
  /\ UNCHANGED <<platform, lifecycle, status, leader, sealed, money, nft_owner>>

-----------------------------------------------------------------------------
(* English bidding *)

BugOverwriteRefund(a) ==
  IF highest_bidder[a] = None THEN refunds
  ELSE [refunds EXCEPT ![a][highest_bidder[a]] = highest_bid[a]]

(* The leader who is outbid may claim the bid he led with. *)
OutbidRefunds(a) ==
  IF highest_bidder[a] = None THEN refunds
  ELSE [refunds EXCEPT ![a][highest_bidder[a]] = SatAdd(@, highest_bid[a])]

BugExtendOnce(a) ==
  IF listing[a].end_time - now < ANTI_SNIPE_WINDOW_SECS
    THEN listing[a].end_time + EXTENSION_SECS
    ELSE end_time[a]

(* A bid in the anti-snipe window moves the deadline. *)
DeadlineAfterBid(a) ==
  IF end_time[a] - now < ANTI_SNIPE_WINDOW_SECS THEN now + EXTENSION_SECS
                                                ELSE end_time[a]

PlaceBid(a, b, amount) ==
  /\ status[a] = "Active"
  /\ listing[a].format = "English"
  /\ b # listing[a].seller
  /\ now < end_time[a]
  /\ now >= listing[a].start_time
  /\ amount >= listing[a].reserve_price
  /\ amount >= SatAdd(highest_bid[a], listing[a].min_increment)
  /\ LockBid(a, b, amount)
  /\ refunds' = OutbidRefunds(a)
  /\ end_time' = [end_time EXCEPT ![a] = DeadlineAfterBid(a)]
  /\ highest_bidder' = [highest_bidder EXCEPT ![a] = b]
  /\ highest_bid' = [highest_bid EXCEPT ![a] = amount]
  /\ last_bid_at' = [last_bid_at EXCEPT ![a] = now]
  /\ UNCHANGED <<platform, lifecycle, status, sealed, nft>>

(* Dutch purchase; max_price = None is a buyer without a limit. *)
BuyNow(a, b, max_price) ==
  LET price == DutchPriceAt(a, now) IN
  /\ status[a] = "Active"
  /\ listing[a].format = "Dutch"
  /\ b # listing[a].seller
  /\ now >= listing[a].start_time
  /\ now < end_time[a]
  /\ max_price # None => price <= max_price
  /\ LockBid(a, b, price)
  /\ highest_bidder' = [highest_bidder EXCEPT ![a] = b]
  /\ highest_bid' = [highest_bid EXCEPT ![a] = price]
  /\ status' = [status EXCEPT ![a] = "Ended"]
  /\ last_bid_at' = [last_bid_at EXCEPT ![a] = now]
  /\ UNCHANGED <<platform, lifecycle, end_time, sealed, refunds, nft>>

-----------------------------------------------------------------------------
(* Sealed bids *)

BugSeatFree(a) ==
  listing[a].max_bidders > 0 => bidder_count[a] <= listing[a].max_bidders

SeatFree(a) ==
  listing[a].max_bidders > 0 => bidder_count[a] < listing[a].max_bidders

(* The bidder escrows amount and commits to sealed_amount, which the contract
   cannot see. *)
CommitBid(a, b, amount, sealed_amount) ==
  /\ status[a] = "Active"
  /\ listing[a].format = "SealedBid"
  /\ now < listing[a].commit_deadline
  /\ now >= listing[a].start_time
  /\ amount >= listing[a].reserve_price
  /\ SeatFree(a)
  /\ commitments[a][b] = None
  /\ LockBid(a, b, amount)
  /\ commitments' = [commitments EXCEPT ![a][b] =
       [commitment |-> Commitment(sealed_amount, a, b), amount |-> amount]]
  /\ bidder_count' = [bidder_count EXCEPT ![a] = @ + 1]
  /\ UNCHANGED <<platform, lifecycle, status, leader, revealed_bids, refunds,
                 nft>>

(* No check of the status, and none of the amount against the escrow. *)
RevealBid(a, b, amount) ==
  /\ status[a] # "Absent"
  /\ listing[a].format = "SealedBid"
  /\ now >= listing[a].commit_deadline
  /\ now < listing[a].reveal_deadline
  /\ commitments[a][b] # None
  /\ Commitment(amount, a, b) = commitments[a][b].commitment
  /\ ~HasRevealed(a, b)
  /\ revealed_bids' = [revealed_bids EXCEPT ![a] =
       Append(@, [bidder |-> b, amount |-> amount])]
  /\ UNCHANGED <<platform, lifecycle, status, leader, bidder_count, commitments,
                 money, nft>>

BugTakeBackActiveOnly(a, b) ==
  /\ status[a] = "Active"
  /\ listing[a].format = "SealedBid"
  /\ now >= listing[a].reveal_deadline
  /\ commitments[a][b] # None
  /\ ~HasRevealed(a, b)

(* Whatever became of the auction. *)
MayTakeBack(a, b) ==
  /\ status[a] # "Absent"
  /\ listing[a].format = "SealedBid"
  /\ now >= listing[a].reveal_deadline
  /\ commitments[a][b] # None
  /\ ~HasRevealed(a, b)

RefundUnrevealed(a, b) ==
  /\ MayTakeBack(a, b)
  /\ commitments' = [commitments EXCEPT ![a][b] = None]
  /\ RefundBid(a, b, commitments[a][b].amount)
  /\ bidder_count' = [bidder_count EXCEPT ![a] = Greater(@ - 1, 0)]
  /\ UNCHANGED <<platform, lifecycle, status, leader, revealed_bids, refunds,
                 nft>>

BugLatestWins(a, i) ==
  LET bids == revealed_bids[a] IN
  /\ \A j \in DOMAIN bids : bids[j].amount <= bids[i].amount
  /\ \A j \in DOMAIN bids : j > i => bids[j].amount < bids[i].amount

(* The entry the winner loop stops at: only a strictly greater amount replaces
   the entry held, so the earliest reveal of the highest amount wins. *)
IsWinningEntry(a, i) ==
  LET bids == revealed_bids[a] IN
  /\ \A j \in DOMAIN bids : bids[j].amount <= bids[i].amount
  /\ \A j \in DOMAIN bids : j < i => bids[j].amount < bids[i].amount

BugCreditWinnerToo(a, b, w) ==
  IF HasRevealed(a, b)
    THEN revealed_bids[a][CHOOSE i \in DOMAIN revealed_bids[a] :
                            revealed_bids[a][i].bidder = b].amount
    ELSE 0

(* Refund credit of b when entry w wins: the amount of b's entry, of which
   RevealBid lets b have one. *)
LosingCredit(a, b, w) ==
  IF HasRevealed(a, b) /\ b # revealed_bids[a][w].bidder
    THEN revealed_bids[a][CHOOSE i \in DOMAIN revealed_bids[a] :
                            revealed_bids[a][i].bidder = b].amount
    ELSE 0

FinalizeSealedAuction(a) ==
  \E w \in DOMAIN revealed_bids[a] :
    /\ IsWinningEntry(a, w)
    /\ status[a] = "Active"
    /\ now >= listing[a].reveal_deadline
    /\ refunds' = [refunds EXCEPT ![a] =
         [b \in Bidders |-> SatAdd(refunds[a][b], LosingCredit(a, b, w))]]
    /\ highest_bidder' = [highest_bidder EXCEPT ![a] = revealed_bids[a][w].bidder]
    /\ highest_bid' = [highest_bid EXCEPT ![a] = revealed_bids[a][w].amount]
    /\ status' = [status EXCEPT ![a] = "Ended"]

-----------------------------------------------------------------------------
(* Pull-payment refunds *)

WithdrawRefund(a, b) ==
  /\ status[a] # "Absent"
  /\ refunds[a][b] > 0
  /\ refunds' = [refunds EXCEPT ![a][b] = 0]
  /\ RefundBid(a, b, refunds[a][b])
  /\ UNCHANGED <<platform, lifecycle, status, leader, sealed, nft>>

-----------------------------------------------------------------------------
(* Close and settlement *)

(* The calls that change nothing (already over, or before end_time) are
   stuttering steps. *)
CloseAuction(a) ==
  /\ status[a] \in {"Created", "Active"}
  /\ now >= end_time[a]
  /\ \/ /\ listing[a].format = "English"
        /\ status' = [status EXCEPT ![a] =
             IF highest_bidder[a] # None THEN "Ended" ELSE "Cancelled"]
        /\ UNCHANGED <<highest_bidder, highest_bid, refunds>>
     \/ /\ \/ listing[a].format = "Dutch"
           \/ listing[a].format = "SealedBid" /\ revealed_bids[a] = <<>>
        /\ status' = [status EXCEPT ![a] = "Cancelled"]
        /\ UNCHANGED <<highest_bidder, highest_bid, refunds>>
     \/ /\ listing[a].format = "SealedBid"
        /\ FinalizeSealedAuction(a)
  /\ UNCHANGED <<platform, lifecycle, end_time, last_bid_at, sealed, escrow,
                 deposited, proceeds, nft>>

(* The NFT contract moves the token only for its owner, who signs the call. *)
TransferNft(a, winner) ==
  /\ now <= approved_until[listing[a].seller]
  /\ nft_owner[listing[a].item.token] = listing[a].seller
  /\ nft_owner' = [nft_owner EXCEPT ![listing[a].item.token] = winner]

SettleAuction(a) ==
  LET bid   == highest_bid[a]
      split == CalculateSplit(bid, listing[a].royalty_bps, platform_fee_bps[a])
      token == listing[a].payment_token
  IN
  /\ status[a] = "Ended"
  /\ highest_bidder[a] # None
  /\ \/ Digital(a)  /\ TransferNft(a, highest_bidder[a])
     \/ Physical(a) /\ UNCHANGED nft_owner
  /\ SplitFits(bid, listing[a].royalty_bps, platform_fee_bps[a])
  /\ escrow[token] >= TotalPayout(split)
  /\ escrow' = [escrow EXCEPT ![token] = @ - TotalPayout(split)]
  /\ proceeds' = [proceeds EXCEPT ![a] = @ + TotalPayout(split)]
  /\ status' = [status EXCEPT ![a] = "Settled"]
  /\ UNCHANGED <<platform, lifecycle, leader, sealed, refunds, deposited,
                 approved_until>>

-----------------------------------------------------------------------------
(* Admin and environment *)

(* Each argument left out keeps the field: any combination can result. *)
UpdateConfig ==
  /\ config' \in [fee : Fees, max_royalty : MaxRoyalties, paused : BOOLEAN]
  /\ UNCHANGED <<now, lifecycle, status, leader, sealed, money, nft>>

Tick ==
  /\ now < MaxTime
  /\ now' = now + 1
  /\ UNCHANGED <<config, lifecycle, status, leader, sealed, money, nft>>

Next ==
  \/ Tick
  \/ UpdateConfig
  \/ \E l \in Listings : CreateAuction(l)
  \/ \E a \in AuctionIds :
       \/ AttestPhysicalItem(a)
       \/ ActivateAuction(a)
       \/ CancelAuction(a)
       \/ ApproveNftTransfer(a)
       \/ CloseAuction(a)
       \/ SettleAuction(a)
       \/ \E b \in Bidders :
            \/ RefundUnrevealed(a, b)
            \/ WithdrawRefund(a, b)
            \/ \E amount \in Amounts :
                 \/ PlaceBid(a, b, amount)
                 \/ RevealBid(a, b, amount)
                 \/ \E sealed_amount \in IF FaithfulBidders THEN {amount}
                                                            ELSE Amounts :
                      CommitBid(a, b, amount, sealed_amount)
            \/ \E max_price \in Amounts \cup {None} : BuyNow(a, b, max_price)

Spec == Init /\ [][Next]_vars

(* Time passes; anybody may close an auction, so somebody with a stake in it
   does; a bidder asks for the money that is his. *)
FairSpec ==
  /\ Spec
  /\ WF_vars(Tick)
  /\ \A a \in AuctionIds :
       /\ WF_vars(CloseAuction(a))
       /\ \A b \in Bidders :
            WF_vars(WithdrawRefund(a, b)) /\ WF_vars(RefundUnrevealed(a, b))

-----------------------------------------------------------------------------
(* Properties *)

RevealEntries == [bidder : Bidders, amount : Amounts]

(* Every storage entry has the shape the Rust types give it: an auction that
   exists has a listing, a leader is a bidder, balances are not negative. *)
TypeOK ==
  /\ now \in Nat
  /\ config \in [fee : Fees, max_royalty : MaxRoyalties, paused : BOOLEAN]
  /\ auction_count \in 0 .. MaxAuctions
  /\ listing \in [AuctionIds -> Listings \cup {None}]
  /\ platform_fee_bps \in [AuctionIds -> Nat]
  /\ status \in [AuctionIds -> Statuses]
  /\ \A a \in AuctionIds : status[a] # "Absent" <=> a < auction_count
  /\ \A a \in AuctionIds : status[a] # "Absent" => listing[a] \in Listings
  /\ attested \in [AuctionIds -> BOOLEAN]
  /\ highest_bidder \in [AuctionIds -> Bidders \cup {None}]
  /\ highest_bid \in [AuctionIds -> Nat]
  /\ end_time \in [AuctionIds -> Nat]
  /\ last_bid_at \in [AuctionIds -> Nat]
  /\ bidder_count \in [AuctionIds -> Nat]
  /\ revealed_bids \in [AuctionIds -> Seq(RevealEntries)]
  /\ commitments \in [AuctionIds -> [Bidders -> CommitmentRecords \cup {None}]]
  /\ refunds \in [AuctionIds -> [Bidders -> Nat]]
  /\ escrow \in [Tokens -> Nat]
  /\ approved_until \in [Sellers -> Int]
  /\ nft_owner \in [NFTs -> Sellers \cup Bidders]
  /\ deposited \in [AuctionIds -> [Bidders -> Int]]
  /\ proceeds \in [AuctionIds -> Nat]

Over(a) == status[a] \in {"Ended", "Settled", "Cancelled"}

(* What the contract still holds of b's money in auction a besides refunds:
   the sealed deposit until the auction is decided, then the winning bid. *)
SealedStake(a, b) ==
  IF commitments[a][b] = None
     \/ (status[a] \in {"Ended", "Settled"} /\ HasRevealed(a, b))
    THEN 0
    ELSE commitments[a][b].amount

WinningStake(a, b) == IF highest_bidder[a] = b THEN highest_bid[a] ELSE 0

(* Every unit a bidder paid into an auction of a digital item, and did not get
   back, is a refund it may withdraw, its sealed deposit or the bid it leads
   or won with - through outbidding, self-outbidding, reveals, finalization,
   cancellation and settlement.  Refunds credited twice, or lost, break it. *)
DepositsAccounted ==
  FaithfulBidders =>
    \A a \in AuctionIds, b \in Bidders :
      status[a] # "Absent" /\ Digital(a) =>
        deposited[a][b] = refunds[a][b] + SealedStake(a, b) + WinningStake(a, b)

(* Settlement distributes the winning bid of a digital item exactly, and once:
   seller, creator and platform together receive all of it, with the fee that
   was agreed when the auction was created. *)
ProceedsExact ==
  \A a \in AuctionIds :
    status[a] # "Absent" /\ Digital(a) =>
      proceeds[a] = IF status[a] = "Settled" THEN highest_bid[a] ELSE 0

AuctionsIn(t) ==
  {a \in AuctionIds : status[a] # "Absent" /\ listing[a].payment_token = t}

(* What auction a still owes bidder b. *)
OwedTo(a, b) ==
  refunds[a][b] + SealedStake(a, b)
    + IF status[a] = "Settled" THEN 0 ELSE WinningStake(a, b)

Owed(t) ==
  SumFunction([ab \in AuctionIds \X Bidders |->
                 IF ab[1] \in AuctionsIn(t) THEN OwedTo(ab[1], ab[2]) ELSE 0])

(* The pooled balance is exactly what all auctions of that token together owe
   their bidders: settlement, whose three transfers round down, takes the
   winning bid out of the pool and not one unit of another auction's money. *)
EscrowExact == \A t \in Tokens : escrow[t] = Owed(t)

(* Every refund the contract promises can be paid out of its balance. *)
RefundsBacked ==
  \A t \in Tokens :
    escrow[t] >= SumFunction([ab \in AuctionsIn(t) \X Bidders |->
                                refunds[ab[1]][ab[2]]])

(* No English auction is over before its rivals had the anti-snipe window to
   answer the last bid, however often bids moved the deadline. *)
NoSniping ==
  \A a \in AuctionIds :
    /\ status[a] \in {"Ended", "Settled"}
    /\ listing[a].format = "English"
    => now >= last_bid_at[a] + ANTI_SNIPE_WINDOW_SECS

(* The outcome of an auction of a digital item is final: once it is over, its
   winner, price and deadline stay and only Ended may become Settled. *)
OutcomeIsFinal ==
  [][\A a \in AuctionIds :
       Over(a) /\ Digital(a) =>
         /\ \/ status'[a] = status[a]
            \/ status[a] = "Ended" /\ status'[a] = "Settled"
         /\ highest_bidder'[a] = highest_bidder[a]
         /\ highest_bid'[a] = highest_bid[a]
         /\ end_time'[a] = end_time[a]]_vars

(* A sealed auction that was decided has the highest revealed amount as its
   price, and of equal amounts the earliest reveal won. *)
SealedWinner ==
  \A a \in AuctionIds :
    status[a] \in {"Ended", "Settled"} /\ listing[a].format = "SealedBid" =>
      LET best == {i \in DOMAIN revealed_bids[a] :
                     revealed_bids[a][i].amount = highest_bid[a]}
      IN  /\ best # {}
          /\ revealed_bids[a][Min(best)].bidder = highest_bidder[a]
          /\ \A i \in DOMAIN revealed_bids[a] :
               revealed_bids[a][i].amount <= highest_bid[a]

(* bidder_count is the number of stored commitments, so the cap on bidders is
   neither overrun nor used up by bidders who took their deposit back. *)
SeatsCounted ==
  \A a \in AuctionIds :
    status[a] # "Absent" =>
      /\ bidder_count[a] = Cardinality({b \in Bidders : commitments[a][b] # None})
      /\ listing[a].max_bidders > 0 => bidder_count[a] <= listing[a].max_bidders

(* A Dutch buyer pays at least the reserve and no more than any price the
   auction showed from its creation to the purchase. *)
DutchFair ==
  \A a \in AuctionIds :
    highest_bidder[a] # None /\ listing[a].format = "Dutch" =>
      /\ highest_bid[a] >= listing[a].reserve_price
      /\ \A t \in 0 .. last_bid_at[a] : highest_bid[a] <= DutchPriceAt(a, t)

(* A physical item is sold only after its custodian attested. *)
SoldOnlyAttested ==
  \A a \in AuctionIds :
    status[a] # "Absent" /\ Physical(a) /\ highest_bidder[a] # None => attested[a]

RevealedInCancelled(a, b) == status[a] = "Cancelled" /\ HasRevealed(a, b)

(* Nobody's money stays in the contract: whatever a bidder paid into an auction of
   a digital item, he ends up with all of it back, or as the winner with nothing
   but the winning bid in.  (Revealed bids of a cancelled sealed auction are the
   exception: see RevealersRepaid.) *)
EveryoneMadeWhole ==
  \A a \in AuctionIds, b \in Bidders :
    deposited[a][b] > 0 /\ Digital(a) ~>
      \/ Over(a) /\ deposited[a][b] = WinningStake(a, b)
      \/ RevealedInCancelled(a, b)

(* What sealed_bid.rs promises without exception: a bidder who revealed gets his
   deposit back, as a loser's refund, or wins.  The code breaks it: the seller
   may cancel after the commitments, and then neither finalization nor
   refund_unrevealed ever pays a bidder who revealed. *)
RevealersRepaid ==
  \A a \in AuctionIds, b \in Bidders :
    HasRevealed(a, b) ~> Over(a) /\ deposited[a][b] = WinningStake(a, b)

(* What types.rs says of Settled (funds distributed, item transferred): no call
   leaves that status.  The code breaks it for physical items: attesting again
   makes the auction Active, and it can be closed and settled a second time. *)
SettledIsFinal ==
  [][\A a \in AuctionIds : status[a] = "Settled" => status'[a] = "Settled"]_vars
=============================================================================
