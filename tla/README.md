# A TLA+ verification of StellarUrithi-Bidz

StellarUrithi-Bidz is an auction platform on Stellar: a Soroban contract that holds
bids in escrow, a backend that indexes the contract's events and serves them over HTTP
and WebSockets, a web front end, and a portal for custodians of physical items.
This directory models what the program does, one module per component, model-checks
small instances with TLC, and proves with TLAPS what matters most for every instance.

Contents: 1 the system; 2 the modules and how they relate; 3 to 8 the components, their
models and properties; 9 the runs; 10 bounds; 11 fairness; 12 where code and documents
disagree; 13 what is proved; 14 what is only model-checked or not modelled.

## 1. The system

| component | code | state | operations | module |
|---|---|---|---|---|
| contract: lifecycle | `contracts/auction/src/lib.rs`, `types.rs` | `Auction(id)`, the counter, `PlatformConfig` | create, attest, activate, cancel, approve, close, settle, update_config | `UrithiAuction` |
| contract: English | `english.rs` | leader, leading bid, `end_time`; `Refund(id, bidder)` | place_bid, withdraw_refund | `UrithiAuction` |
| contract: Dutch | `dutch.rs` | (leader and price) | buy_now | `UrithiAuction`, `DutchPrice` |
| contract: sealed | `sealed_bid.rs` | `Commitment`, `RevealedBid`, `revealed_bids`, `bidder_count` | commit_bid, reveal_bid, refund_unrevealed, finalization in close_auction | `UrithiAuction` |
| contract: escrow, royalties | `escrow.rs`, `royalty.rs` | its balance in each payment token | lock, refund, split, distribute | `UrithiAuction`, `RoyaltySplit` |
| contract: events | `events.rs` | none | publish | names and order in `EventIndexer` |
| indexer, database | `backend/src/indexer`, `backend/src/db` | `lastLedger`, `cursorLedger`; four tables | poll, handle an event, save and load the cursor | `EventIndexer` |
| rate limiter | `backend/src/middleware/rateLimiter.ts` | one bucket of timestamps per client, used by two limiters | check and count, clean up | `ApiGateway` |
| request authentication | `middleware/auth.ts` | `seenNonces` | check, evict | `ApiGateway` |
| REST API | `routes`, `schemas`, `middleware/validate.ts` | none | queries, simulate-bid | `ApiGateway` |
| WebSocket server | `backend/src/ws`, `index.ts` | rooms, server nonces, authenticated sockets | nonce, authenticate, join, leave, broadcast | `LiveUpdates` |
| auction page: live state | `frontend/src/hooks/useWebSocket.ts`, `app/auctions/[id]/page.tsx` | shared socket, fetched and pushed state | mount, fetch, merge | `LiveUpdates` |
| auction page: actions | `page.tsx`, `lib/stellar.ts`, `lib/crypto.ts`, `providers/wallet.tsx` | loading flags, salt in localStorage, one transaction per handler | bid, buy, commit, reveal, withdraw, settle, ... | `AuctionPage` |
| create page | `app/create/page.tsx`, `components/ui/IPFSUploader.tsx` | step, image and metadata URIs | upload, submit | `CreatePage` |
| upload routes | `app/api/ipfs/upload/route.ts` of both applications | none (Pinata stores) | POST | `Uploads` |
| custodian portal | `custodian-portal/src/app/page.tsx` | pending list, certificate and its hash | upload, attest | `CustodianPortal` |

Logging, deployment, and the remaining pages (home, my bids, admin, cards) are listed in
`PROJECT.json` and left out (section 14).

### How they interact

The front ends call the contract through `invokeContract` (build, simulate, sign, send,
poll), and the REST API for what the database holds. The contract moves payment tokens
and the NFT by cross-contract calls, which succeed or revert the whole invocation, and
emits events. The indexer polls those events page by page, writes them to the database,
and hands each to a callback that broadcasts it to WebSocket rooms, from where the
auction page merges it into what it shows. Sellers and custodians upload documents to
IPFS before the call that names them.

### What is hard

* In the contract nothing runs concurrently, but *calls of different parties come in
  any order*; time passes in between and deadlines move; one pooled balance serves
  all auctions; refunds are pulled later.
* In the backend: a crash or a failed statement between a write and the cursor's, pages
  fetched twice, a cursor that jumps; caches that forget; limits that share a bucket.
* In the front ends: two channels that race, a connection each side loses in its own
  time, answers that never come or come late, reloads in the middle of a transaction,
  uploads that outlive the page that started them.

`PROJECT.json` lists these hazards, each at its line, with the properties that cover it.

## 2. Modules

| module | models | uses |
|---|---|---|
| `I128`, `RoyaltySplit`, `DutchPrice` | amounts; `royalty.rs`; `get_current_price` | |
| `UrithiAuction` | the contract | the three above |
| `Sale` | abstract: what any auction promises its bidders | |
| `AuctionSale` | the refinement mapping from `UrithiAuction` to `Sale` | `INSTANCE Sale` |
| `EventIndexer` | indexer and tables | |
| `ApiGateway` | rate limiters, validation, authentication, routes | |
| `LiveUpdates` | WebSocket server, hook, the page's merging effects | |
| `AuctionPage` | the page's handlers and contract invocation | |
| `Uploads`, `CreatePage`, `CustodianPortal` | the upload proxies and the two pages that use them | |
| `Listing` | create page and portal together | the three above |
| `MC...` | model values and listings for TLC | |
| `...Proofs` | theorems (section 13) | |

The order of the work was: contract; its proofs; the abstract sale; indexer; gateway;
page and live updates; uploads; remaining proofs. All of it is done.

Operators named `Bug...` are variants of a definition with a plausible mistake. No
action uses them. `PROJECT.json` pairs each property of a passing run with one of them
("mutants"): put in the place of the real definition, TLC finds the property violated.

Variables called *history* record what happened for the properties to speak of. No
guard depends on them but two bounds: `LockBid` keeps `deposited` within the i128 a
token's supply fits in, and `MaxRequests` counts `admitted`. They are: `deposited`, `proceeds`, `last_bid_at`
(contract); `seen`, `failed`, `missed`, `pushed`, `at` (indexer); `admitted`,
`accepted` (gateway); `said` (auction page); `spent`, `blind`, `misled` (live updates);
`overlapped` (portal).

## 3. The contract

**State.** `Auction(id)` is split into one variable per group of fields, each a function of the
id; status `"Absent"` is an id not yet created. `listing[a]` is the `CreateAuctionParams`
record (what never changes); `end_time` is apart because bids move it, `platform_fee_bps`
because it is copied from the configuration. `RevealedBid(id, bidder)` exists exactly
when `revealed_bids` has an entry of that bidder (`HasRevealed`). `escrow[t]` is the
contract's balance in token `t`; `approved_until` and `nft_owner` stand for the NFT contract.

**Actions.** An invocation is atomic and a panic reverts it: one entry point is one action,
its asserts are guards, its writes primed variables. Shared helpers are operators
(`LockBid`, `RefundBid`, `OutbidRefunds`, `DeadlineAfterBid`, `IsWinningEntry`, ...). Callers
and inputs are chosen in `Next`; `require_auth` is part of that choice. `close_auction`
returns silently when there is nothing to close: a stuttering step.

**Abstractions.** HMAC-SHA256 under a secret salt is injective, so `Commitment(amount, a, b)`
is the message; a bidder may commit to another amount than it escrows, which
`FaithfulBidders = FALSE` allows. A payment token refuses negative transfers and overdrafts.
The NFT contract moves the token for the owner who signs (`settle_auction` has the seller's
authorization; the allowance it checks is not used up). Ledger sequence numbers advance with time.
Left out: metadata, events, storage time to live, the recipients of the three transfers (their
sum is kept), `current_dutch_price`, which nothing reads.

**Properties.** `DepositsAccounted`: every unit paid in and not back is a refund, a sealed stake
or a winning bid of the one who paid it, and one of those only. `EscrowExact`: the pooled
balance is what all auctions owe together, before, during and after settlement.
`ProceedsExact`: settlement pays out the winning bid, once, at the fee agreed at creation.
`NoSniping`, `SealedWinner`, `SeatsCounted`, `DutchFair`, `SoldOnlyAttested`, `OutcomeIsFinal`: see
their comments. `EveryoneMadeWhole`: nobody's money stays in the contract. `ImplementsSale`: next.

**The abstract sale.** `Sale` forgets formats, deadlines and refunds: a sale is open, then
sold once to one buyer at a price he has paid in, or void; the seller is paid once; a buyer
takes out what he paid in, less the price of what he won. `AuctionSale` maps each
auction of a digital item to it, and `ImplementsSale` says that every step of the contract is
a step of that sale or none. (Physical items are excepted because of disagreement 3, and
bidders who reveal more than they escrow because of 1.)

## 4. Indexer and database

**State.** `chain` is the sequence of published events with their ledgers, `height` the last closed
ledger; the tables `auctions`, `bids`, `events`, `cursor_state` with the keys their conflict
clauses use; `pc`, `lastLedger`, `cursorLedger` and the page in hand are the memory of the
process. An amount is the place of its bid in the chain, so bids differ.

**Actions.** One per await of `pollEvents`: load the cursor, find where to start without one
(`StartBlind`), fetch a page, process one event, ask for the latest ledger after an empty
page, save the cursor; plus `Publish`, `CloseLedger` and `Crash`. A handler is a sequence of
database statements (`Statements`): processing an event runs all of them or, on a failure or
crash, a prefix. Nobody else writes the tables, so a prefix at once is as good as one
statement at a time. Every fault draws on `MaxFaults`. `Publish` follows the calls of the contract
that emit the events (`Publishable`): among them, a physical item attested again after
its auction was cancelled or sold. An `auction_closed` tells winner and price (`Price`), which
the handler writes; a sealed auction's price is no earlier bid's.

**Properties.** `CursorCovers`: what the stored cursor has passed was handled, but for three
holes the code leaves: events closed between an empty page and the question for the latest ledger,
pages cut off by a failing later page, and events from before the first ledger. `missed` names them:
every event after the one handled last (`at`) that the loop has moved past, also one that an earlier
life of the process had handled, until it is handled again.
`RowsConverge`: after replay (of a crash, and of the inclusive first ledger of every next page) the
auctions row is that of a run that handled each event once. It is claimed for an auction the loop
has caught up with (`CaughtUp`): the loop is idle, no further back than it ever was, and none of the
auction's events failed or is `missed`. That last condition matters: a replayed `auction_created`
resets the row, and when the events after it are then moved past the row stays reset, although an
earlier life had handled them. It takes more events and faults than the run has; the proof led to it. `BidsComplete`: replay loses
no bid. `PushedIsReadable`: the auction that a client was told of, and the very bid, are in the tables the API
reads, whatever happens afterwards. `Ingested`: a passed event has one of its ledger, type and auction in
the events table, unless its handler failed or the loop moved past it. That is less than the exactly-once
ingestion the documents claim (`HandledIsRecorded`, disagreement 4; for the events a second one in its ledger
drops, those that are skipped and the bids that are doubled see the end of section 12).
`CatchesUp`: the loop gets past every ledger.

`LedgerFitsPage` assumes that one ledger has fewer events than a page: otherwise the next
page starts at the same ledger and the loop never leaves it.

## 5. Gateway

A request's middleware runs without an await and a route reads the database once, so a request
is one action: limiter, validation, authentication, strict limiter, handler, in the order of
the route. Both limiters keep timestamps in one bucket; a strict request is counted by both.
`Tick`, the periodic clean-up of either store, and a restart are the environment. For `simulate-bid` there is
one auction, digital or physical, with the calls of the contract that its status depends on
(`Create`, `AttestPhysicalItem`, ..., `SettleAuction`; each repeats what `UrithiAuction` has of it), and its
row, which the indexer sets to any earlier state of it (`Index`): one that lags, is replayed, or
has missed a statement. `told` holds the statuses that its events have given so far.

`BudgetHeld`: no window lets more through than the limit (and strict requests get half of theirs).
`RetryAfterSuffices`: whom the default limiter refuses it admits after waiting as told. The strict limiter does not
keep its own Retry-After, since it counts from the oldest timestamp of a bucket that the
default limiter fills too; no document says that it does. `NonceOnce`: a nonce not stamped ahead of the
server's clock is accepted once in the life of a process, although the cache forgets it (a nonce
stamped ahead may be accepted twice: it is still fresh when it is forgotten).
`NoFalseRefusal`: what `simulate-bid` refuses the contract would refuse too, with one exception that the property
names: an auction of a physical item that was cancelled and then attested takes bids again,
while its row stays cancelled.

## 6. Live updates

One tab with its one shared socket, the server, and the page. Channels `up` and `down` are in order
and die with their connection; either side notices on its own. HTTP answers (`answers`) come in any
order. Effects of `useWebSocket` (join on mount or connect, leave on unmount, the buffer
of socket.io for what is emitted while disconnected) and of the page are actions; so are nonce requests
and both ways to authenticate, on any connection the server holds, this tab's or another's. The page's three merging effects are
one action, `Effects`: each depends on the auction, which it replaces by a new object, so one run sets off the
next, and it may run any number of times after an answer or event. It merges by `Merged`; the list of bids,
into which every run puts the latest bid once more, is left out.

`RoomsFollowPage`, `JoinsRoom`: the tab is in the room of its page, and gets there after every connection.
`BiddersAuthenticated`, `ChallengeOnce`: see their comments.
`ViewCatchesUp`: when nothing is under way (`Quiet`) the page shows its auction's row, whatever overtook
what. The page does fall behind, and `blind` says when: an event of its auction was not sent to it, or lost
with its connection, after it had asked or while older ones were coming; events of an earlier visit were
still coming when it opened; an event of another auction, of the page left before, took the place of one it
had kept (one state variable holds the last event of a type, whatever its auction). `misled`
is for one status only: `onCancelled` does not look whose cancellation it is, so that of the auction just left makes
the page show its own as closed.
Auction 0 is one of the contract's ids, yet `Live(0)` is false: the hook treats it as none.

## 7. Auction page

Every await of a handler is a step: build, simulate, sign, send, poll. The network answers late,
loses replies and drops transactions; a reload clears React state and leaves localStorage
and the transaction. Sequence numbers order an account's transactions.

`SaltSaved`: whenever the contract holds a commitment, the browser still has a salt for it, and its
own unless commit was clicked again since: a second click, which the contract refuses, overwrites the
salt first. Without the salt a bid cannot be revealed; its deposit comes back
through `refund_unrevealed`, for which the page has no button. `ErrorsAreHonest`: a message that nothing was sent is
true. `LoadingEnds`: buttons come back. `SavedBidOpens` is violated (disagreement 5).

## 8. Listing and attesting

`CreatePage`: the three steps, two upload widgets that unmount with the step while their
uploads go on, one submission. `CustodianPortal`: the pending list, one certificate held for
all items, the hash kept before the upload is awaited, the attestation. `Listing` runs both: what one
lists appears, some time later, for the other. `ListedIsStored` and `AttestedIsStored`: what is named
on chain was stored on IPFS. Two certificates hashed or uploaded at once may
leave the hash of one with the file of the other: `AttestedIsStored` is stated where that did not
happen (`overlapped`).

## 9. Runs

| run | result | what it shows |
|---|---|---|
| `one_auction` | passes | every call on one auction of each format, with two bidders and the seller's own account; all contract properties but `EscrowExact`, the refinement and `EveryoneMadeWhole` |
| `shared_escrow` | passes | two auctions of any formats share a balance, an NFT and its approval: `EscrowExact` |
| `unfaithful` | violated | `RefundsBacked`: a bidder reveals more than it escrowed |
| `cancelled_sealed` | violated | `RevealersRepaid`: a sealed auction is cancelled after reveals |
| `reattested` | violated | `SettledIsFinal`: a second attestation |
| `indexer` | passes | four events of six types in three ledgers, two faults at any statement: all properties of section 4 |
| `contract_events` | violated | `HandledIsRecorded`, without any fault, under the event names the contract publishes |
| `gateway` | passes | one client, limits of 4 and 3 in a window of 2: limiters and nonces; an auction of either kind through all its calls, with a row that lags: `NoFalseRefusal` |
| `auction_page` | passes | three clicks and a reload: section 7 |
| `sealed_from_page` | violated | `SavedBidOpens` |
| `live` | passes | auctions with a room and without over two connections; two auctions with events and two answers to a page, those meant for the page left before among them; two addresses and two nonces on two sockets: all properties of section 6 |
| `listing` | passes | three uploads of the seller's that fail, overlap and outlive their page; two items, two attestations, two certificates of the custodian's: section 8 |

Deadlock checking is off: the contract can always be reconfigured, and elsewhere a state
without successors is one in which a bound is used up or the visitor has finished.

## 10. Bounds

* Contract. `MaxAuctions` 1 or 2: auctions interact only through the balance, the NFT, its
  approval and the configuration, which two exercise. `MaxTime` 5 to 8, for windows of 2 and
  phases of 1 to 2: enough to extend a deadline repeatedly and to go through commit,
  reveal, close and late refunds. Three accounts and amounts up to 5 give outbidding,
  self-outbidding, ties and a full auction; rates of 25 and 30 % make both divisions
  round. `Listings` has a negative Dutch reserve, and no instance reaches `I128_MAX` (the proofs
  cover saturation). In `shared_escrow` bidders are taken up to symmetry (an invariant only).
* Indexer. `BatchSize` 3 and at most 2 events per ledger: a page ends inside and between
  ledgers. Four events make two pages with their overlap; two faults give a crash during the
  recovery from another. `LOOKBACK` 1 leaves events before the first ledger.
* Gateway. Limits 4 and 3, window 2, nonce age 2, skew 1, clock to 4, five requests: a budget is used
  up, freed and used again, and a nonce outlives its entry in the cache. Four
  amounts at an increment of 2: raises that suffice and that do not. The limiters do not look at the auction, so
  the two are not multiplied: in the states with an auction the clock is at 0 and at most two requests were made
  (`Apart` of `MCApiGateway`, a constraint).
* Auction page. `Methods` are a commit, a reveal and a withdrawal, which cover both flags and the
  salt; `MAX_ATTEMPTS` 1 for 15, since a poll only repeats; three clicks, one reload.
* Live updates. Two auctions with a room and one without, three visits, two connections: one is lost, by either
  side first, and the next must lead into the room again. Two requests per visit, so that two answers arrive in either
  order; one bid per auction and three events in all. Two addresses and two nonces on two
  connections that may both stand: one nonce is overwritten by the other. `RECONNECTION_ATTEMPTS` is 2 for 10, so that one
  attempt may fail.
  These do not all meet in one behaviour (`Apart` of `MCLiveUpdates`, conjoined with `Next`): a third visit, a
  page without a room and failed attempts are explored without events or requests, authentication on the
  sockets of one visit; over a second connection there are two events and no second request starts. None of the fair
  actions is held back, so `JoinsRoom` is not helped by it.
* Listing. One image, three uploads (image, metadata, another metadata), two visits, two submissions; two
  auctions, two certificates, two attestations. A seller who uploads twice or comes back meets a custodian with one
  certificate and one attestation, and the other way round (`Apart` of `MCListing`, a constraint): what they do meets in
  the contract only. `Load`'s guard that something was submitted leaves out a portal opened before, which shows the same.

## 11. Fairness

* `UrithiAuction!FairSpec`: `Tick` (ledgers close), `CloseAuction` (anybody may call it, so somebody with
  a stake does), `WithdrawRefund` and `RefundUnrevealed` (a bidder asks for his money). Nothing of
  the seller, custodian, admin or other bidders; no settlement, which needs the seller's approval.
* `EventIndexer!FairSpec`: the loop (its timer is re-armed in a `finally`, and a crashed
  process is restarted) and the closing of ledgers; nothing of who publishes. Faults are finitely many.
* `AuctionPage!FairSpec`: each await of a running handler returns; the visitor need not click.
* `LiveUpdates!FairSpec`: the client reconnects, a dead connection is noticed by timeout, messages on
  a live connection are read. `JoinsRoom` allows for a client that has given up.
* None for the gateway and `Listing`, which have safety properties only.

## 12. Disagreements between code and documents

1. `reveal_bid` never compares the revealed amount with the escrowed one, and finalization credits and
   settles the revealed amount (`unfaithful`). Results about money are for bidders that commit to what
   they escrow.
2. `cancel_auction` accepts a sealed auction with commitments and reveals; then nothing repays who
   revealed (`cancelled_sealed`). `EveryoneMadeWhole` excludes them.
3. `attest_physical_item` reopens an auction in any status, a settled one too, from where it is
   closed and settled again out of the pooled balance (`reattested`). Money and finality are therefore stated for digital items.
4. The indexer's handlers and the broadcasts are keyed by `auction_created`, `bid_placed`, ...; the
   contract publishes `auc_new`, `bid_new`, ... (`contract_events`). Beyond what the run shows, the
   handlers read named fields where the payloads are tuples with the bidder among the topics, and the
   filter asks for exactly three topics where `auc_ext`, `auc_set` and `nft_appr` have two. The other
   results of section 4 assume events under the handlers' names (`NamedEvents`).
5. `computeCommitment` hashes auction, bidder, amount; the contract hashes amount, auction, bidder
   (`sealed_from_page`): no bid committed from the page can be revealed.

Noticed while modelling, but the subject of no run. Of the first seven TLC shows a counterexample as soon as the exception
that the property named openly makes for it is dropped:

* indexer: after an empty page the cursor goes on from the latest ledger, asked for afterwards, and what closed in
  between is never handled (`CursorCovers`); the unique index on events has one place per ledger, type and
  auction, so a second bid in a ledger is not recorded (`Ingested`); bids have no unique index, and the page after
  a full one inserts those of its first ledger again (`BidsComplete`). `SECURITY.md` claims
  "exactly-once ingestion semantics", which fails here as it does in 4;
* gateway: `simulate-bid` refuses bids on an auction whose row is cancelled, and one attested since takes them
  (`NoFalseRefusal`);
* auction page: `onCancelled` closes the page on display, whichever auction was cancelled (`ViewCatchesUp`); the salt is stored
  before the commitment is sent, over one that is in use (`SaltSaved`);
* portal: the hash of a certificate that is not on IPFS may be attested when two overlap (`AttestedIsStored`);
* a nonce stamped ahead of the server's clock may be accepted twice (section 5), where `SECURITY.md` says none can be
  reused; the strict limiter's Retry-After is too short;
* the effect that applies a pushed bid depends on what it writes and runs without end, listing the bid each time;
  a transaction still pending after 15 polls is reported as a success; the auction page has no button for
  `refund_unrevealed`;
* the create page says of the image on display that the metadata references it; it may have been replaced since;
* the id schema and the hook refuse auction 0, the contract's first;
* the page of one's own bids calls `useBidderSocket` without a signer, so that no tab ever authenticates and bidder
  rooms stay empty; it does not clear its bids when the account changes, so that a request that fails or is overtaken
  leaves those of the other account there;
* `is_winning` is false for every bid once `updateAuctionOnBid` has run; the upload route's limit of 30 per minute
  counts in windows that start anew, so that two bursts around the end of one nearly double it; the portal
  ignores `item_type` and shows demo items when the backend has none.

## 13. What is proved

Every safety invariant and action property that a passing run checks is also a theorem: it holds
for every value of the constants that satisfies the named assumptions. What the proofs cite of
those:

* contract: `ListingsAssumption`, `AmountsAssumption`, `FeesAssumption`, `BoundsAssumption`,
  `I128Assumption` (shapes and ranges), `TimesAssumption` (an extension is at least a window long; in
  the code they are equal), `NoneAssumption`. Theorems about money assume `FaithfulBidders`
  (disagreement 1); `EscrowExactHolds` and `RefundsBackedIfFaithful` also finitely many bidders and digital items
  (disagreement 3);
* indexer: `SizesAssumption`, `TypesAssumption` (the types of `EventTypes` have handlers),
  `NoneAssumption` (a missing row is not a row); `IngestedIfNamed` also assumes
  `NamedEvents`, since it is false otherwise (disagreement 4). Nothing needs `LedgerFitsPage`;
* gateway: `WindowsAssumption`, `LimitsAssumption`, `NoncesAssumption`, `AuctionAssumption`, `TimeAssumption`;
  live updates and auction page: `BoundsAssumption`, `NoneAssumption` of each (ranges, and that nothing
  else equals `None`);
* create page and portal: `CreateBounds`, `PortalBounds`, `ItemsAssumption`, `ItemsAreAuctions`.

| theorem | states | inductive invariant, and why it is needed |
|---|---|---|
| `TypeCorrect` | `TypeOK` of the contract | `TypeOK` itself: it includes that an id exists exactly when it is below the counter |
| `NoSnipingHolds` | `NoSniping` | `DeadlineInv`: a led English auction's deadline is a window after its last bid, and has passed when it is over |
| `OutcomeIsFinalHolds` | `OutcomeIsFinal` | none beyond `TypeOK`: every action leaves what is over alone |
| `DepositsAccountedHolds` | `DepositsAccounted` | `AccountingInv`: each reveal has its commitment with that amount, Dutch and sealed auctions have no leader while open, deposits fit an i128 so refunds do not saturate |
| `ProceedsExactHolds` | `ProceedsExact` | `ProceedsInv`: the rates of an existing auction fit; with `SplitPaysTheBid` |
| `EscrowExactHolds` | `EscrowExact` | `PoolInv`: the pool is a sum over auctions and bidders, and every entry point changes the terms of one auction only; with `AccountingInv` |
| `RefundsBackedIfFaithful` | `RefundsBacked` | `EscrowExact`: what the pool holds beside the refunds is not negative. The run `unfaithful` shows that the assumption is needed |
| `SoldOnlyAttestedHolds` | `SoldOnlyAttested` | `OutcomeInv`, part `NothingUnattested`: an unattested physical auction was never open, so has no bid, reveal or commitment that could make a leader |
| `SeatsCountedHolds` | `SeatsCounted` | `OutcomeInv`, part `Seated`: the set of committers is finite and counted |
| `SealedWinnerHolds` | `SealedWinner` | `OutcomeInv`, part `BestWon`: the winning entry is there and the reveal deadline has passed, so none is added |
| `DutchFairHolds` | `DutchFair` | `OutcomeInv`, part `PaidShownPrice`: the price paid is that of the moment and the schedule was accepted; with `DutchPriceFalls` |
| `SplitPaysTheBid`, `DutchPriceFalls` | the pure arithmetic | |
| `AuctionImplementsSale` | `FaithfulBidders` implies `Spec => ImplementsSale` | `TypeOK` and `AccountingInv`: a winner has paid his price in |
| `CursorNeverAhead` | `CursorCovers` | `IInv`: the chain is ordered by ledger, the loop's variables fit its `pc`, what lies at or below `lastLedger` or before the page in hand is seen or missed, and a page ends where `full` says |
| `IndexerTypes` | `TypeOK` of the indexer | with `IInv`: a page lies inside the chain; a handler, whatever part of it ran, leaves rows and bids of their types |
| `PushedIsReadableHolds` | `PushedIsReadable` | with `IInv` and the types: no handler takes away a row, nor a bid but for its flags, and nothing is pushed before its handler ended |
| `IngestedIfNamed` | `Ingested` | `Records`: what was handled without failing has its key in `events` |
| `RowsConvergeHolds`, `BidsCompleteHolds` | `RowsConverge`, `BidsComplete` | `Replayed`, see below |
| `GatewayTypes`, `BudgetHeldHolds`, `RetryAfterHolds`, `NoFalseRefusalHolds` | `TypeOK`, `BudgetHeld`, `RetryAfterSuffices`, `NoFalseRefusal` | `TypeInv`: histories are finite and numbered, no bucket holds a later time. `BudgetInv`: the bucket still counts every admitted request that a later window may hold (`Backed`), whatever the two limiters prune. `RefusalInv`: the row's status was told by an event, what closed or settled is over for good, a digital auction stays cancelled, and bids only rise |
| `NoReplay` | `NonceOnce` | `NonceInv`: an accepted nonce is in the cache or older than the maximum age |
| `LiveTypes`, `RoomsFollowPageHolds`, `ViewCatchesUpHolds`, `BiddersAuthenticatedHolds`, `ChallengeOnceHolds` | the invariants of section 6 | `ConnsInv`, `RoomsInv`: a room is followed through the joins and leaves still under way. `ViewInv`: unless the page is blind, the view is the row once what is under way has arrived (`Tracks`), or closed if it is misled. `NonceInv`: a stored nonce is unspent and has one address |
| `PageTypes`, `SaltSavedHolds`, `ErrorsAreHonestHolds` | the invariants of section 7 | `PageInv`: what each handler has in flight (`GoodJob`), the salt of every commitment sent is covered (`SaltInv`), a sequence number counts the transactions applied (`SequenceInv`) |
| `ListingTypes`, `ListedIsStoredHolds` | `TypeOK`, `ListedIsStored` | `CreateInv`: what is held, submitted or names an image was stored |
| `AttestedIsStoredHolds` | `AttestedIsStored` | `PortalInv`: with one file at a time, none is held while it is processed, and the hash on display is its hash |

An invariant is proved in the same way everywhere: one lemma for the initial state, one per
action for the auction (event, request) the action is about, a frame lemma for the others, a lemma
that collects the actions of `Next`, and the temporal step. The refinement has a lemma per
entry point that says which step of `Sale` it is.

**Replay.** While events are handled again, a row mixes values of different ages: `auction_created` has reset it and
only some of what followed has run once more. So `RowsConverge` says nothing of the states in
between, and the invariant must. `Stands`: for every auction and every place `m` up to the event
handled last, if none of the auction's first `m` events was lost, each column of its row has the value that the
ideal row has at `m` or after a later event of that auction already handled, and each of its bids is in the table as
it is there or later. A replayed handler sets the columns it sets to their value at its own
place, whatever the row was; one that fails or crashes half-way counts as handled too, so that what it wrote
is accounted for. `PassedIsMissed` says that the loop leaves nothing behind unnoticed, and `Created`
that an auction's first event is its creation, so an update finds a row. When the loop has
caught up nothing later than `at` is handled, every column has the ideal value at `at`, and
no event of the auction lies between `at` and `lastLedger` (`CaughtUpStands`). `Stands` and the others were
checked by TLC, on the run's bounds and on larger ones, before they were proved.

**Recursion and sums.** `RunHandler` and `Ideal` are recursive functions and the pool is a sum of the
community modules. Without an induction rule the proofs use that a non-empty set of numbers has
a least one, and one of finite sets a smallest (`Induction`): a least counterexample is led to a
contradiction. This way functions that satisfy a recursive equation are shown to exist up to every bound (`FoldsExist`,
`RunUnfolds`), properties to go from place to place (`PlaceByPlace`), and a sum to change by what one of
its terms changes by.

| proof module | about |
|---|---|
| `Induction` | least numbers and sets, recursive functions, sums over finite sets |
| `UrithiAuctionProofs` | the split and the Dutch price, types, deadlines and finality, deposits, proceeds and the pool |
| `OutcomeProofs` | winners, prices, seats, attestation; the refinement |
| `EventIndexerProofs` | the loop and its cursor; handlers, ideal tables, types, records, replay |
| `ApiGatewayProofs` | buckets, the replay cache, `simulate-bid` |
| `LiveUpdatesProofs` | rooms, view, authentication |
| `AuctionPageProofs` | salts, messages |
| `ListingProofs` | the create page and the portal |

## 14. What is only model-checked, and what is not modelled

Only model-checked: the liveness properties (`EveryoneMadeWhole`, `CatchesUp`, `LoadingEnds`, `JoinsRoom`),
which need fairness and ENABLED and are beyond the prover.

Not modelled:

* logging and deployment: no state a property could be about;
* the home and my-bids pages, cards and navigation bar: they show the last answer to a query and write
  nothing; the admin page: it says "Platform configuration updated!" and calls nothing;
* the front end's upload route limits uploads per address; `Uploads` lets any request fail instead;
* payloads of events but for winner and price of `auction_closed` (see disagreement 4), metadata and form fields;
* a handler of the auction page that is still running after a navigation inside the application: it goes on, and
  writes to a page that is gone; in the model only a reload leaves the page, which ends the handler;
* the auction page's list of bids, which nothing else reads, and the sealed commitments and reveals among the events,
  which have no handler;
* the contract's queries, the time to live of its storage entries, and `refund_losing_sealed_bids`, which nothing calls;
* settlement that never comes (an NFT approval that expired after the hammer, an NFT sold by another
  listing): the model has those states, and `EveryoneMadeWhole` leaves the winning bid in, since no document promises otherwise;
* the client half of `useBidderSocket`: the server half is in `LiveUpdates`, and no tab asks for it
  (section 12).
