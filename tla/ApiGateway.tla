----------------------------- MODULE ApiGateway -----------------------------
(***************************************************************************)
(* The REST API of the backend: the rate limiters                           *)
(* (backend/src/middleware/rateLimiter.ts), request validation, signature   *)
(* authentication with its replay cache (middleware/auth.ts), and the       *)
(* routes (routes/auctions.ts) over the row of one English auction, which   *)
(* lags behind the contract.                                                *)
(*                                                                         *)
(* The middleware of a request runs without an await, and a route reads the *)
(* database once, so a request is one action.  Both limiters keep their     *)
(* timestamps in one bucket per client.                                     *)
(***************************************************************************)
EXTENDS Integers, Sequences, FiniteSetsExt

CONSTANTS
  Clients,            \* what the key generator makes of a request
  Addresses, Randoms, \* a nonce is "timestamp" or "timestamp:random"
  DEFAULT_MAX_REQUESTS, DEFAULT_WINDOW_MS,
  STRICT_MAX_REQUESTS, STRICT_WINDOW_MS,
  AUTH_NONCE_MAX_AGE_MS, CLOCK_SKEW_MS,
  Items,              \* what the auction may sell: "digital", "physical"
  Amounts, Reserve, MinIncrement,   \* its terms and the bids proposed
  MaxTime,            \* bound: the clock
  MaxRequests,        \* bound: requests
  None

(* Both limiters prune the shared bucket, each with its own window. *)
ASSUME WindowsAssumption ==
  /\ DEFAULT_WINDOW_MS \in Nat \ {0}
  /\ STRICT_WINDOW_MS = DEFAULT_WINDOW_MS
ASSUME LimitsAssumption ==
  /\ DEFAULT_MAX_REQUESTS \in Nat \ {0} /\ STRICT_MAX_REQUESTS \in Nat \ {0}
  /\ STRICT_MAX_REQUESTS <= DEFAULT_MAX_REQUESTS
ASSUME NoncesAssumption == AUTH_NONCE_MAX_AGE_MS \in Nat /\ CLOCK_SKEW_MS \in Nat
ASSUME AuctionAssumption ==
  /\ Items \subseteq {"digital", "physical"}
  /\ Amounts \subseteq Nat \ {0} /\ Reserve \in Nat \ {0} /\ MinIncrement \in Nat
ASSUME TimeAssumption == MaxTime \in Nat /\ MaxRequests \in Nat

Times  == 0 .. MaxTime
Nonces == [address : Addresses, stamp : Times, random : Randoms]

RowStatuses == {"created", "active", "closed", "settled", "cancelled"}
Auctions == [status : {"Created", "Active", "Ended", "Settled", "Cancelled"},
             item : Items,
             over : BOOLEAN,          \* the deadline is past
             bids : SUBSET Amounts]   \* bids accepted so far
ASSUME NoneAssumption == None \notin Auctions

VARIABLES
  now,
  store,        \* rateLimiter.ts: client -> timestamps in its bucket
  seenNonces,   \* auth.ts: the replay cache, a set of [nonce, at]
  contract,     \* the auction on chain, or None
  told,         \* the statuses its events so far give the row
  row,          \* its row in the database, or None before it is indexed
  answer,       \* the last response, until the auction or its row change: [status, amount]
  \* history since the process started
  admitted,     \* requests a limiter let through: [n, client, at, by]
  accepted      \* requests auth let through: [n, nonce, at]

auction == <<contract, told>>
vars == <<now, store, seenNonces, auction, row, answer, admitted, accepted>>

-----------------------------------------------------------------------------
(* Rate limiting. *)

(* timestamps.filter((t) => at - t < window), for every prefix of the bucket. *)
Kept(bucket, window, at) ==
  LET kept[i \in 0 .. Len(bucket)] ==
        IF i = 0 THEN <<>>
        ELSE IF at - bucket[i] < window THEN Append(kept[i - 1], bucket[i])
        ELSE kept[i - 1]
  IN  kept

FreshAt(bucket, window, at) == Kept(bucket, window, at)[Len(bucket)]

BugFresh(bucket, window) == FreshAt(bucket, window - 1, now)

Fresh(bucket, window) == FreshAt(bucket, window, now)

BugHasRoom(bucket, max) == Len(bucket) <= max
HasRoom(bucket, max)    == Len(bucket) < max

(* The bucket once the default limiter, or the strict limiter after it, has pruned it. *)
Pruned(c) == Fresh(store[c], DEFAULT_WINDOW_MS)
Passed(c) == Append(Pruned(c), now)
Strict(c) == Fresh(Passed(c), STRICT_WINDOW_MS)

Limited(c)       == ~HasRoom(Pruned(c), DEFAULT_MAX_REQUESTS)
StrictLimited(c) == Limited(c) \/ ~HasRoom(Strict(c), STRICT_MAX_REQUESTS)

Admission(c, by) ==
  [n |-> Cardinality(admitted) + 1, client |-> c, at |-> now, by |-> by]

(* app.use(defaultRateLimiter): every request. *)
DefaultLimiter(c) ==
  IF Limited(c)
  THEN /\ store' = [store EXCEPT ![c] = Pruned(c)]
       /\ UNCHANGED admitted
  ELSE /\ store' = [store EXCEPT ![c] = Passed(c)]
       /\ admitted' = admitted \union {Admission(c, "default")}

(* strictRateLimiter, behind the default limiter: the request is counted twice. *)
BothLimiters(c) ==
  IF Limited(c) \/ StrictLimited(c)
  THEN /\ store' = [store EXCEPT ![c] = IF Limited(c) THEN Pruned(c) ELSE Strict(c)]
       /\ admitted' = IF Limited(c) THEN admitted
                      ELSE admitted \union {Admission(c, "default")}
  ELSE /\ store' = [store EXCEPT ![c] = Append(Strict(c), now)]
       /\ admitted' = admitted \union {Admission(c, "strict")}

-----------------------------------------------------------------------------
(* Authentication: stellarAuthMiddleware. *)

FreshNonce(nonce) ==
  /\ now - nonce.stamp <= AUTH_NONCE_MAX_AGE_MS
  /\ nonce.stamp - now <= CLOCK_SKEW_MS

Replayed(nonce) == \E s \in seenNonces : s.nonce = nonce

(* signed: the headers are there and the signature is the address's. *)
Authenticates(nonce, signed) == FreshNonce(nonce) /\ ~Replayed(nonce) /\ signed

Accept(nonce) ==
  /\ seenNonces' = seenNonces \union {[nonce |-> nonce, at |-> now]}
  /\ accepted' = accepted \union
       {[n |-> Cardinality(accepted) + 1, nonce |-> nonce, at |-> now]}

-----------------------------------------------------------------------------
(* Routes.  The row of auction 1 is the only one; auctionIdSchema refuses id 0. *)

Ids == 0 .. 2
ValidId(id) == id > 0
Row(id) == IF id = 1 THEN row ELSE None

Reply(status) == answer' = [status |-> status, amount |-> None]
ReplyTo(amount, status) == answer' = [status |-> status, amount |-> amount]

BugMinRequired(r) ==
  IF r.highest = 0 THEN Reserve + MinIncrement ELSE r.highest + MinIncrement
MinRequired(r) == IF r.highest = 0 THEN Reserve ELSE r.highest + MinIncrement

(* Bounds the requests of a process and says what else is left alone. *)
Request == /\ Cardinality(admitted) < MaxRequests
           /\ UNCHANGED <<now, auction, row>>

(* GET /, /bids, /analytics, /health, /:id, /:id/bids, POST /simulate-create: the
   query parses or not, the database answers or not. *)
Read(c, id, valid) ==
  /\ Request /\ DefaultLimiter(c)
  /\ IF Limited(c) THEN Reply("429")
     ELSE IF ~valid \/ ~ValidId(id) THEN Reply("400")
     ELSE \/ Reply("500")
          \/ Reply(IF Row(id) = None THEN "404" ELSE "200")
  /\ UNCHANGED <<seenNonces, accepted>>

(* POST /:id/simulate-bid *)
SimulateBid(c, id, amount) ==
  /\ Request /\ DefaultLimiter(c)
  /\ IF Limited(c) THEN Reply("429")
     ELSE IF ~ValidId(id) THEN Reply("400")
     ELSE \/ Reply("500")
          \/ Row(id) = None /\ Reply("404")
          \/ /\ Row(id) # None
             /\ ReplyTo(amount,
                  IF row.status \notin {"active", "created"} THEN "not accepted"
                  ELSE IF amount < MinRequired(row) THEN "too low"
                  ELSE "valid")
  /\ UNCHANGED <<seenNonces, accepted>>

(* POST / and POST /:id/bids: limiters, validation, authentication, then the route,
   which changes nothing. *)
SignedPost(c, id, nonce, valid, signed) ==
  /\ Request /\ BothLimiters(c)
  /\ LET through == ~StrictLimited(c) /\ valid /\ ValidId(id) IN
     /\ IF through /\ Authenticates(nonce, signed)
        THEN Accept(nonce)
        ELSE UNCHANGED <<seenNonces, accepted>>
     /\ IF StrictLimited(c) THEN Reply("429")
        ELSE IF ~through THEN Reply("400")
        ELSE IF ~Authenticates(nonce, signed) THEN Reply("401")
        ELSE Reply("500") \/ Reply(IF Row(id) = None THEN "404" ELSE "201")

-----------------------------------------------------------------------------
(* Timers and the clock. *)

CleanBuckets ==
  /\ store' = [c \in Clients |-> Fresh(store[c], DEFAULT_WINDOW_MS)]
  /\ UNCHANGED <<now, seenNonces, auction, row, answer, admitted, accepted>>

BugExpired(s) == now - s.at >= AUTH_NONCE_MAX_AGE_MS
Expired(s)    == now - s.at > AUTH_NONCE_MAX_AGE_MS

CleanNonces ==
  /\ seenNonces' = {s \in seenNonces : ~Expired(s)}
  /\ UNCHANGED <<now, store, auction, row, answer, admitted, accepted>>

Tick ==
  /\ now < MaxTime
  /\ now' = now + 1
  /\ UNCHANGED <<store, seenNonces, auction, row, answer, admitted, accepted>>

(* The process restarts: both caches are in memory. *)
Restart ==
  /\ store' = [c \in Clients |-> <<>>]
  /\ seenNonces' = {}
  /\ admitted' = {} /\ accepted' = {}
  /\ answer' = None
  /\ UNCHANGED <<now, auction, row>>

-----------------------------------------------------------------------------
(* The contract.  A call leaves the auction as new and publishes an event whose
   handler gives the row one of these statuses. *)

Call(new, statuses) ==
  /\ contract' = new
  /\ told' = told \union statuses
  /\ answer' = None
  /\ UNCHANGED <<now, store, seenNonces, row, admitted, accepted>>

Is(statuses) == contract # None /\ contract.status \in statuses

(* create_auction; its start_time comes before anything else does. *)
Create(item) ==
  /\ contract = None
  /\ Call([status |-> "Created", item |-> item, over |-> FALSE, bids |-> {}], {"created"})

ActivateAuction ==
  /\ Is({"Created"}) /\ contract.item = "digital"
  /\ Call([contract EXCEPT !.status = "Active"], {})

(* The custodian attests the item, whatever the auction's status is. *)
AttestPhysicalItem ==
  /\ contract # None /\ contract.item = "physical"
  /\ Call([contract EXCEPT !.status = "Active"], {})

EndTime ==
  /\ contract # None /\ ~contract.over
  /\ Call([contract EXCEPT !.over = TRUE], {})

HighestBid == Max({0} \union contract.bids)

(* english::place_bid accepts amount. *)
Acceptable(amount) ==
  /\ Is({"Active"}) /\ ~contract.over
  /\ amount >= Reserve /\ amount >= HighestBid + MinIncrement

PlaceBid(amount) ==
  /\ Acceptable(amount)
  /\ Call([contract EXCEPT !.bids = @ \union {amount}], {"active"})

CancelAuction ==
  /\ Is({"Created", "Active"}) /\ contract.bids = {}
  /\ Call([contract EXCEPT !.status = "Cancelled"], {"cancelled"})

CloseAuction ==
  /\ Is({"Created", "Active"}) /\ contract.over
  /\ IF contract.bids = {}
     THEN Call([contract EXCEPT !.status = "Cancelled"], {"cancelled"})
     ELSE Call([contract EXCEPT !.status = "Ended"], {"closed"})

SettleAuction ==
  /\ Is({"Ended"})
  /\ Call([contract EXCEPT !.status = "Settled"], {"settled"})

(* The indexer writes what the auction was at some earlier time: it lags, a replay
   goes back, and a handler that failed leaves a column behind. *)
Index(status, highest) ==
  /\ contract # None
  /\ status \in told
  /\ highest \in {0} \union contract.bids
  /\ status = "created" => highest = 0
  /\ status \in {"active", "closed"} => highest > 0
  /\ row' = [status |-> status, highest |-> highest]
  /\ answer' = None
  /\ UNCHANGED <<now, store, seenNonces, auction, admitted, accepted>>

Init ==
  /\ now = 0
  /\ store = [c \in Clients |-> <<>>]
  /\ seenNonces = {}
  /\ contract = None
  /\ told = {}
  /\ row = None
  /\ answer = None
  /\ admitted = {} /\ accepted = {}

Next ==
  \/ \E c \in Clients :
       \/ \E id \in Ids, valid \in BOOLEAN : Read(c, id, valid)
       \/ \E id \in Ids, amount \in Amounts : SimulateBid(c, id, amount)
       \/ \E id \in Ids, nonce \in Nonces, valid, signed \in BOOLEAN :
            SignedPost(c, id, nonce, valid, signed)
  \/ CleanBuckets \/ CleanNonces \/ Tick \/ Restart
  \/ \E item \in Items : Create(item)
  \/ \E amount \in Amounts : PlaceBid(amount)
  \/ ActivateAuction \/ AttestPhysicalItem \/ EndTime
  \/ CancelAuction \/ CloseAuction \/ SettleAuction
  \/ \E status \in RowStatuses, highest \in {0} \union Amounts : Index(status, highest)

Spec == Init /\ [][Next]_vars

-----------------------------------------------------------------------------
(* Properties. *)

Statuses == {"200", "201", "400", "401", "404", "429", "500",
             "not accepted", "too low", "valid"}

(* Type invariant; a bucket never holds more than the default limiter's maximum. *)
TypeOK ==
  /\ now \in Times
  /\ store \in [Clients -> Seq(Times)]
  /\ \A c \in Clients : Len(store[c]) <= DEFAULT_MAX_REQUESTS
  /\ seenNonces \subseteq [nonce : Nonces, at : Times]
  /\ contract \in Auctions \union {None}
  /\ told \subseteq RowStatuses
  /\ row \in [status : RowStatuses, highest : {0} \union Amounts] \union {None}
  /\ answer \in [status : Statuses, amount : Amounts \union {None}] \union {None}
  /\ admitted \subseteq [n : 1 .. MaxRequests, client : Clients, at : Times,
                        by : {"default", "strict"}]
  /\ accepted \subseteq [n : 1 .. MaxRequests, nonce : Nonces, at : Times]

(* In no window of its length does a client get more requests through than the
   limiter allows, although two limiters with different maxima prune and fill the
   same bucket.  A strict request takes two places in the bucket, so half of
   STRICT_MAX_REQUESTS is what gets through. *)
BudgetHeld ==
  \A c \in Clients, t \in Times :
    LET window == {r \in admitted : /\ r.client = c
                                    /\ t - DEFAULT_WINDOW_MS < r.at /\ r.at <= t}
        strict == {r \in window : r.by = "strict"}
    IN  /\ Cardinality(window) <= DEFAULT_MAX_REQUESTS
        /\ 2 * Cardinality(strict) <= STRICT_MAX_REQUESTS

(* A client the default limiter refused, and that stays silent for as long as its
   Retry-After says, is let in by the default limiter.  The strict limiter promises the
   same and does not keep it: its Retry-After counts from the oldest timestamp of a
   bucket the default limiter fills as well, up to its own higher maximum. *)
RetryAfterSuffices ==
  \A c \in Clients : Limited(c) =>
    LET retryAt == Head(Pruned(c)) + DEFAULT_WINDOW_MS
    IN  Len(FreshAt(Pruned(c), DEFAULT_WINDOW_MS, retryAt)) < DEFAULT_MAX_REQUESTS

(* A signed nonce authenticates one request in the life of the process, although the
   replay cache forgets it.  A nonce stamped ahead of the server's clock is left out:
   it is still fresh when the cache has forgotten it, whatever SECURITY.md says. *)
NonceOnce ==
  \A r, s \in accepted :
    r.nonce = s.nonce /\ r.nonce.stamp <= r.at /\ s.nonce.stamp <= s.at => r = s

(* simulate-bid reads a row that lags behind the contract, and computes its own
   minimum, yet it refuses no bid the contract would accept, unless the custodian has
   opened a cancelled auction again: no event takes "cancelled" off its row. *)
NoFalseRefusal ==
  answer # None /\ answer.status \in {"too low", "not accepted"} /\ Acceptable(answer.amount)
    => /\ answer.status = "not accepted"
       /\ row.status = "cancelled" /\ contract.item = "physical"
=============================================================================
