---------------------------- MODULE AuctionPage ----------------------------
(***************************************************************************)
(* The actions of the auction page (frontend/src/app/auctions/[id]/page.tsx)*)
(* and the contract invocation each of them awaits (frontend/src/lib/      *)
(* stellar.ts): build, simulate, sign, send, poll, against a ledger that    *)
(* answers late, loses replies and drops transactions.                      *)
(*                                                                         *)
(* Every await is a step.  The page may be reloaded between two of them:    *)
(* React state is gone, localStorage and the transaction stay.  What the    *)
(* page displays lags, so a button may be there whatever the contract's     *)
(* state is; the buttons' own guards are kept.                              *)
(***************************************************************************)
EXTENDS Integers, FiniteSets

CONSTANTS
  Accounts,     \* accounts of the visitor's wallet
  Methods,      \* bound: the buttons the visitor uses
  MAX_ATTEMPTS, \* polls of a pending transaction: 15 in the code
  MaxClicks,    \* bound: handlers started
  MaxReloads,   \* bound: page loads
  None

ASSUME BoundsAssumption ==
  MAX_ATTEMPTS \in Nat /\ MaxClicks \in Nat /\ MaxReloads \in Nat

(* Buttons disabled by placingBid, and those disabled by actionLoading. *)
PlacingMethods == {"place_bid", "buy_now", "commit_bid", "reveal_bid"}
ActionMethods  == {"withdraw_refund", "approve_nft_transfer", "close_auction",
                   "settle_auction", "cancel_auction"}
Flags == {"placingBid", "actionLoading"}
MethodsOf(f) ==
  Methods \intersect (IF f = "placingBid" THEN PlacingMethods ELSE ActionMethods)

Clicks == 1 .. MaxClicks       \* names a handler run, its salt and its transaction

VARIABLES
  address,      \* wallet.tsx: the connected account, or None
  jobs,         \* flag -> the handler running under it, or None
  storage,      \* localStorage sealed_<id>_<account> -> click whose salt it holds
  saved,        \* savedCommitment
  clicks, reloads,
  \* the network
  txs,          \* click -> its transaction once submitted
  sequence,     \* account -> sequence number
  commitments,  \* account -> click of its commitment in the contract, or None
  \* history
  said          \* click -> what the user was told

ui    == <<address, jobs, saved>>
chain == <<txs, sequence, commitments>>
vars  == <<ui, storage, clicks, reloads, chain, said>>

Jobs == [click : Clicks, method : PlacingMethods \union ActionMethods,
         signer : Accounts,
         pc : {"hash", "account", "simulate", "sign", "send", "poll"},
         salt : Clicks \union {None},
         sequence : 0 .. MaxClicks + 1, attempts : 0 .. MAX_ATTEMPTS]

Transactions == [signer : Accounts, method : PlacingMethods \union ActionMethods,
                 salt : Clicks \union {None}, sequence : 1 .. MaxClicks + 1,
                 status : {"PENDING", "SUCCESS", "FAILED", "NOT_FOUND"}]

Outcomes == {"success", "network error", "simulation failed", "signing failed",
             "rejected", "failed on-chain"}

ASSUME NoneAssumption ==
  None \notin Accounts /\ None \notin Clicks /\ None \notin Jobs /\ None \notin Transactions
  /\ None \notin Outcomes

-----------------------------------------------------------------------------
(* The commitment of a sealed bid: HMAC keyed by the salt of one click, over the
   fields in this order.  Messages are equal when they have the same fields in the
   same order. *)

PageMessage     == <<"auction_id", "bidder", "amount">>   \* crypto.ts
ContractMessage == <<"amount", "auction_id", "bidder">>   \* sealed_bid.rs

Opens(a, salt) == commitments[a] = salt /\ PageMessage = ContractMessage

(* Whether the contract accepts a call; of the calls that are not about commitments
   only that it may or may not (UrithiAuction says when). *)
MayAccept(method, a, salt) ==
  /\ method = "commit_bid" => commitments[a] = None
  /\ method = "reveal_bid" => Opens(a, salt)
MayRefuse(method, a, salt) == method = "commit_bid" => commitments[a] # None

-----------------------------------------------------------------------------
(* The wallet. *)

Load(a) == address' = a /\ saved' = (IF a = None THEN saved ELSE storage[a])

(* connectWallet, or checkConnection on mount; the effect on [address] reads the
   saved commitment. *)
Connect(a) ==
  /\ address = None
  /\ Load(a)
  /\ UNCHANGED <<jobs, storage, clicks, reloads, chain, said>>

Disconnect ==
  /\ address # None
  /\ Load(None)
  /\ UNCHANGED <<jobs, storage, clicks, reloads, chain, said>>

Reload ==
  /\ reloads < MaxReloads
  /\ reloads' = reloads + 1
  /\ address' = None /\ saved' = None
  /\ jobs' = [f \in Flags |-> None]
  /\ UNCHANGED <<storage, clicks, chain, said>>

-----------------------------------------------------------------------------
(* The handlers. *)

Step(f, pc) == jobs' = [jobs EXCEPT ![f].pc = pc]

BugFinish(f, outcome) ==
  /\ said' = [said EXCEPT ![jobs[f].click] = outcome]
  /\ jobs' = IF outcome = "success" THEN [jobs EXCEPT ![f] = None]
             ELSE [jobs EXCEPT ![f].pc = "threw"]

(* try { ... } catch { toast } finally { setLoading(false) } *)
Finish(f, outcome) ==
  /\ said' = [said EXCEPT ![jobs[f].click] = outcome]
  /\ jobs' = [jobs EXCEPT ![f] = None]

(* Reveal needs a saved commitment; every handler needs a wallet, and its button is
   disabled while its flag is set. *)
Clickable(f, method) ==
  /\ address # None
  /\ jobs[f] = None
  /\ method = "reveal_bid" => saved # None

Click(f, method) ==
  /\ clicks < MaxClicks
  /\ Clickable(f, method)
  /\ clicks' = clicks + 1
  /\ jobs' = [jobs EXCEPT ![f] =
       [click |-> clicks + 1, method |-> method, signer |-> address,
        pc |-> IF method = "commit_bid" THEN "hash" ELSE "account",
        salt |-> CASE method = "commit_bid" -> clicks + 1
                   [] method = "reveal_bid" -> saved
                   [] OTHER -> None,
        sequence |-> 0, attempts |-> 0]]
  /\ UNCHANGED <<address, saved, storage, reloads, chain, said>>

BugKeep(job) == saved' = job.salt /\ UNCHANGED storage

(* The payload is stored before anything is sent, over an earlier one. *)
Keep(job) == saved' = job.salt /\ storage' = [storage EXCEPT ![job.signer] = job.salt]

(* computeCommitment has been awaited. *)
Hashed(f) ==
  /\ jobs[f] # None /\ jobs[f].pc = "hash"
  /\ Keep(jobs[f])
  /\ Step(f, "account")
  /\ UNCHANGED <<address, clicks, reloads, chain, said>>

-----------------------------------------------------------------------------
(* invokeContract. *)

At(f, pc) == jobs[f] # None /\ jobs[f].pc = pc

GetAccount(f) ==
  /\ At(f, "account")
  /\ \/ /\ jobs' = [jobs EXCEPT ![f].pc = "simulate",
                                ![f].sequence = sequence[jobs[f].signer] + 1]
        /\ UNCHANGED said
     \/ Finish(f, "network error")
  /\ UNCHANGED <<address, saved, storage, clicks, reloads, chain>>

Simulate(f) ==
  /\ At(f, "simulate")
  /\ LET j == jobs[f] IN
     \/ MayAccept(j.method, j.signer, j.salt) /\ Step(f, "sign") /\ UNCHANGED said
     \/ MayRefuse(j.method, j.signer, j.salt) /\ Finish(f, "simulation failed")
     \/ Finish(f, "network error")
  /\ UNCHANGED <<address, saved, storage, clicks, reloads, chain>>

Sign(f) ==
  /\ At(f, "sign")
  /\ \/ Step(f, "send") /\ UNCHANGED said
     \/ Finish(f, "signing failed")
  /\ UNCHANGED <<address, saved, storage, clicks, reloads, chain>>

Submit(j) ==
  txs' = [txs EXCEPT ![j.click] =
    [signer |-> j.signer, method |-> j.method, salt |-> j.salt,
     sequence |-> j.sequence, status |-> "PENDING"]]

(* sendTransaction: accepted; refused with errorResultXdr; or its answer is lost,
   accepted or not.  A node that is busy answers TRY_AGAIN_LATER with a hash, and
   the function returns as after a success. *)
Send(f) ==
  /\ At(f, "send")
  /\ \/ Submit(jobs[f]) /\ Step(f, "poll") /\ UNCHANGED said
     \/ Submit(jobs[f]) /\ Finish(f, "network error")
     \/ UNCHANGED txs /\ Finish(f, "network error")
     \/ UNCHANGED txs /\ Finish(f, "rejected")
     \/ UNCHANGED txs /\ Finish(f, "success")
  /\ UNCHANGED <<address, saved, storage, clicks, reloads, sequence, commitments>>

BugPollVerdict(status) ==
  IF status = "SUCCESS" THEN "success" ELSE "failed on-chain"

(* getTransaction knows a transaction only once it is in a ledger; any status but
   PENDING ends the loop, and any but FAILED is returned as a success. *)
PollVerdict(status) ==
  IF status = "FAILED" THEN "failed on-chain" ELSE "success"

BugExhausted(j) == j.attempts > MAX_ATTEMPTS
Exhausted(j)    == j.attempts = MAX_ATTEMPTS

CountAttempt(f) == jobs' = [jobs EXCEPT ![f].attempts = @ + 1]

Poll(f) ==
  /\ At(f, "poll")
  /\ LET j == jobs[f] IN
     IF Exhausted(j) THEN Finish(f, "success")
     ELSE \/ CountAttempt(f) /\ UNCHANGED said          \* the request failed
          \/ Finish(f, PollVerdict(txs[j.click].status))
  /\ UNCHANGED <<address, saved, storage, clicks, reloads, chain>>

-----------------------------------------------------------------------------
(* The ledger: a pending transaction whose sequence number is the next one is
   applied, or it is dropped (its time bound passes, or its number was used). *)

Apply(n) ==
  LET tx == txs[n] IN
  /\ tx # None /\ tx.status = "PENDING"
  /\ tx.sequence = sequence[tx.signer] + 1
  /\ sequence' = [sequence EXCEPT ![tx.signer] = @ + 1]
  /\ \/ /\ MayAccept(tx.method, tx.signer, tx.salt)
        /\ txs' = [txs EXCEPT ![n].status = "SUCCESS"]
        /\ commitments' = IF tx.method = "commit_bid"
                          THEN [commitments EXCEPT ![tx.signer] = tx.salt]
                          ELSE commitments
     \/ /\ MayRefuse(tx.method, tx.signer, tx.salt)
        /\ txs' = [txs EXCEPT ![n].status = "FAILED"]
        /\ UNCHANGED commitments
  /\ UNCHANGED <<ui, storage, clicks, reloads, said>>

Drop(n) ==
  /\ txs[n] # None /\ txs[n].status = "PENDING"
  /\ txs' = [txs EXCEPT ![n].status = "NOT_FOUND"]
  /\ UNCHANGED <<ui, storage, clicks, reloads, sequence, commitments, said>>

-----------------------------------------------------------------------------

Init ==
  /\ address = None
  /\ jobs = [f \in Flags |-> None]
  /\ storage = [a \in Accounts |-> None]
  /\ saved = None
  /\ clicks = 0 /\ reloads = 0
  /\ txs = [n \in Clicks |-> None]
  /\ sequence = [a \in Accounts |-> 0]
  /\ commitments = [a \in Accounts |-> None]
  /\ said = [n \in Clicks |-> None]

Progress(f) ==
  Hashed(f) \/ GetAccount(f) \/ Simulate(f) \/ Sign(f) \/ Send(f) \/ Poll(f)

Next ==
  \/ \E a \in Accounts : Connect(a)
  \/ Disconnect \/ Reload
  \/ \E f \in Flags : \E m \in MethodsOf(f) : Click(f, m)
  \/ \E f \in Flags : Progress(f)
  \/ \E n \in Clicks : Apply(n) \/ Drop(n)

Spec == Init /\ [][Next]_vars

(* Every request of the page is answered or fails, and the user answers the wallet. *)
FairSpec == Spec /\ \A f \in Flags : WF_vars(Progress(f))

-----------------------------------------------------------------------------
(* Properties. *)

(* Type invariant. *)
TypeOK ==
  /\ address \in Accounts \union {None}
  /\ jobs \in [Flags -> Jobs \union {None}]
  /\ storage \in [Accounts -> Clicks \union {None}]
  /\ saved \in Clicks \union {None}
  /\ clicks \in 0 .. MaxClicks /\ reloads \in 0 .. MaxReloads
  /\ txs \in [Clicks -> Transactions \union {None}]
  /\ sequence \in [Accounts -> 0 .. MaxClicks]
  /\ commitments \in [Accounts -> Clicks \union {None}]
  /\ said \in [Clicks -> Outcomes \union {None}]

(* A sealed bid cannot be revealed without its salt (handleCommitSealedBid stores it
   before it sends anything): whenever the contract holds a commitment, the browser has
   a salt for that account, whatever was reloaded or failed in between, and it is that
   commitment's own unless the visitor has clicked commit again since.  (The contract
   refuses the second commit, but its salt has replaced the first by then.) *)
SaltSaved ==
  \A a \in Accounts :
    commitments[a] # None => storage[a] # None /\ storage[a] >= commitments[a]

(* An error message is the truth: one that says the call failed before it was sent
   means the transaction is not on the network, now or later, and "failed on-chain"
   means it failed there.  ("network error" while sending says neither.) *)
ErrorsAreHonest ==
  \A n \in Clicks :
    /\ said[n] \in {"simulation failed", "signing failed", "rejected"} => txs[n] = None
    /\ said[n] = "failed on-chain" => txs[n] # None /\ txs[n].status = "FAILED"

(* A handler that started ends: its buttons come back. *)
LoadingEnds == \A f \in Flags : jobs[f] # None ~> jobs[f] = None

(* crypto.ts says computeCommitment matches the contract's algorithm: the commitment
   whose salt the browser holds can be opened. *)
SavedBidOpens ==
  \A a \in Accounts :
    commitments[a] # None /\ storage[a] = commitments[a] => Opens(a, storage[a])
=============================================================================
