------------------------- MODULE AuctionPageProofs --------------------------
(***************************************************************************)
(* Proofs about AuctionPage: its types, the salt that the browser keeps for *)
(* every commitment in the contract, and the truth of the error messages.   *)
(***************************************************************************)
EXTENDS AuctionPage, FiniteSetTheorems, TLAPS

(* A salt of click n or of a later one is stored for the account. *)
Covers(a, n) == storage[a] # None /\ storage[a] >= n

(* The handler that runs under a flag: its click is the last one of the flag's, what it
   told the user is nothing yet, and its transaction is on the network while it polls. *)
GoodJob(f, j) ==
  /\ j.click <= clicks
  /\ j.method \in (IF f = "placingBid" THEN PlacingMethods ELSE ActionMethods)
  /\ j.pc \notin {"hash", "account"} => j.sequence > 0
  /\ j.method = "commit_bid" => j.salt = j.click
  /\ j.pc = "hash" =>
       /\ j.method = "commit_bid"
       /\ \A a \in Accounts : storage[a] # None => storage[a] < j.click
  /\ j.method = "commit_bid" /\ j.pc # "hash" => Covers(j.signer, j.click)
  /\ said[j.click] = None
  /\ j.pc = "poll" <=> txs[j.click] # None

JobsInv ==
  /\ \A f \in Flags : jobs[f] # None => GoodJob(f, jobs[f])
  /\ \A f, g \in Flags :
       jobs[f] # None /\ jobs[g] # None /\ jobs[f].click = jobs[g].click => f = g

ClicksInv ==
  /\ \A n \in Clicks : n > clicks => txs[n] = None /\ said[n] = None
  /\ \A a \in Accounts : storage[a] # None => storage[a] <= clicks

SaltInv ==
  /\ SaltSaved
  /\ \A n \in Clicks :
       txs[n] # None /\ txs[n].method = "commit_bid" =>
         txs[n].salt \in Clicks /\ Covers(txs[n].signer, txs[n].salt)

(* The sequence number of an account counts its transactions that were applied. *)
AppliedOf(a) ==
  {n \in Clicks : txs[n] # None /\ txs[n].signer = a /\ txs[n].status \in {"SUCCESS", "FAILED"}}
SequenceInv == \A a \in Accounts : sequence[a] = Cardinality(AppliedOf(a))

PageInv ==
  TypeOK /\ JobsInv /\ ClicksInv /\ SaltInv /\ SequenceInv /\ ErrorsAreHonest

LEMMA ClicksAreNumbers ==
  /\ MaxClicks \in Nat /\ \A n \in Clicks : n \in Nat \ {0} /\ n <= MaxClicks
  /\ Clicks \subseteq Nat /\ IsFiniteSet(Clicks) /\ Cardinality(Clicks) = MaxClicks
<1>1. MaxClicks \in Nat
  BY BoundsAssumption
<1>. QED
  BY <1>1, FS_Interval DEF Clicks

LEMMA ClicksCounted == TypeOK => clicks \in Nat /\ clicks <= MaxClicks
BY BoundsAssumption DEF TypeOK

LEMMA JobTyped ==
  ASSUME TypeOK, NEW f \in Flags, jobs[f] # None
  PROVE  /\ jobs \in [Flags -> Jobs \union {None}] /\ jobs[f] \in Jobs
         /\ jobs[f].click \in Clicks /\ jobs[f].signer \in Accounts
         /\ jobs[f].salt \in Clicks \union {None}
         /\ jobs[f].method \in PlacingMethods \union ActionMethods
         /\ jobs[f].sequence \in 0 .. MaxClicks + 1
         /\ jobs[f].attempts \in 0 .. MAX_ATTEMPTS
BY DEF TypeOK, Jobs

(* The sequence numbers stay below the number of clicks. *)
LEMMA SequenceBound ==
  ASSUME SequenceInv
  PROVE  \A a \in Accounts : sequence[a] \in 0 .. MaxClicks
<1>. SUFFICES ASSUME NEW a \in Accounts PROVE sequence[a] \in 0 .. MaxClicks
  OBVIOUS
<1>1. AppliedOf(a) \subseteq Clicks
  BY DEF AppliedOf
<1>2. Cardinality(AppliedOf(a)) \in Nat /\ Cardinality(AppliedOf(a)) <= MaxClicks
  BY <1>1, ClicksAreNumbers, FS_Subset, FS_CardinalityType
<1>. QED
  BY <1>2, ClicksAreNumbers DEF SequenceInv

(* What a handler does to the network: nothing, or it sends its transaction. *)
MaySubmit(f) == txs' = txs \/ (jobs[f].pc = "send" /\ Submit(jobs[f]))

LEMMA Submitting ==
  ASSUME PageInv, NEW f \in Flags, jobs[f] # None, MaySubmit(f),
         UNCHANGED <<storage, clicks, sequence, commitments>>
  PROVE  /\ txs' \in [Clicks -> Transactions \union {None}]
         /\ \A n \in Clicks : n # jobs[f].click => txs'[n] = txs[n]
         /\ \/ txs' = txs
            \/ /\ jobs[f].pc = "send" /\ txs[jobs[f].click] = None
               /\ txs'[jobs[f].click] # None
         /\ SaltInv' /\ SequenceInv'
<1>. DEFINE j == jobs[f]
            t == [signer |-> j.signer, method |-> j.method, salt |-> j.salt,
                  sequence |-> j.sequence, status |-> "PENDING"]
<1>1. CASE txs' = txs
  <2>1. txs \in [Clicks -> Transactions \union {None}]
    BY DEF PageInv, TypeOK
  <2>2. SaltInv'
    BY <1>1 DEF PageInv, SaltInv, SaltSaved, Covers
  <2>3. SequenceInv'
    BY <1>1 DEF PageInv, SequenceInv, AppliedOf
  <2>. QED
    BY <1>1, <2>1, <2>2, <2>3
<1>2. CASE jobs[f].pc = "send" /\ Submit(jobs[f])
  <2>1. /\ j \in Jobs /\ j.click \in Clicks /\ j.signer \in Accounts
        /\ j.salt \in Clicks \union {None} /\ j.method \in PlacingMethods \union ActionMethods
        /\ j.sequence \in 0 .. MaxClicks + 1
    BY JobTyped DEF PageInv
  <2>2. /\ j.sequence > 0 /\ txs[j.click] = None
        /\ j.method = "commit_bid" => j.salt = j.click /\ Covers(j.signer, j.click)
    BY <1>2 DEF PageInv, JobsInv, GoodJob
  <2>3. txs \in [Clicks -> Transactions \union {None}] /\ txs' = [txs EXCEPT ![j.click] = t]
    BY <1>2 DEF PageInv, TypeOK, Submit
  <2>4. t \in Transactions /\ t # None
    <3>1. j.sequence \in 1 .. MaxClicks + 1
      BY <2>1, <2>2, ClicksAreNumbers
    <3>2. t \in Transactions
      BY <2>1, <3>1 DEF Transactions
    <3>. QED
      BY <3>2, NoneAssumption
  <2>5. t.signer = j.signer /\ t.method = j.method /\ t.salt = j.salt /\ t.status = "PENDING"
    OBVIOUS
  <2>. HIDE DEF j, t
  <2>6. \A n \in Clicks : txs'[n] = IF n = j.click THEN t ELSE txs[n]
    BY <2>1, <2>3
  <2>7. SaltInv'
    BY <2>1, <2>2, <2>5, <2>6 DEF PageInv, SaltInv, SaltSaved, Covers
  <2>8. \A a \in Accounts : AppliedOf(a)' = AppliedOf(a)
    BY <2>1, <2>2, <2>5, <2>6 DEF AppliedOf
  <2>9. SequenceInv'
    BY <2>8 DEF PageInv, SequenceInv
  <2>. QED
    BY <1>2, <2>1, <2>2, <2>3, <2>4, <2>6, <2>7, <2>9 DEF j
<1>. QED
  BY <1>1, <1>2 DEF MaySubmit

(* The outcome is true of the transaction tx. *)
Truthful(outcome, tx) ==
  /\ outcome \in {"simulation failed", "signing failed", "rejected"} => tx = None
  /\ outcome = "failed on-chain" => tx # None /\ tx.status = "FAILED"

(* A handler that ends, whatever its outcome, keeps the invariant when what it says is
   true. *)
LEMMA Finishing ==
  ASSUME PageInv, NEW f \in Flags, jobs[f] # None, MaySubmit(f),
         NEW outcome \in Outcomes, Finish(f, outcome),
         UNCHANGED <<address, saved, storage, clicks, reloads, sequence, commitments>>,
         Truthful(outcome, txs'[jobs[f].click])
  PROVE  PageInv'
<1>. DEFINE n == jobs[f].click
<1>1. /\ n \in Clicks /\ said \in [Clicks -> Outcomes \union {None}]
      /\ jobs \in [Flags -> Jobs \union {None}]
      /\ said' = [said EXCEPT ![n] = outcome] /\ jobs' = [jobs EXCEPT ![f] = None]
  BY JobTyped DEF PageInv, TypeOK, Finish
<1>2. /\ txs' \in [Clicks -> Transactions \union {None}]
      /\ \A m \in Clicks : m # n => txs'[m] = txs[m]
      /\ SaltInv' /\ SequenceInv'
  BY Submitting
<1>3. n <= clicks /\ clicks \in Nat /\ n \in Nat
  <2>1. clicks \in Nat
    BY ClicksCounted DEF PageInv
  <2>2. n <= clicks
    BY DEF PageInv, JobsInv, GoodJob
  <2>. QED
    BY <1>1, <2>1, <2>2, ClicksAreNumbers
<1>4. \A g \in Flags : g # f /\ jobs[g] # None => jobs[g].click \in Clicks /\ jobs[g].click # n
  BY JobTyped DEF PageInv, JobsInv
<1>. HIDE DEF n
<1>5. \A m \in Clicks : said'[m] = IF m = n THEN outcome ELSE said[m]
  BY <1>1
<1>6. \A g \in Flags : jobs'[g] = IF g = f THEN None ELSE jobs[g]
  BY <1>1
<1>7. TypeOK'
  <2>1. said' \in [Clicks -> Outcomes \union {None}] /\ jobs' \in [Flags -> Jobs \union {None}]
    BY <1>1
  <2>. QED
    BY <1>2, <2>1 DEF PageInv, TypeOK
<1>8. JobsInv'
  <2>1. ASSUME NEW g \in Flags, jobs'[g] # None PROVE GoodJob(g, jobs[g])' /\ jobs'[g] = jobs[g]
    <3>1. jobs'[g] = jobs[g] /\ jobs[g] # None /\ g # f
      BY <1>6, <2>1
    <3>2. GoodJob(g, jobs[g]) /\ jobs[g].click \in Clicks /\ jobs[g].click # n
      BY <1>4, <3>1 DEF PageInv, JobsInv
    <3>. QED
      BY <1>2, <1>5, <3>1, <3>2 DEF GoodJob, Covers
  <2>2. \A g \in Flags : jobs'[g] # None => jobs'[g] = jobs[g]
    BY <2>1
  <2>. QED
    BY <2>1, <2>2 DEF PageInv, JobsInv
<1>9. ClicksInv'
  <2>1. \A m \in Clicks : m > clicks => m # n
    <3>1. ~(n > clicks)
      BY <1>3
    <3>. QED
      BY <3>1
  <2>2. clicks' = clicks /\ storage' = storage
    OBVIOUS
  <2>. QED
    BY <1>2, <1>5, <2>1, <2>2 DEF PageInv, ClicksInv
<1>10. ErrorsAreHonest'
  BY <1>1, <1>2, <1>5 DEF PageInv, ErrorsAreHonest, Truthful, n
<1>. QED
  BY <1>2, <1>7, <1>8, <1>9, <1>10 DEF PageInv

(* A handler that goes on past the hash keeps the invariant. *)
LEMMA Moving ==
  ASSUME PageInv, NEW f \in Flags, jobs[f] # None, MaySubmit(f),
         NEW k \in Jobs, jobs' = [jobs EXCEPT ![f] = k],
         UNCHANGED <<address, saved, storage, clicks, reloads, sequence, commitments, said>>,
         k.click = jobs[f].click, k.signer = jobs[f].signer, k.method = jobs[f].method,
         k.salt = jobs[f].salt, jobs[f].pc # "hash", k.pc # "hash",
         k.pc # "account" => k.sequence > 0,
         k.pc = "poll" <=> txs'[k.click] # None
  PROVE  PageInv'
<1>. DEFINE n == jobs[f].click
<1>1. n \in Clicks /\ jobs \in [Flags -> Jobs \union {None}]
  BY JobTyped DEF PageInv, TypeOK
<1>2. /\ txs' \in [Clicks -> Transactions \union {None}]
      /\ \A m \in Clicks : m # n => txs'[m] = txs[m]
      /\ SaltInv' /\ SequenceInv'
  BY Submitting
<1>3. n <= clicks /\ clicks \in Nat /\ n \in Nat /\ said[n] = None
  <2>1. clicks \in Nat
    BY ClicksCounted DEF PageInv
  <2>2. n <= clicks /\ said[n] = None
    BY DEF PageInv, JobsInv, GoodJob
  <2>. QED
    BY <1>1, <2>1, <2>2, ClicksAreNumbers
<1>4. \A g \in Flags : g # f /\ jobs[g] # None => jobs[g].click \in Clicks /\ jobs[g].click # n
  BY JobTyped DEF PageInv, JobsInv
<1>5. GoodJob(f, jobs[f])
  BY DEF PageInv, JobsInv
<1>6. \A g \in Flags : jobs'[g] = IF g = f THEN k ELSE jobs[g]
  BY <1>1
<1>7. k.click = n
  OBVIOUS
<1>. HIDE DEF n
<1>8. TypeOK'
  <2>1. jobs' \in [Flags -> Jobs \union {None}]
    BY <1>1
  <2>. QED
    BY <1>2, <2>1 DEF PageInv, TypeOK
<1>9. JobsInv'
  <2>1. ASSUME NEW g \in Flags, g # f, jobs[g] # None PROVE GoodJob(g, jobs[g])'
    <3>1. GoodJob(g, jobs[g]) /\ jobs[g].click \in Clicks /\ jobs[g].click # n
      BY <1>4, <2>1 DEF PageInv, JobsInv
    <3>2. jobs'[g] = jobs[g]
      BY <1>6, <2>1
    <3>. QED
      BY <1>2, <3>1, <3>2 DEF GoodJob, Covers
  <2>2. ASSUME jobs'[f] = k PROVE GoodJob(f, jobs[f])'
    BY <1>5, <2>2 DEF GoodJob, Covers
  <2>. QED
    BY <1>4, <1>6, <1>7, <2>1, <2>2 DEF PageInv, JobsInv
<1>10. ClicksInv'
  <2>1. \A m \in Clicks : m > clicks => m # n
    <3>1. ~(n > clicks)
      BY <1>3
    <3>. QED
      BY <3>1
  <2>2. clicks' = clicks /\ storage' = storage /\ said' = said
    OBVIOUS
  <2>. QED
    BY <1>2, <2>1, <2>2 DEF PageInv, ClicksInv
<1>11. ErrorsAreHonest'
  BY <1>1, <1>2, <1>3, NoneAssumption DEF PageInv, ErrorsAreHonest, Outcomes
<1>. QED
  BY <1>2, <1>8, <1>9, <1>10, <1>11 DEF PageInv

LEMMA PageHashed ==
  ASSUME PageInv, NEW f \in Flags, Hashed(f)
  PROVE  PageInv'
<1>0. PICK j : j = jobs[f]
  OBVIOUS
<1>00. PICK k : k = [j EXCEPT !.pc = "account"]
  OBVIOUS
<1>1. /\ j # None /\ j.pc = "hash" /\ jobs' = [jobs EXCEPT ![f] = k]
      /\ saved' = j.salt /\ storage' = [storage EXCEPT ![j.signer] = j.salt]
      /\ UNCHANGED <<address, clicks, reloads, txs, sequence, commitments, said>>
  BY <1>0, <1>00 DEF Hashed, Keep, Step, chain
<1>2. /\ j \in Jobs /\ j.click \in Clicks /\ j.signer \in Accounts
      /\ jobs \in [Flags -> Jobs \union {None}]
      /\ storage \in [Accounts -> Clicks \union {None}]
  BY <1>0, <1>1, JobTyped DEF PageInv, TypeOK
<1>3. /\ k \in Jobs /\ k.pc = "account" /\ k.click = j.click /\ k.signer = j.signer
      /\ k.method = j.method /\ k.salt = j.salt /\ k.sequence = j.sequence
  BY <1>00, <1>1, <1>2 DEF Jobs
<1>4. GoodJob(f, j)
  BY <1>0, <1>1 DEF PageInv, JobsInv
<1>5. /\ f = "placingBid" /\ j.salt = j.click /\ j.method = "commit_bid"
      /\ \A a \in Accounts : storage[a] # None => storage[a] < j.click
      /\ j.click # None /\ j.click \in Nat /\ j.click <= clicks
      /\ said[j.click] = None /\ txs[j.click] = None
  <2>1. j.method = "commit_bid"
    BY <1>1, <1>4 DEF GoodJob
  <2>2. f = "placingBid"
    BY <1>4, <2>1 DEF GoodJob, ActionMethods
  <2>. QED
    BY <1>1, <1>2, <1>4, <2>1, <2>2, ClicksAreNumbers, NoneAssumption DEF GoodJob
<1>6. /\ \A g \in Flags : jobs'[g] = IF g = f THEN k ELSE jobs[g]
      /\ \A a \in Accounts : storage'[a] = IF a = j.signer THEN j.click ELSE storage[a]
  BY <1>1, <1>2, <1>5
<1>7. ASSUME NEW a \in Accounts, NEW n \in Nat, Covers(a, n) PROVE Covers(a, n)'
  <2>1. storage[a] \in Nat /\ storage[a] < j.click
    BY <1>2, <1>5, <1>7, ClicksAreNumbers DEF Covers
  <2>. QED
    BY <1>5, <1>6, <1>7, <2>1 DEF Covers
<1>8. TypeOK'
  <2>1. jobs' \in [Flags -> Jobs \union {None}]
    BY <1>1, <1>2, <1>3
  <2>2. storage' \in [Accounts -> Clicks \union {None}] /\ saved' \in Clicks \union {None}
    BY <1>1, <1>2, <1>5
  <2>. QED
    BY <1>1, <2>1, <2>2 DEF PageInv, TypeOK
<1>9. JobsInv'
  <2>1. GoodJob(f, k)'
    <3>1. Covers(k.signer, k.click)'
      BY <1>2, <1>3, <1>5, <1>6 DEF Covers
    <3>. QED
      BY <1>1, <1>3, <1>4, <1>5, <3>1 DEF GoodJob
  <2>2. ASSUME NEW g \in Flags, g # f, jobs[g] # None PROVE GoodJob(g, jobs[g])'
    <3>1. /\ GoodJob(g, jobs[g]) /\ g = "actionLoading"
          /\ jobs'[g] = jobs[g] /\ jobs[g].click \in Clicks
      BY JobTyped, <1>5, <1>6, <2>2 DEF PageInv, JobsInv, Flags
    <3>2. jobs[g].method # "commit_bid"
      BY <3>1 DEF GoodJob, ActionMethods
    <3>. QED
      BY <1>1, <3>1, <3>2 DEF GoodJob
  <2>3. ASSUME NEW g \in Flags, jobs'[g] # None PROVE GoodJob(g, jobs[g])'
    <3>1. CASE g = f
      BY <1>6, <2>1, <3>1
    <3>2. CASE g # f
      BY <1>6, <2>2, <2>3, <3>2
    <3>. QED
      BY <3>1, <3>2
  <2>4. \A g, h \in Flags :
          jobs'[g] # None /\ jobs'[h] # None /\ jobs'[g].click = jobs'[h].click => g = h
    BY <1>0, <1>1, <1>3, <1>6 DEF PageInv, JobsInv
  <2>. QED
    BY <2>3, <2>4 DEF JobsInv
<1>10. ClicksInv'
  BY <1>1, <1>5, <1>6 DEF PageInv, ClicksInv
<1>11. SaltInv'
  <2>1. ASSUME NEW a \in Accounts, commitments[a] # None
        PROVE  Covers(a, commitments[a])'
    <3>1. commitments[a] \in Nat
      BY <2>1, ClicksAreNumbers DEF PageInv, TypeOK
    <3>2. Covers(a, commitments[a])
      BY <2>1 DEF PageInv, SaltInv, SaltSaved, Covers
    <3>. QED
      BY <1>1, <1>7, <3>1, <3>2
  <2>2. ASSUME NEW n \in Clicks, txs[n] # None, txs[n].method = "commit_bid"
        PROVE  txs[n].salt \in Clicks /\ Covers(txs[n].signer, txs[n].salt)'
    <3>1. txs[n].salt \in Clicks /\ Covers(txs[n].signer, txs[n].salt)
      BY <2>2 DEF PageInv, SaltInv
    <3>2. txs[n].signer \in Accounts /\ txs[n].salt \in Nat
      BY <2>2, <3>1, ClicksAreNumbers DEF PageInv, TypeOK, Transactions
    <3>. QED
      BY <1>1, <1>7, <3>1, <3>2
  <2>. QED
    BY <1>1, <2>1, <2>2 DEF SaltInv, SaltSaved, Covers
<1>12. SequenceInv' /\ ErrorsAreHonest'
  BY <1>1 DEF PageInv, SequenceInv, AppliedOf, ErrorsAreHonest
<1>. QED
  BY <1>8, <1>9, <1>10, <1>11, <1>12 DEF PageInv

LEMMA PageProgress ==
  ASSUME PageInv, NEW f \in Flags, Progress(f)
  PROVE  PageInv'
<1>1. CASE Hashed(f)
  BY <1>1, PageHashed
<1>. DEFINE j == jobs[f]
<1>2. ASSUME j # None
      PROVE  j \in Jobs /\ GoodJob(f, j) /\ jobs \in [Flags -> Jobs \union {None}]
             /\ j.click \in Clicks /\ j.signer \in Accounts
  BY <1>2, JobTyped DEF PageInv, JobsInv
<1>3. CASE GetAccount(f)
  <2>1. j # None /\ j.pc = "account" /\ MaySubmit(f)
        /\ UNCHANGED <<address, saved, storage, clicks, reloads, sequence, commitments, txs>>
    BY <1>3 DEF GetAccount, At, chain, MaySubmit
  <2>2. CASE Finish(f, "network error")
    BY <2>1, <2>2, Finishing DEF Truthful, Outcomes
  <2>3. ASSUME jobs' = [jobs EXCEPT ![f].pc = "simulate", ![f].sequence = sequence[j.signer] + 1],
               UNCHANGED said
        PROVE  PageInv'
    <3>. DEFINE k == [j EXCEPT !.pc = "simulate", !.sequence = sequence[j.signer] + 1]
    <3>1. sequence[j.signer] + 1 \in 0 .. MaxClicks + 1 /\ sequence[j.signer] + 1 > 0
      BY <1>2, <2>1, ClicksAreNumbers DEF PageInv, TypeOK
    <3>2. k \in Jobs
      BY <1>2, <2>1, <3>1 DEF Jobs
    <3>3. /\ k.pc = "simulate" /\ k.sequence = sequence[j.signer] + 1 /\ k.click = j.click
          /\ k.signer = j.signer /\ k.method = j.method /\ k.salt = j.salt
      BY <1>2, <2>1 DEF Jobs
    <3>4. jobs' = [jobs EXCEPT ![f] = k]
      BY <1>2, <2>1, <2>3
    <3>5. txs'[k.click] = None
      BY <1>2, <2>1, <3>3 DEF GoodJob
    <3>. HIDE DEF k
    <3>. QED
      BY <2>1, <2>3, <3>1, <3>2, <3>3, <3>4, <3>5, Moving
  <2>. QED
    BY <1>3, <2>2, <2>3 DEF GetAccount
<1>4. ASSUME NEW pc \in {"sign", "send", "poll"}, j # None, j.pc \in {"simulate", "sign", "send"},
             Step(f, pc), MaySubmit(f), pc = "poll" <=> txs'[j.click] # None,
             UNCHANGED <<address, saved, storage, clicks, reloads, sequence, commitments, said>>
      PROVE  PageInv'
  <2>. DEFINE k == [j EXCEPT !.pc = pc]
  <2>1. k \in Jobs
    BY <1>2, <1>4 DEF Jobs
  <2>2. /\ k.pc = pc /\ k.sequence = j.sequence /\ k.click = j.click
        /\ k.signer = j.signer /\ k.method = j.method /\ k.salt = j.salt
    BY <1>2, <1>4 DEF Jobs
  <2>3. jobs' = [jobs EXCEPT ![f] = k]
    BY <1>2, <1>4 DEF Step
  <2>4. k.sequence > 0
    BY <1>2, <1>4, <2>2 DEF GoodJob
  <2>. HIDE DEF k
  <2>. QED
    BY <1>4, <2>1, <2>2, <2>3, <2>4, Moving
<1>5. CASE Simulate(f)
  <2>1. j # None /\ j.pc = "simulate" /\ MaySubmit(f)
        /\ UNCHANGED <<address, saved, storage, clicks, reloads, sequence, commitments, txs>>
    BY <1>5 DEF Simulate, At, chain, MaySubmit
  <2>2. txs'[j.click] = None
    BY <1>2, <2>1 DEF GoodJob
  <2>3. CASE Step(f, "sign") /\ UNCHANGED said
    BY <1>4, <2>1, <2>2, <2>3
  <2>4. CASE Finish(f, "network error")
    BY <2>1, <2>4, Finishing DEF Truthful, Outcomes
  <2>5. CASE Finish(f, "simulation failed")
    BY <2>1, <2>2, <2>5, Finishing DEF Truthful, Outcomes
  <2>. QED
    BY <1>5, <2>3, <2>4, <2>5 DEF Simulate
<1>6. CASE Sign(f)
  <2>1. j # None /\ j.pc = "sign" /\ MaySubmit(f)
        /\ UNCHANGED <<address, saved, storage, clicks, reloads, sequence, commitments, txs>>
    BY <1>6 DEF Sign, At, chain, MaySubmit
  <2>2. txs'[j.click] = None
    BY <1>2, <2>1 DEF GoodJob
  <2>3. CASE Step(f, "send") /\ UNCHANGED said
    BY <1>4, <2>1, <2>2, <2>3
  <2>4. CASE Finish(f, "signing failed")
    BY <2>1, <2>2, <2>4, Finishing DEF Truthful, Outcomes
  <2>. QED
    BY <1>6, <2>3, <2>4 DEF Sign
<1>7. CASE Send(f)
  <2>1. j # None /\ j.pc = "send"
        /\ UNCHANGED <<address, saved, storage, clicks, reloads, sequence, commitments>>
    BY <1>7 DEF Send, At
  <2>2. CASE Submit(j) /\ Step(f, "poll") /\ UNCHANGED said
    <3>1. MaySubmit(f)
      BY <2>1, <2>2 DEF MaySubmit
    <3>2. txs'[j.click] # None
      <4>. DEFINE t == [signer |-> j.signer, method |-> j.method, salt |-> j.salt,
                        sequence |-> j.sequence, status |-> "PENDING"]
      <4>1. txs'[j.click] = t /\ txs' \in [Clicks -> Transactions \union {None}]
        BY <1>2, <2>1, <2>2, <3>1, Submitting DEF Submit, PageInv, TypeOK
      <4>2. t \in Transactions
        <5>1. j.sequence \in 1 .. MaxClicks + 1
          BY <1>2, <2>1, ClicksAreNumbers DEF GoodJob, Jobs
        <5>. QED
          BY <1>2, <2>1, <5>1 DEF Transactions, Jobs
      <4>. QED
        BY <4>1, <4>2, NoneAssumption
    <3>. QED
      BY <1>4, <2>1, <2>2, <3>1, <3>2
  <2>3. CASE Submit(j) /\ Finish(f, "network error")
    <3>1. MaySubmit(f)
      BY <2>1, <2>3 DEF MaySubmit
    <3>. QED
      BY <2>1, <2>3, <3>1, Finishing DEF Truthful, Outcomes
  <2>4. ASSUME UNCHANGED txs, NEW o \in {"network error", "rejected", "success"}, Finish(f, o)
        PROVE  PageInv'
    <3>1. MaySubmit(f) /\ txs'[j.click] = None
      BY <1>2, <2>1, <2>4 DEF MaySubmit, GoodJob
    <3>. QED
      BY <2>1, <2>4, <3>1, Finishing DEF Truthful, Outcomes
  <2>. QED
    BY <1>7, <2>2, <2>3, <2>4 DEF Send
<1>8. CASE Poll(f)
  <2>1. j # None /\ j.pc = "poll" /\ MaySubmit(f)
        /\ UNCHANGED <<address, saved, storage, clicks, reloads, sequence, commitments, txs>>
    BY <1>8 DEF Poll, At, chain, MaySubmit
  <2>2. txs'[j.click] # None
    BY <1>2, <2>1 DEF GoodJob
  <2>3. CASE Finish(f, "success")
    BY <2>1, <2>3, Finishing DEF Truthful, Outcomes
  <2>4. CASE Finish(f, PollVerdict(txs[j.click].status))
    <3>1. CASE txs[j.click].status = "FAILED"
      BY <2>1, <2>2, <2>4, <3>1, Finishing DEF Truthful, Outcomes, PollVerdict
    <3>2. CASE txs[j.click].status # "FAILED"
      BY <2>3, <2>4, <3>2 DEF PollVerdict
    <3>. QED
      BY <3>1, <3>2
  <2>5. CASE ~Exhausted(j) /\ CountAttempt(f) /\ UNCHANGED said
    <3>. DEFINE k == [j EXCEPT !.attempts = @ + 1]
    <3>1. j.attempts + 1 \in 0 .. MAX_ATTEMPTS
      BY <1>2, <2>1, <2>5, BoundsAssumption DEF Exhausted, Jobs
    <3>2. k \in Jobs
      BY <1>2, <2>1, <3>1 DEF Jobs
    <3>3. /\ k.pc = "poll" /\ k.sequence = j.sequence /\ k.click = j.click
          /\ k.signer = j.signer /\ k.method = j.method /\ k.salt = j.salt
      BY <1>2, <2>1 DEF Jobs
    <3>4. jobs' = [jobs EXCEPT ![f] = k]
      BY <1>2, <2>1, <2>5 DEF CountAttempt
    <3>5. k.sequence > 0
      BY <1>2, <2>1, <3>3 DEF GoodJob
    <3>. HIDE DEF k
    <3>. QED
      BY <2>1, <2>2, <2>5, <3>2, <3>3, <3>4, <3>5, Moving
  <2>. QED
    BY <1>8, <2>3, <2>4, <2>5 DEF Poll
<1>. QED
  BY <1>1, <1>3, <1>5, <1>6, <1>7, <1>8 DEF Progress

LEMMA PageClick ==
  ASSUME PageInv, NEW f \in Flags, NEW m \in MethodsOf(f), Click(f, m)
  PROVE  PageInv'
<1>0. PICK k :
        k = [click |-> clicks + 1, method |-> m, signer |-> address,
             pc |-> IF m = "commit_bid" THEN "hash" ELSE "account",
             salt |-> CASE m = "commit_bid" -> clicks + 1
                        [] m = "reveal_bid" -> saved
                        [] OTHER -> None,
             sequence |-> 0, attempts |-> 0]
  OBVIOUS
<1>1. /\ clicks < MaxClicks /\ address # None /\ jobs[f] = None
      /\ clicks' = clicks + 1 /\ jobs' = [jobs EXCEPT ![f] = k]
      /\ UNCHANGED <<address, saved, storage, reloads, txs, sequence, commitments, said>>
  BY <1>0 DEF Click, Clickable, chain
<1>2. /\ clicks \in Nat /\ clicks + 1 \in Clicks /\ clicks + 1 \in 0 .. MaxClicks
      /\ clicks + 1 > clicks
  BY <1>1, ClicksCounted, BoundsAssumption DEF PageInv, Clicks
<1>3. m \in (IF f = "placingBid" THEN PlacingMethods ELSE ActionMethods)
  BY DEF MethodsOf
<1>4. /\ address \in Accounts /\ saved \in Clicks \union {None}
      /\ jobs \in [Flags -> Jobs \union {None}]
      /\ storage \in [Accounts -> Clicks \union {None}]
      /\ txs[clicks + 1] = None /\ said[clicks + 1] = None
  BY <1>1, <1>2 DEF PageInv, TypeOK, ClicksInv
<1>5. k \in Jobs
  <2>1. 0 \in 0 .. MaxClicks + 1 /\ 0 \in 0 .. MAX_ATTEMPTS
    BY BoundsAssumption
  <2>2. (IF m = "commit_bid" THEN "hash" ELSE "account")
          \in {"hash", "account", "simulate", "sign", "send", "poll"}
    OBVIOUS
  <2>3. (CASE m = "commit_bid" -> clicks + 1 [] m = "reveal_bid" -> saved [] OTHER -> None)
          \in Clicks \union {None}
    BY <1>2, <1>4
  <2>4. m \in PlacingMethods \union ActionMethods
    BY <1>3
  <2>. QED
    BY <1>0, <1>2, <1>4, <2>1, <2>2, <2>3, <2>4 DEF Jobs
<1>6. /\ k.click = clicks + 1 /\ k.method = m /\ k.sequence = 0
      /\ m = "commit_bid" => k.pc = "hash" /\ k.salt = clicks + 1
      /\ m # "commit_bid" => k.pc = "account"
  BY <1>0
<1>7. \A g \in Flags : jobs'[g] = IF g = f THEN k ELSE jobs[g]
  BY <1>1, <1>4
<1>8. TypeOK'
  <2>1. jobs' \in [Flags -> Jobs \union {None}] /\ clicks' \in 0 .. MaxClicks
    BY <1>1, <1>2, <1>4, <1>5
  <2>. QED
    BY <1>1, <2>1 DEF PageInv, TypeOK
<1>9. JobsInv'
  <2>1. GoodJob(f, k)'
    <3>1. \A a \in Accounts : storage[a] # None => storage[a] < clicks + 1
      <4>. SUFFICES ASSUME NEW a \in Accounts, storage[a] # None
                    PROVE  storage[a] < clicks + 1
        OBVIOUS
      <4>1. storage[a] \in Nat /\ storage[a] <= clicks
        BY <1>4, ClicksAreNumbers DEF PageInv, ClicksInv
      <4>. QED
        BY <1>2, <4>1
    <3>. QED
      BY <1>1, <1>2, <1>3, <1>4, <1>6, <3>1 DEF GoodJob
  <2>2. ASSUME NEW g \in Flags, g # f, jobs[g] # None
        PROVE  GoodJob(g, jobs[g])' /\ jobs[g].click # clicks + 1
    <3>1. GoodJob(g, jobs[g]) /\ jobs'[g] = jobs[g] /\ jobs[g].click \in Nat
      BY <1>7, <2>2, JobTyped, ClicksAreNumbers DEF PageInv, JobsInv
    <3>2. jobs[g].click <= clicks /\ jobs[g].click <= clicks' /\ jobs[g].click # clicks + 1
      BY <1>1, <1>2, <3>1 DEF GoodJob
    <3>. QED
      BY <1>1, <3>1, <3>2 DEF GoodJob, Covers
  <2>3. ASSUME NEW g \in Flags, jobs'[g] # None PROVE GoodJob(g, jobs[g])'
    <3>1. CASE g = f
      BY <1>7, <2>1, <3>1
    <3>2. CASE g # f
      BY <1>7, <2>2, <2>3, <3>2
    <3>. QED
      BY <3>1, <3>2
  <2>4. \A g, h \in Flags :
          jobs'[g] # None /\ jobs'[h] # None /\ jobs'[g].click = jobs'[h].click => g = h
    BY <1>6, <1>7, <2>2 DEF PageInv, JobsInv
  <2>. QED
    BY <2>3, <2>4 DEF JobsInv
<1>10. ClicksInv'
  <2>1. ASSUME NEW n \in Clicks, n > clicks' PROVE txs[n] = None /\ said[n] = None
    <3>1. n > clicks
      BY <1>1, <1>2, <2>1, ClicksAreNumbers
    <3>. QED
      BY <3>1 DEF PageInv, ClicksInv
  <2>2. ASSUME NEW a \in Accounts, storage[a] # None PROVE storage[a] <= clicks'
    <3>1. storage[a] <= clicks /\ storage[a] \in Nat
      BY <1>4, <2>2, ClicksAreNumbers DEF PageInv, ClicksInv
    <3>. QED
      BY <1>1, <1>2, <3>1
  <2>. QED
    BY <1>1, <2>1, <2>2 DEF ClicksInv
<1>11. SaltInv' /\ SequenceInv' /\ ErrorsAreHonest'
  BY <1>1 DEF PageInv, SaltInv, SaltSaved, Covers, SequenceInv, AppliedOf, ErrorsAreHonest
<1>. QED
  BY <1>8, <1>9, <1>10, <1>11 DEF PageInv

(* Connecting, disconnecting and reloading change nothing but what the page shows, and
   may drop every handler. *)
LEMMA PageWallet ==
  ASSUME PageInv, UNCHANGED <<storage, clicks, txs, sequence, commitments, said>>,
         jobs' = jobs \/ jobs' = [f \in Flags |-> None],
         address' \in Accounts \union {None}, saved' \in Clicks \union {None},
         reloads' \in 0 .. MaxReloads
  PROVE  PageInv'
<1>1. TypeOK'
  BY DEF PageInv, TypeOK
<1>2. JobsInv'
  <2>1. \A f \in Flags : jobs'[f] # None => jobs'[f] = jobs[f]
    OBVIOUS
  <2>. QED
    BY <2>1 DEF PageInv, JobsInv, GoodJob, Covers
<1>3. ClicksInv' /\ SaltInv' /\ SequenceInv' /\ ErrorsAreHonest'
  BY DEF PageInv, ClicksInv, SaltInv, SaltSaved, Covers, SequenceInv, AppliedOf,
         ErrorsAreHonest
<1>. QED
  BY <1>1, <1>2, <1>3 DEF PageInv

LEMMA PageLoad ==
  ASSUME PageInv, (\E a \in Accounts : Connect(a)) \/ Disconnect \/ Reload
  PROVE  PageInv'
<1>0. /\ address \in Accounts \union {None} /\ saved \in Clicks \union {None}
      /\ reloads \in 0 .. MaxReloads /\ storage \in [Accounts -> Clicks \union {None}]
  BY DEF PageInv, TypeOK
<1>1. ASSUME NEW a \in Accounts, Connect(a) PROVE PageInv'
  BY <1>0, <1>1, PageWallet DEF Connect, Load, chain
<1>2. CASE Disconnect
  BY <1>0, <1>2, PageWallet DEF Disconnect, Load, chain
<1>3. CASE Reload
  <2>1. reloads' \in 0 .. MaxReloads
    BY <1>0, <1>3, BoundsAssumption DEF Reload
  <2>. QED
    BY <1>3, <2>1, PageWallet DEF Reload, chain
<1>. QED
  BY <1>1, <1>2, <1>3

(* The ledger applies or drops a pending transaction. *)
LEMMA Applying ==
  ASSUME PageInv, NEW n \in Clicks, txs[n] # None, txs[n].status = "PENDING",
         NEW status \in {"SUCCESS", "FAILED", "NOT_FOUND"},
         txs' = [txs EXCEPT ![n].status = status],
         UNCHANGED <<address, jobs, saved, storage, clicks, reloads, said>>,
         IF status = "NOT_FOUND" THEN sequence' = sequence
         ELSE sequence' = [sequence EXCEPT ![txs[n].signer] = @ + 1],
         commitments' = commitments
           \/ (txs[n].method = "commit_bid"
              /\ commitments' = [commitments EXCEPT ![txs[n].signer] = txs[n].salt])
  PROVE  PageInv'
<1>0. PICK t : t = [txs[n] EXCEPT !.status = status]
  OBVIOUS
<1>1. /\ txs \in [Clicks -> Transactions \union {None}] /\ txs[n] \in Transactions
      /\ txs[n].signer \in Accounts /\ txs[n].salt \in Clicks \union {None}
      /\ sequence \in [Accounts -> 0 .. MaxClicks]
      /\ commitments \in [Accounts -> Clicks \union {None}]
      /\ clicks \in Nat
  BY ClicksCounted DEF PageInv, TypeOK, Transactions
<1>2. /\ t \in Transactions /\ t.signer = txs[n].signer /\ t.method = txs[n].method
      /\ t.salt = txs[n].salt /\ t.status = status
  BY <1>0, <1>1 DEF Transactions
<1>3. t # None
  BY <1>2, NoneAssumption
<1>4. txs' = [txs EXCEPT ![n] = t]
  BY <1>0, <1>1
<1>5. \A m \in Clicks : txs'[m] = IF m = n THEN t ELSE txs[m]
  BY <1>1, <1>4
<1>6. \A m \in Clicks : txs'[m] # None <=> txs[m] # None
  BY <1>3, <1>5
<1>7. SequenceInv'
  <2>1. ASSUME NEW a \in Accounts
        PROVE  AppliedOf(a)' = IF a = txs[n].signer /\ status # "NOT_FOUND"
                               THEN AppliedOf(a) \union {n} ELSE AppliedOf(a)
    BY <1>2, <1>3, <1>5 DEF AppliedOf
  <2>2. ASSUME NEW a \in Accounts, a = txs[n].signer, status # "NOT_FOUND"
        PROVE  sequence'[a] = Cardinality(AppliedOf(a)')
    <3>1. AppliedOf(a) \subseteq Clicks /\ n \notin AppliedOf(a)
      BY DEF AppliedOf
    <3>2. IsFiniteSet(AppliedOf(a))
      BY <3>1, ClicksAreNumbers, FS_Subset
    <3>3. Cardinality(AppliedOf(a) \union {n}) = Cardinality(AppliedOf(a)) + 1
      BY <3>1, <3>2, FS_AddElement
    <3>4. sequence[a] = Cardinality(AppliedOf(a)) /\ sequence'[a] = sequence[a] + 1
      BY <1>1, <2>2 DEF PageInv, SequenceInv
    <3>. QED
      BY <2>1, <2>2, <3>3, <3>4
  <2>3. ASSUME NEW a \in Accounts, ~(a = txs[n].signer /\ status # "NOT_FOUND")
        PROVE  sequence'[a] = Cardinality(AppliedOf(a)')
    <3>1. sequence'[a] = sequence[a]
      BY <1>1, <2>3
    <3>. QED
      BY <2>1, <2>3, <3>1 DEF PageInv, SequenceInv
  <2>4. \A a \in Accounts : sequence'[a] = Cardinality(AppliedOf(a)')
    BY <2>2, <2>3
  <2>. QED
    BY <2>4 DEF SequenceInv
<1>8. TypeOK'
  <2>1. txs' \in [Clicks -> Transactions \union {None}]
    BY <1>1, <1>2, <1>4
  <2>2. commitments' \in [Accounts -> Clicks \union {None}]
    BY <1>1
  <2>3. sequence' \in [Accounts -> 0 .. MaxClicks]
    <3>1. (SequenceInv => \A a \in Accounts : sequence[a] \in 0 .. MaxClicks)'
      BY SequenceBound, PTL
    <3>2. \A a \in Accounts : sequence'[a] \in 0 .. MaxClicks
      BY <1>7, <3>1
    <3>3. sequence' = [a \in Accounts |-> sequence'[a]]
      <4>1. CASE status = "NOT_FOUND"
        BY <1>1, <4>1
      <4>2. CASE status # "NOT_FOUND"
        BY <1>1, <4>2
      <4>. QED
        BY <4>1, <4>2
    <3>. QED
      BY <3>2, <3>3
  <2>. QED
    BY <2>1, <2>2, <2>3 DEF PageInv, TypeOK
<1>9. JobsInv'
  <2>1. ASSUME NEW f \in Flags, jobs[f] # None PROVE GoodJob(f, jobs[f])'
    <3>1. GoodJob(f, jobs[f]) /\ jobs[f].click \in Clicks
      BY <2>1, JobTyped DEF PageInv, JobsInv
    <3>. QED
      BY <1>6, <3>1 DEF GoodJob, Covers
  <2>. QED
    BY <2>1 DEF PageInv, JobsInv
<1>10. ClicksInv'
  BY <1>6 DEF PageInv, ClicksInv
<1>11. SaltInv'
  <2>1. \A m \in Clicks :
          txs'[m] # None /\ txs'[m].method = "commit_bid" =>
            txs'[m].salt \in Clicks /\ Covers(txs'[m].signer, txs'[m].salt)
    BY <1>2, <1>5, <1>6 DEF PageInv, SaltInv
  <2>2. \A a \in Accounts : commitments'[a] # None => Covers(a, commitments'[a])
    <3>1. \A a \in Accounts : commitments[a] # None => Covers(a, commitments[a])
      BY DEF PageInv, SaltInv, SaltSaved, Covers
    <3>2. txs[n].method = "commit_bid" => Covers(txs[n].signer, txs[n].salt)
      BY DEF PageInv, SaltInv
    <3>. QED
      BY <1>1, <3>1, <3>2
  <2>. QED
    BY <2>1, <2>2 DEF SaltInv, SaltSaved, Covers
<1>12. ErrorsAreHonest'
  <2>1. ASSUME NEW m \in Clicks, txs[m] # None, txs[m].status = "FAILED" PROVE txs'[m] = txs[m]
    BY <1>5, <2>1
  <2>. QED
    BY <1>6, <2>1 DEF PageInv, ErrorsAreHonest
<1>. QED
  BY <1>7, <1>8, <1>9, <1>10, <1>11, <1>12 DEF PageInv

LEMMA PageLedger ==
  ASSUME PageInv, NEW n \in Clicks, Apply(n) \/ Drop(n)
  PROVE  PageInv'
<1>1. CASE Drop(n)
  BY <1>1, Applying DEF Drop, ui
<1>2. CASE Apply(n)
  <2>1. /\ txs[n] # None /\ txs[n].status = "PENDING"
        /\ sequence' = [sequence EXCEPT ![txs[n].signer] = @ + 1]
        /\ UNCHANGED <<address, jobs, saved, storage, clicks, reloads, said>>
    BY <1>2 DEF Apply, ui
  <2>2. CASE /\ txs' = [txs EXCEPT ![n].status = "SUCCESS"]
             /\ commitments' = IF txs[n].method = "commit_bid"
                               THEN [commitments EXCEPT ![txs[n].signer] = txs[n].salt]
                               ELSE commitments
    BY <2>1, <2>2, Applying
  <2>3. CASE txs' = [txs EXCEPT ![n].status = "FAILED"] /\ UNCHANGED commitments
    BY <2>1, <2>3, Applying
  <2>. QED
    BY <1>2, <2>2, <2>3 DEF Apply
<1>. QED
  BY <1>1, <1>2

LEMMA PageStep == PageInv /\ [Next]_vars => PageInv'
<1>. SUFFICES ASSUME PageInv, [Next]_vars PROVE PageInv'
  OBVIOUS
<1>1. CASE UNCHANGED vars
  <2>1. /\ address \in Accounts \union {None} /\ saved \in Clicks \union {None}
        /\ reloads \in 0 .. MaxReloads
    BY DEF PageInv, TypeOK
  <2>. QED
    BY <1>1, <2>1, PageWallet DEF vars, ui, chain
<1>. QED
  BY <1>1, PageLoad, PageClick, PageProgress, PageLedger DEF Next

LEMMA PageInit == Init => PageInv
<1>. SUFFICES ASSUME Init PROVE PageInv
  OBVIOUS
<1>1. 0 \in 0 .. MaxClicks /\ 0 \in 0 .. MaxReloads
  BY BoundsAssumption
<1>2. TypeOK
  BY <1>1 DEF Init, TypeOK
<1>3. JobsInv /\ ClicksInv /\ SaltInv
  BY DEF Init, JobsInv, ClicksInv, SaltInv, SaltSaved
<1>4. \A n \in Clicks : said[n] = None /\ txs[n] = None
  BY DEF Init
<1>5. ErrorsAreHonest
  BY <1>4, NoneAssumption DEF ErrorsAreHonest, Outcomes
<1>6. SequenceInv
  <2>1. \A a \in Accounts : AppliedOf(a) = {}
    BY <1>4 DEF AppliedOf
  <2>. QED
    BY <2>1, FS_EmptySet DEF Init, SequenceInv
<1>. QED
  BY <1>2, <1>3, <1>5, <1>6 DEF PageInv

LEMMA PageInvHolds == Spec => []PageInv
BY PageInit, PageStep, PTL DEF Spec

(* The page, its handlers and its transactions keep their shape; the sequence number of
   an account never passes the number of clicks. *)
THEOREM PageTypes == Spec => []TypeOK
<1>1. PageInv => TypeOK
  BY DEF PageInv
<1>. QED
  BY <1>1, PageInvHolds, PTL

(* Whenever the contract holds a commitment of an account, the browser has its salt, or
   that of a later click. *)
THEOREM SaltSavedHolds == Spec => []SaltSaved
<1>1. PageInv => SaltSaved
  BY DEF PageInv, SaltInv
<1>. QED
  BY <1>1, PageInvHolds, PTL

(* What an error message says of the transaction is true when it is shown and stays true. *)
THEOREM ErrorsAreHonestHolds == Spec => []ErrorsAreHonest
<1>1. PageInv => ErrorsAreHonest
  BY DEF PageInv
<1>. QED
  BY <1>1, PageInvHolds, PTL
=============================================================================
