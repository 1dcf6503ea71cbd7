---------------------------- MODULE EventIndexer ----------------------------
(***************************************************************************)
(* The backend's event indexer (backend/src/indexer/event_indexer.ts) and  *)
(* the PostgreSQL tables it fills (backend/src/db/index.ts): one polling    *)
(* loop reads the contract's events page by page from a Soroban RPC node,   *)
(* runs a handler per event, pushes the event to WebSocket clients          *)
(* (backend/src/index.ts), and saves a cursor after each polling cycle.     *)
(*                                                                         *)
(* Every call of the loop may fail (the RPC after its retries, a database   *)
(* statement), and the process may crash between any two statements: both   *)
(* consume the fault budget MaxFaults.  A handler is a sequence of database *)
(* statements; nobody else writes the tables, so an event is one step that  *)
(* runs a prefix of its statements.                                         *)
(***************************************************************************)
EXTENDS Integers, Sequences, FiniteSets

CONSTANTS
  Auctions, Bidders,
  EventTypes,    \* kinds of events the contract publishes
  NamedEvents,   \* its events bear the names and fields the handlers expect
  BatchSize,     \* EVENT_BATCH_SIZE
  LOOKBACK,      \* ledgers an indexer without a cursor goes back: 100 in the code
  MaxPerLedger,  \* events of the contract in one ledger
  MaxEvents,     \* bound: events published
  MaxHeight,     \* bound: ledgers closed
  MaxFaults,     \* bound: failed calls and crashes
  None           \* no row

ASSUME SizesAssumption ==
  /\ BatchSize \in Nat \ {0}
  /\ LOOKBACK \in Nat
  /\ MaxHeight \in Nat /\ MaxEvents \in Nat /\ MaxFaults \in Nat
(* A page that one ledger fills is requested again and again: see the README. *)
ASSUME LedgerFitsPage == MaxPerLedger \in Nat /\ MaxPerLedger < BatchSize
ASSUME NamesAssumption == NamedEvents \in BOOLEAN

(* The types with a handler, and those the entry point broadcasts. *)
Broadcast ==
  {"auction_created", "bid_placed", "bid_refunded", "auction_closed",
   "auction_settled", "auction_cancelled", "attestation_recorded"}
Handled == Broadcast \union {"auc_ext", "bid_out"}
ASSUME TypesAssumption == EventTypes \subseteq Handled

(* The first topics the contract really publishes. *)
Symbols == [auction_created |-> "auc_new", bid_placed |-> "bid_new",
            bid_refunded |-> "bid_ref", auction_closed |-> "auc_end",
            auction_settled |-> "auc_set", auction_cancelled |-> "auc_cxl",
            attestation_recorded |-> "att_rec",
            auc_ext |-> "auc_ext", bid_out |-> "bid_out"]
Topic(e) == IF NamedEvents THEN e.type ELSE Symbols[e.type]

Rows == [status : {"created", "active", "closed", "settled", "cancelled"},
         highest : 0 .. MaxEvents,      \* highest_bid: the bid's place in the chain
         highest_bidder : Bidders \union {None},
         attested : BOOLEAN,
         proceeds : BOOLEAN]            \* seller_proceeds is known
BidRows == [auction : Auctions, bidder : Bidders, amount : 1 .. MaxEvents,
            is_winning : BOOLEAN, refunded : BOOLEAN]
Keys == (1 .. MaxHeight + 1) \X Handled \X Auctions
EventRows == [place : 1 .. MaxEvents, key : Keys]     \* place: the event's in the chain
ASSUME NoneAssumption == None \notin Rows

VARIABLES
  chain,       \* events published, in order: [ledger, type, auction, bidder, price]
  height,      \* the last closed ledger
  \* the tables
  auctions, bids, events, cursor_state,
  \* the memory of the process
  pc,          \* where pollEvents is: idle, fetch, process, ask, save
  lastLedger,  \* 0 until the first poll
  cursorLedger,
  next, last,  \* the page being processed: chain[next .. last]
  full,        \* the page had batchSize events
  faults,
  \* history
  seen,        \* events handed to processEvent
  failed,      \* events whose last handler call threw or was cut short
  missed,      \* events the code moved past, without asking, after what it last handled
  pushed,      \* events broadcast to clients
  at           \* the event processEvent was last called for, 0 before

tables  == <<auctions, bids, events>>
source  == <<chain, height>>
memory  == <<lastLedger, cursorLedger, next, last, full>>
history == <<seen, failed, missed, pushed, at>>
vars == <<source, tables, cursor_state, pc, memory, faults, history>>

-----------------------------------------------------------------------------
(* The tables.  db is a record [auctions, bids, events]; amounts are places in
   the chain, so every bid differs. *)

Db == [auctions |-> auctions, bids |-> bids, events |-> events]
Store(db) == /\ auctions' = db.auctions /\ bids' = db.bids /\ events' = db.events

(* INSERT ... ON CONFLICT (id) DO UPDATE: a row that exists is reset too. *)
UpsertAuction(db, e) ==
  [db EXCEPT !.auctions[e.auction] =
     [status |-> "created", highest |-> 0, highest_bidder |-> None,
      attested |-> FALSE, proceeds |-> FALSE]]

(* An UPDATE of an auction that has no row changes nothing. *)
UpdateAuction(db, e, row) ==
  IF db.auctions[e.auction] = None THEN db ELSE [db EXCEPT !.auctions[e.auction] = row]

BugInsertBidOnce(db, i, e) ==
  [db EXCEPT !.bids = IF \E r \in @ : r.auction = e.auction /\ r.bidder = e.bidder
                      THEN @ ELSE @ \union
    {[auction |-> e.auction, bidder |-> e.bidder, amount |-> i,
      is_winning |-> TRUE, refunded |-> FALSE]}]

InsertBid(db, i, e) ==
  [db EXCEPT !.bids = @ \union
    {[auction |-> e.auction, bidder |-> e.bidder, amount |-> i,
      is_winning |-> TRUE, refunded |-> FALSE]}]

(* One transaction: every bid of the auction loses is_winning, the row takes the bid. *)
UpdateAuctionOnBid(db, i, e) ==
  LET cleared == {IF r.auction = e.auction THEN [r EXCEPT !.is_winning = FALSE] ELSE r :
                    r \in db.bids}
  IN  UpdateAuction([db EXCEPT !.bids = cleared], e,
        [db.auctions[e.auction] EXCEPT !.highest = i, !.highest_bidder = e.bidder,
                                       !.status = "active"])

(* The handler passes the event's winner and final price on. *)
UpdateAuctionOnClose(db, e) ==
  UpdateAuction(db, e,
    [db.auctions[e.auction] EXCEPT !.status = "closed", !.highest = e.price,
                                   !.highest_bidder = e.bidder])

UpdateAuctionOnSettle(db, e) ==
  UpdateAuction(db, e,
    [db.auctions[e.auction] EXCEPT !.status = "settled", !.proceeds = TRUE])

UpdateAuctionOnCancel(db, e) ==
  UpdateAuction(db, e, [db.auctions[e.auction] EXCEPT !.status = "cancelled"])

UpdateAuctionOnAttestation(db, e) ==
  UpdateAuction(db, e, [db.auctions[e.auction] EXCEPT !.attested = TRUE])

MarkBidRefunded(db, e) ==
  [db EXCEPT !.bids =
    {IF r.auction = e.auction /\ r.bidder = e.bidder
     THEN [r EXCEPT !.refunded = TRUE, !.is_winning = FALSE] ELSE r : r \in @}]

(* The unique index on (ledger_sequence, event_type, auction_id): an event with the
   key of one that is stored is dropped (ON CONFLICT DO NOTHING). *)
Key(e) == <<e.ledger, e.type, e.auction>>
InsertEvent(db, i, e) ==
  IF \E r \in db.events : r.key = Key(e) THEN db
  ELSE [db EXCEPT !.events = @ \union {[place |-> i, key |-> Key(e)]}]

(* handlers[type]: its statements in order. *)
Statements(e) ==
  LET t == Topic(e) IN
  CASE t = "auction_created"      -> <<"upsertAuction", "insertEvent">>
    [] t = "bid_placed"           -> <<"insertBid", "updateAuctionOnBid", "insertEvent">>
    [] t \in {"bid_refunded", "bid_out"} -> <<"markBidRefunded", "insertEvent">>
    [] t = "auction_closed"       -> <<"updateAuctionOnClose", "insertEvent">>
    [] t = "auction_settled"      -> <<"updateAuctionOnSettle", "insertEvent">>
    [] t = "auction_cancelled"    -> <<"updateAuctionOnCancel", "insertEvent">>
    [] t = "attestation_recorded" -> <<"updateAuctionOnAttestation", "insertEvent">>
    [] t = "auc_ext"              -> <<"insertEvent">>
    [] OTHER                      -> <<>>

Exec(db, stmt, i, e) ==
  CASE stmt = "upsertAuction"              -> UpsertAuction(db, e)
    [] stmt = "insertBid"                  -> InsertBid(db, i, e)
    [] stmt = "updateAuctionOnBid"         -> UpdateAuctionOnBid(db, i, e)
    [] stmt = "markBidRefunded"            -> MarkBidRefunded(db, e)
    [] stmt = "updateAuctionOnClose"       -> UpdateAuctionOnClose(db, e)
    [] stmt = "updateAuctionOnSettle"      -> UpdateAuctionOnSettle(db, e)
    [] stmt = "updateAuctionOnCancel"      -> UpdateAuctionOnCancel(db, e)
    [] stmt = "updateAuctionOnAttestation" -> UpdateAuctionOnAttestation(db, e)
    [] stmt = "insertEvent"                -> InsertEvent(db, i, e)

(* The first k statements of the handler of e, the event at place i. *)
RunHandler(db, i, e, k) ==
  LET ran[n \in 0 .. Len(Statements(e))] ==
        IF n = 0 THEN db ELSE Exec(ran[n - 1], Statements(e)[n], i, e)
  IN  ran[k]

(* bids.auction_id REFERENCES auctions(id): a bid on an auction the table does not
   know cannot be inserted. *)
Orphan(db, e) == Topic(e) = "bid_placed" /\ db.auctions[e.auction] = None

-----------------------------------------------------------------------------
(* The events of the contract, each published by the call that changes the auction's
   status.  Attesting a physical item checks no status: it opens an auction that is
   over again. *)

Of(a)      == {i \in DOMAIN chain : chain[i].auction = a}
TypesOf(a) == {chain[i].type : i \in Of(a)}
HasBid(a, b) == \E i \in Of(a) : chain[i].type = "bid_placed" /\ chain[i].bidder = b

(* The last of a's events that tells its status. *)
LastIs(a, types) ==
  \E i \in Of(a) :
    /\ chain[i].type \in types
    /\ \A j \in Of(a) :
         j > i => chain[j].type \in {"bid_placed", "bid_refunded", "auc_ext", "bid_out"}

(* Publishable(t, a, b): a call publishes t next.  The item of an auction is attested
   before its first bid or not at all. *)
Publishable(t, a, b) ==
  LET past == TypesOf(a)
      open == LastIs(a, {"auction_created", "attestation_recorded"})
      sold == {"bid_placed", "auction_closed"} \intersect past # {}
  IN  CASE t = "auction_created"      -> past = {}
        [] t = "attestation_recorded" -> past # {} /\ (sold => t \in past)
        [] t = "auction_settled"      -> LastIs(a, {"auction_closed"})
        [] t = "auction_cancelled"    -> open /\ ~sold
        [] t = "auc_ext"              -> open /\ "bid_placed" \in past
        [] t \in {"bid_refunded", "bid_out"} -> HasBid(a, b)
        [] OTHER                      -> open

(* Price(t, a, b): what an auction_closed tells of the winner.  It is the last bid, if
   bids were published; a sealed auction's are not, and its price is a new one. *)
Price(t, a, b) ==
  LET bidders == {i \in Of(a) : chain[i].type \in {"bid_placed", "auction_closed"}}
  IN  IF t # "auction_closed" THEN {0}
      ELSE IF bidders = {} THEN {Len(chain) + 1}
      ELSE {IF chain[i].type = "bid_placed" THEN i ELSE chain[i].price :
              i \in {j \in bidders : chain[j].bidder = b /\ \A k \in bidders : k <= j}}

(* Events of the ledger being built are not visible until it closes. *)
Publish(t, a, b) ==
  /\ Len(chain) < MaxEvents
  /\ height < MaxHeight
  /\ Publishable(t, a, b)
  /\ LET open == {i \in DOMAIN chain : chain[i].ledger = height + 1}
     IN  \A i \in open : i > Len(chain) - MaxPerLedger + 1
  /\ \E price \in Price(t, a, b) :
       chain' = Append(chain, [ledger |-> height + 1, type |-> t, auction |-> a,
                               bidder |-> b, price |-> price])
  /\ UNCHANGED <<height, tables, cursor_state, pc, memory, faults, history>>

CloseLedger ==
  /\ height < MaxHeight
  /\ height' = height + 1
  /\ UNCHANGED <<chain, tables, cursor_state, pc, memory, faults, history>>

-----------------------------------------------------------------------------
(* The polling loop. *)

Highest(x, y) == IF x >= y THEN x ELSE y

(* A call fails after withRetry's attempts. *)
Fail == faults < MaxFaults /\ faults' = faults + 1

(* Going on after ledger l, the loop leaves these events out: after the one it
   handled last, and not asked for. *)
Skip(l) ==
  missed' = missed \union {i \in DOMAIN chain : i > at /\ chain[i].ledger <= l}

(* pollEvents returns: its local variables are gone. *)
Return == pc' = "idle" /\ cursorLedger' = 0 /\ next' = 1 /\ last' = 0 /\ full' = FALSE

(* First poll with a stored cursor. *)
LoadCursor ==
  /\ pc = "idle" /\ lastLedger = 0
  /\ cursor_state > 0
  /\ lastLedger' = cursor_state
  /\ Skip(cursor_state)
  /\ UNCHANGED <<source, tables, cursor_state, pc, cursorLedger, next, last, full,
                 faults, seen, failed, pushed, at>>

BugStartLedger == height - LOOKBACK
StartLedger    == Highest(0, height - LOOKBACK)

(* First poll without one, or when it cannot be read. *)
StartBlind ==
  /\ pc = "idle" /\ lastLedger = 0
  /\ IF cursor_state > 0 THEN Fail ELSE UNCHANGED faults
  /\ lastLedger' = StartLedger
  /\ Skip(StartLedger)
  /\ UNCHANGED <<source, tables, cursor_state, pc, cursorLedger, next, last, full,
                 seen, failed, pushed, at>>

StartPoll ==
  /\ pc = "idle" /\ lastLedger > 0
  /\ pc' = "fetch"
  /\ cursorLedger' = lastLedger + 1
  /\ UNCHANGED <<source, tables, cursor_state, lastLedger, next, last, full, faults, history>>

Visible == {i \in DOMAIN chain : chain[i].ledger <= height}

(* chain[from .. to] is the answer to getEvents(startLedger, limit). *)
IsPage(startLedger, from, to) ==
  /\ \A i \in DOMAIN chain : i < from <=> chain[i].ledger < startLedger
  /\ \A i \in DOMAIN chain :
       i >= from => (i <= to <=> i \in Visible /\ i - from < BatchSize)
  /\ to >= from - 1

FetchPage ==
  /\ pc = "fetch"
  /\ \E from \in 1 .. Len(chain) + 1, to \in 0 .. Len(chain) :
       /\ IsPage(cursorLedger, from, to)
       /\ IF from > to
          THEN pc' = "ask" /\ UNCHANGED <<next, last, full>>
          ELSE pc' = "process" /\ next' = from /\ last' = to /\ full' = (to - from + 1 = BatchSize)
  /\ UNCHANGED <<source, tables, cursor_state, lastLedger, cursorLedger, faults, history>>

(* The exception leaves pollEvents before saveCursor; the next poll starts after
   lastLedger.  A node also refuses a start it has not reached yet. *)
FetchFails ==
  /\ pc = "fetch"
  /\ IF cursorLedger > height THEN UNCHANGED faults ELSE Fail
  /\ Return
  /\ Skip(lastLedger)
  /\ UNCHANGED <<source, tables, cursor_state, lastLedger, seen, failed, pushed, at>>

(* The page was empty: go on from the latest ledger, which is asked for now. *)
AskLatest ==
  /\ pc = "ask"
  /\ pc' = "save"
  /\ \/ lastLedger' = height /\ Skip(height) /\ UNCHANGED faults
     \/ Fail /\ UNCHANGED <<lastLedger, missed>>
  /\ UNCHANGED <<source, tables, cursor_state, cursorLedger, next, last, full,
                 seen, failed, pushed, at>>

BugPush(i, done) == pushed' = IF Topic(chain[i]) \in Broadcast THEN pushed \union {i} ELSE pushed

(* processEvent calls onEvent after the handler, never when it threw. *)
Push(i, done) ==
  pushed' = IF done /\ Topic(chain[i]) \in Broadcast THEN pushed \union {i} ELSE pushed

(* One event of the page: its handler completes, or throws after k statements;
   either way the loop goes on with the next event. *)
ProcessEvent ==
  /\ pc = "process" /\ next <= last
  /\ LET e == chain[next]
         n == Len(Statements(e))
     IN  /\ \E k \in 0 .. n :
              /\ Orphan(Db, e) => k = 0
              /\ IF k = n \/ Orphan(Db, e) THEN UNCHANGED faults ELSE Fail
              /\ Store(RunHandler(Db, next, e, k))
              /\ failed' = IF k = n THEN failed \ {next} ELSE failed \union {next}
              /\ Push(next, k = n)
         /\ lastLedger' = Highest(lastLedger, e.ledger)
  /\ seen' = seen \union {next} /\ missed' = missed \ {next}
  /\ at' = next
  /\ next' = next + 1
  /\ UNCHANGED <<source, cursor_state, pc, cursorLedger, last, full>>

BugNextPage == cursorLedger' = lastLedger + 1
BugSamePage == UNCHANGED cursorLedger
NextPage    == cursorLedger' = lastLedger

(* A full page is followed by another, from the last ledger seen, inclusive. *)
PageDone ==
  /\ pc = "process" /\ next > last
  /\ IF full THEN pc' = "fetch" /\ NextPage ELSE pc' = "save" /\ UNCHANGED cursorLedger
  /\ UNCHANGED <<source, tables, cursor_state, lastLedger, next, last, full, faults, history>>

BugSavedLedger == height
SavedLedger    == lastLedger

SaveCursor ==
  /\ pc = "save"
  /\ Return
  /\ \/ cursor_state' = SavedLedger /\ UNCHANGED faults
     \/ Fail /\ UNCHANGED cursor_state
  /\ UNCHANGED <<source, tables, lastLedger, history>>

(* The process dies and is started again (docker-compose: restart); a handler may
   have run some of its statements. *)
Crash ==
  /\ Fail
  /\ Return
  /\ lastLedger' = 0
  /\ IF pc = "process" /\ next <= last
     THEN /\ \E k \in 0 .. Len(Statements(chain[next])) :
               /\ Orphan(Db, chain[next]) => k = 0
               /\ Store(RunHandler(Db, next, chain[next], k))
          /\ failed' = failed \union {next}
     ELSE UNCHANGED <<tables, failed>>
  /\ UNCHANGED <<source, cursor_state, seen, missed, pushed, at>>

-----------------------------------------------------------------------------

Init ==
  /\ chain = <<>>
  /\ height = 0
  /\ auctions = [a \in Auctions |-> None]
  /\ bids = {}
  /\ events = {}
  /\ cursor_state = 0
  /\ pc = "idle"
  /\ lastLedger = 0
  /\ cursorLedger = 0
  /\ next = 1 /\ last = 0
  /\ full = FALSE
  /\ faults = 0
  /\ seen = {} /\ failed = {} /\ missed = {} /\ pushed = {}
  /\ at = 0

Indexer ==
  \/ LoadCursor \/ StartBlind \/ StartPoll \/ FetchPage \/ FetchFails \/ AskLatest
  \/ ProcessEvent \/ PageDone \/ SaveCursor

Next ==
  \/ \E t \in EventTypes, a \in Auctions, b \in Bidders : Publish(t, a, b)
  \/ CloseLedger
  \/ Indexer
  \/ Crash

Spec == Init /\ [][Next]_vars

(* The loop is a timer that is set again after every cycle (finally), and the
   ledger goes on closing. *)
Fairness == WF_vars(Indexer) /\ WF_vars(CloseLedger)

FairSpec == Spec /\ Fairness

-----------------------------------------------------------------------------
(* Properties. *)

Places == 1 .. MaxEvents

(* Type invariant of the loop and its tables; chain is ordered by ledger. *)
TypeOK ==
  /\ chain \in Seq([ledger : 1 .. MaxHeight, type : EventTypes,
                     auction : Auctions, bidder : Bidders, price : 0 .. MaxEvents])
  /\ Len(chain) <= MaxEvents
  /\ height \in 0 .. MaxHeight
  /\ auctions \in [Auctions -> Rows \union {None}]
  /\ bids \subseteq BidRows
  /\ events \subseteq EventRows
  /\ {cursor_state, lastLedger} \subseteq 0 .. MaxHeight
  /\ cursorLedger \in 0 .. MaxHeight + 1
  /\ pc \in {"idle", "fetch", "process", "ask", "save"}
  /\ next \in 1 .. MaxEvents + 1 /\ last \in 0 .. MaxEvents
  /\ full \in BOOLEAN
  /\ faults \in 0 .. MaxFaults
  /\ {seen, failed, missed, pushed} \subseteq SUBSET (DOMAIN chain)
  /\ at \in {0} \union DOMAIN chain

(* A restart resumes from the stored cursor, so every event at or below it must
   have been handed to its handler already, except those the code moved past
   without asking (missed): closed between an empty page and the question for the
   latest ledger, cut off when a later page failed, or before the first ledger. *)
CursorCovers ==
  \A i \in DOMAIN chain : chain[i].ledger <= cursor_state => i \in seen \union missed

(* Ideal(evs)[n] is what the handlers would leave in empty tables, called once for
   each of the first n events, in order. *)
EmptyDb == [auctions |-> [a \in Auctions |-> None], bids |-> {}, events |-> {}]

Ideal(evs) ==
  LET db[n \in 0 .. Len(evs)] ==
        IF n = 0 THEN EmptyDb
        ELSE RunHandler(db[n - 1], n, evs[n], Len(Statements(evs[n])))
  IN  db

CountUpTo(evs, l) == Cardinality({i \in DOMAIN evs : evs[i].ledger <= l})
Expected(l)  == Ideal(chain)[CountUpTo(chain, l)]

(* The loop is back where it ever got to, and has handled every event of a since,
   without skipping or failing one. *)
CaughtUp(a) ==
  /\ pc = "idle"
  /\ \A i \in seen : chain[i].ledger <= lastLedger
  /\ \A i \in missed \union failed : chain[i].auction # a

(* Replaying events after a crash, and once more at every page boundary, leaves
   the auctions row as if each event had been handled exactly once. *)
RowsConverge ==
  \A a \in Auctions : CaughtUp(a) => auctions[a] = Expected(lastLedger).auctions[a]

(* Replay never loses a bid either: every row handling each event once would leave
   is in the bids table.  (It may hold more: a second insert has no conflict clause,
   and a replayed refund marks a later bid of the same bidder.) *)
BidsComplete ==
  \A a \in Auctions : CaughtUp(a) =>
    {r \in Expected(lastLedger).bids : r.auction = a} \subseteq bids

(* A client told of a new auction or a bid finds it when it asks the API: the
   auction's row, and the bid's, are in the tables the API reads, through any crash,
   handler cut short or replay after the broadcast. *)
PushedIsReadable ==
  \A i \in pushed : LET e == chain[i] IN
    /\ e.type \in {"auction_created", "bid_placed"} => auctions[e.auction] # None
    /\ e.type = "bid_placed" =>
         \E r \in bids : r.auction = e.auction /\ r.bidder = e.bidder /\ r.amount = i

(* What the cursor has passed left an event with its ledger, type and auction in the
   events table, unless its handler failed or the code moved past it (missed).  It need
   not be that event's own: a second one of its type, auction and ledger is dropped.  So
   this is less than the exactly-once ingestion that SECURITY.md speaks of, which the
   code does not give even without a fault. *)
Ingested ==
  \A i \in DOMAIN chain :
    chain[i].ledger <= cursor_state /\ i \notin failed \union (missed \ seen) =>
      \E r \in events : r.key = Key(chain[i])

(* SECURITY.md, "exactly-once ingestion": an event the cursor has passed, and whose
   handler never failed, is in the events table.  The code does not keep to it: hardly a
   handler has the name of an event the contract publishes (NamedEvents = FALSE). *)
HandledIsRecorded ==
  \A i \in seen \ failed :
    chain[i].ledger <= cursor_state => \E r \in events : r.place = i

(* However the faults fall, the loop gets past every closed ledger. *)
CatchesUp ==
  \A i \in Places :
    i \in Visible ~> (i \in Visible /\ lastLedger >= chain[i].ledger /\ pc = "idle")
=============================================================================
