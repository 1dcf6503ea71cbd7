-------------------------- MODULE EventIndexerProofs --------------------------
(***************************************************************************)
(* The event indexer, for any number of events, ledgers, pages and faults.  *)
(* First the polling loop: the stored cursor never runs ahead of it (IInv). *)
(* Then the tables: what one handler does to them, what handling every      *)
(* event once would leave (Ideal), and that replay leads there (Stands).    *)
(***************************************************************************)
EXTENDS EventIndexer, Induction

(* An event, whatever ledger it is in. *)
LedgersOf == [ledger : Nat \ {0}, type : EventTypes, auction : Auctions, bidder : Bidders,
              price : Nat]

(* Every event up to ledger l has been handed to its handler, or moved past. *)
CoveredBy(evs, done, l) == \A i \in DOMAIN evs : evs[i].ledger <= l => i \in done
Covered(l) == CoveredBy(chain, seen \union missed, l)

(* The chain is ordered by ledger; only the ledger after the last closed one grows. *)
ChainOK ==
  /\ chain \in Seq(LedgersOf)
  /\ height \in Nat
  /\ \A i, j \in DOMAIN chain : i <= j => chain[i].ledger <= chain[j].ledger
  /\ \A i \in DOMAIN chain : chain[i].ledger <= height + 1

(* The loop never knows of a ledger that has not closed. *)
LoopOK ==
  /\ cursor_state \in Nat /\ lastLedger \in Nat /\ cursorLedger \in Nat
  /\ cursor_state <= height /\ lastLedger <= height
  /\ next \in Nat /\ last \in Nat /\ full \in BOOLEAN
  /\ pc \in {"idle", "fetch", "process", "ask", "save"}

(* Inside a page chain[.. last]: all before next is covered, lastLedger is the ledger
   reached, and a page that is not full ends with its ledger. *)
PageOK ==
  /\ last \in DOMAIN chain /\ next <= last + 1 /\ next >= 1
  /\ chain[last].ledger <= height
  /\ \A i \in DOMAIN chain : i < next => i \in seen \union missed
  /\ next <= last => lastLedger <= chain[next].ledger
  /\ next > last => lastLedger = chain[last].ledger
  /\ ~full => \A i \in DOMAIN chain : i > last => chain[i].ledger > chain[last].ledger

(* All up to the event handled last has been handled, or moved past. *)
AtOK ==
  /\ at \in {0} \union DOMAIN chain
  /\ \A i \in DOMAIN chain : i <= at => i \in seen \union missed

(* The inductive invariant of the loop. *)
IInv ==
  /\ ChainOK /\ LoopOK
  /\ AtOK
  /\ Covered(cursor_state)
  /\ pc \in {"idle", "ask", "save"} => Covered(lastLedger)
  /\ pc = "fetch" =>
       /\ cursorLedger \in {lastLedger, lastLedger + 1}
       /\ Covered(cursorLedger - 1)
  /\ pc = "process" => PageOK

-----------------------------------------------------------------------------
LEMMA IInvInit == Init => IInv
<1>. SUFFICES ASSUME Init PROVE IInv
  OBVIOUS
<1>1. ChainOK
  BY DEF Init, ChainOK
<1>2. LoopOK
  <2>1. full \in BOOLEAN /\ pc \in {"idle", "fetch", "process", "ask", "save"}
    BY Zenon DEF Init
  <2>. QED
    BY <2>1 DEF Init, LoopOK
<1>. QED
  BY <1>1, <1>2 DEF Init, IInv, AtOK, Covered, CoveredBy, PageOK

LEMMA Ledgers ==
  ASSUME ChainOK, NEW i \in DOMAIN chain
  PROVE  chain[i].ledger \in Nat \ {0} /\ i \in 1 .. Len(chain)
<1>1. chain[i] \in LedgersOf /\ i \in 1 .. Len(chain)
  BY DEF ChainOK
<1>. QED
  BY <1>1 DEF LedgersOf

(* What has been covered stays so, and a new event is above all closed ledgers. *)
LEMMA CoveredKept ==
  ASSUME ChainOK, NEW l \in Nat, Covered(l), chain' = chain,
         seen \union missed \subseteq seen' \union missed'
  PROVE  CoveredBy(chain', seen' \union missed', l)
BY DEF Covered, CoveredBy

(* The steps of the loop leave the chain alone and only add to the history. *)
LoopStep ==
  /\ UNCHANGED source
  /\ seen \union missed \subseteq seen' \union missed'
  /\ at' \in {0} \union DOMAIN chain
  /\ at' # at => /\ at' \in seen'
                 /\ \A i \in DOMAIN chain : i < at' => i \in seen \union missed

LEMMA LoopFrame ==
  ASSUME IInv, LoopStep
  PROVE  /\ ChainOK'
         /\ AtOK'
         /\ \A l \in Nat : Covered(l) => CoveredBy(chain', seen' \union missed', l)
<1>1. chain' = chain /\ height' = height
  BY DEF LoopStep, source
<1>2. ChainOK'
  BY <1>1 DEF IInv, ChainOK
<1>3. AtOK'
  <2>1. \A i \in DOMAIN chain : i \in Nat
    BY Ledgers DEF IInv
  <2>. QED
    BY <1>1, <2>1 DEF IInv, AtOK, LoopStep
<1>. QED
  BY <1>1, <1>2, <1>3, CoveredKept DEF IInv, LoopStep

(* What the loop skips on its way to ledger l, with all it has handled, covers it. *)
LEMMA SkipCovers ==
  ASSUME IInv, NEW l \in Nat, UNCHANGED <<source, seen, at>>, Skip(l)
  PROVE  LoopStep /\ CoveredBy(chain', seen' \union missed', l)
<1>1. \A i \in DOMAIN chain : i \in Nat
  BY Ledgers DEF IInv
<1>. QED
  BY <1>1 DEF IInv, AtOK, LoopStep, source, Skip, CoveredBy

(* The price an event tells is a place, or none. *)
LEMMA PriceIsPlace ==
  ASSUME ChainOK, NEW t, NEW a, NEW b
  PROVE  Price(t, a, b) \subseteq Nat
<1>1. /\ DOMAIN chain = 1 .. Len(chain) /\ Len(chain) \in Nat
      /\ \A i \in DOMAIN chain : chain[i].price \in Nat /\ i \in Nat
  <2>1. DOMAIN chain = 1 .. Len(chain) /\ Len(chain) \in Nat
    BY DEF ChainOK
  <2>2. \A i \in DOMAIN chain : chain[i] \in LedgersOf /\ i \in Nat
    BY <2>1 DEF ChainOK
  <2>. QED
    BY <2>1, <2>2 DEF LedgersOf
<1>. QED
  BY <1>1 DEF Price, Of

(* Publishing an event, and closing a ledger. *)
LEMMA IInvPublish ==
  ASSUME IInv, NEW t \in EventTypes, NEW a \in Auctions, NEW b \in Bidders,
         Publish(t, a, b)
  PROVE  IInv'
<1>0. PICK price \in Price(t, a, b) :
        chain' = Append(chain, [ledger |-> height + 1, type |-> t, auction |-> a,
                                bidder |-> b, price |-> price])
  BY DEF Publish
<1>. DEFINE e == [ledger |-> height + 1, type |-> t, auction |-> a, bidder |-> b,
                  price |-> price]
            n == Len(chain) + 1
<1>1. /\ chain' = Append(chain, e)
      /\ UNCHANGED <<height, cursor_state, pc, lastLedger, cursorLedger, next, last, full,
                     seen, missed, at>>
  BY <1>0 DEF Publish, memory, history
<1>2. chain \in Seq(LedgersOf) /\ height \in Nat /\ e \in LedgersOf
  BY PriceIsPlace DEF IInv, ChainOK, LedgersOf
<1>3. /\ DOMAIN chain' = DOMAIN chain \union {n}
      /\ \A i \in DOMAIN chain : chain'[i] = chain[i] /\ i < n /\ i \in Nat
      /\ chain'[n] = e /\ n \in Nat /\ n \notin DOMAIN chain
  BY <1>1, <1>2
<1>4. ChainOK'
  <2>1. \A i \in DOMAIN chain : chain[i].ledger \in Nat /\ chain[i].ledger <= height + 1
    BY Ledgers DEF IInv, ChainOK
  <2>2. chain' \in Seq(LedgersOf) /\ height' \in Nat
    BY <1>1, <1>2
  <2>3. \A i, j \in DOMAIN chain' : i <= j => chain'[i].ledger <= chain'[j].ledger
    BY <1>2, <1>3, <2>1 DEF IInv, ChainOK
  <2>4. \A i \in DOMAIN chain' : chain'[i].ledger <= height' + 1
    BY <1>1, <1>2, <1>3, <2>1
  <2>. QED
    BY <2>2, <2>3, <2>4 DEF ChainOK
<1>5. LoopOK'
  BY <1>1 DEF IInv, LoopOK
<1>6. \A l \in Int : l <= height /\ Covered(l) => CoveredBy(chain', seen' \union missed', l)
  BY <1>1, <1>2, <1>3 DEF Covered, CoveredBy
<1>7. Covered(cursor_state)' /\ (pc \in {"idle", "ask", "save"} => Covered(lastLedger))'
  <2>1. \A l \in {cursor_state, lastLedger} : l \in Int /\ l <= height
    BY DEF IInv, LoopOK
  <2>. QED
    BY <1>1, <1>6, <2>1 DEF IInv, Covered
<1>8. ASSUME pc' = "fetch"
      PROVE  cursorLedger' \in {lastLedger', lastLedger' + 1} /\ Covered(cursorLedger - 1)'
  <2>1. /\ cursorLedger \in {lastLedger, lastLedger + 1} /\ Covered(cursorLedger - 1)
        /\ cursorLedger - 1 \in Int /\ cursorLedger - 1 <= height
    BY <1>1, <1>2, <1>8 DEF IInv, LoopOK
  <2>. QED
    BY <1>1, <1>6, <2>1 DEF Covered
<1>9. ASSUME pc' = "process" PROVE PageOK'
  <2>1. PageOK
    BY <1>1, <1>9 DEF IInv
  <2>2. last \in DOMAIN chain /\ next \in Nat /\ last < n /\ next <= n
    BY <1>3, <2>1 DEF IInv, LoopOK, PageOK
  <2>3. \A i \in DOMAIN chain' : i < next' => i \in seen' \union missed'
    BY <1>1, <1>3, <2>1, <2>2 DEF PageOK
  <2>4. next <= last => next \in DOMAIN chain
    BY <1>2, <2>1, <2>2 DEF PageOK
  <2>5. ~full => \A i \in DOMAIN chain' : i > last => chain'[i].ledger > chain'[last].ledger
    BY <1>2, <1>3, <2>1, <2>2, Ledgers DEF PageOK, IInv
  <2>. QED
    BY <1>1, <1>3, <2>1, <2>2, <2>3, <2>4, <2>5 DEF PageOK
<1>10. AtOK'
  <2>1. at \in {0} \union DOMAIN chain
    BY DEF IInv, AtOK
  <2>. QED
    BY <1>1, <1>2, <1>3, <2>1 DEF IInv, AtOK
<1>. QED
  BY <1>4, <1>5, <1>7, <1>8, <1>9, <1>10 DEF IInv

LEMMA IInvCloseLedger ==
  ASSUME IInv, CloseLedger
  PROVE  IInv'
<1>1. /\ height' = height + 1 /\ height \in Nat
      /\ UNCHANGED <<chain, cursor_state, pc, lastLedger, cursorLedger, next, last, full,
                     seen, missed, at>>
  BY DEF CloseLedger, memory, history, IInv, ChainOK
<1>2. ChainOK'
  <2>1. \A i \in DOMAIN chain : chain[i].ledger \in Nat
    BY Ledgers DEF IInv
  <2>. QED
    BY <1>1, <2>1 DEF IInv, ChainOK
<1>3. LoopOK'
  BY <1>1 DEF IInv, LoopOK
<1>4. pc = "process" => PageOK'
  <2>. SUFFICES ASSUME pc = "process" PROVE PageOK'
    OBVIOUS
  <2>1. PageOK /\ chain[last].ledger \in Nat
    BY Ledgers DEF IInv, PageOK
  <2>. QED
    BY <1>1, <2>1 DEF PageOK
<1>. QED
  BY <1>1, <1>2, <1>3, <1>4 DEF IInv, AtOK, Covered

-----------------------------------------------------------------------------
(* The steps of the loop. *)

(* A step that stays outside a page: what is left to show of it. *)
LEMMA IInvOutside ==
  ASSUME IInv, LoopStep, cursor_state' = cursor_state,
         LoopOK', pc' # "process", Covered(lastLedger)',
         pc' = "fetch" => cursorLedger' = lastLedger' + 1
  PROVE  IInv'
<1>1. ChainOK' /\ AtOK' /\ Covered(cursor_state)'
  BY LoopFrame DEF IInv, LoopOK, Covered
<1>2. pc' = "fetch" => Covered(cursorLedger - 1)'
  BY DEF LoopOK, Covered
<1>. QED
  BY <1>1, <1>2 DEF IInv, LoopOK

LEMMA IInvLoadCursor ==
  ASSUME IInv, LoadCursor
  PROVE  IInv'
<1>1. /\ UNCHANGED <<chain, height, cursor_state, pc, cursorLedger, next, last, full,
                     seen, at>>
      /\ lastLedger' = cursor_state /\ pc = "idle" /\ Skip(cursor_state)
  BY DEF LoadCursor, source
<1>2. LoopStep /\ Covered(lastLedger)'
  BY <1>1, SkipCovers DEF source, IInv, LoopOK, Covered
<1>3. LoopOK'
  BY <1>1 DEF IInv, LoopOK
<1>. QED
  BY <1>1, <1>2, <1>3, IInvOutside

LEMMA IInvStartBlind ==
  ASSUME IInv, StartBlind
  PROVE  IInv'
<1>1. /\ UNCHANGED <<chain, height, cursor_state, pc, cursorLedger, next, last, full,
                     seen, at>>
      /\ lastLedger' = StartLedger /\ pc = "idle" /\ Skip(StartLedger)
  BY DEF StartBlind, source
<1>2. StartLedger \in Nat /\ StartLedger <= height
  BY SizesAssumption DEF StartLedger, Highest, IInv, ChainOK
<1>3. LoopStep /\ Covered(lastLedger)'
  BY <1>1, <1>2, SkipCovers DEF source, Covered
<1>4. LoopOK'
  BY <1>1, <1>2 DEF IInv, LoopOK
<1>. QED
  BY <1>1, <1>3, <1>4, IInvOutside

LEMMA IInvStartPoll ==
  ASSUME IInv, StartPoll
  PROVE  IInv'
<1>1. /\ UNCHANGED <<chain, height, cursor_state, lastLedger, next, last, full,
                     seen, missed, at>>
      /\ pc = "idle" /\ pc' = "fetch" /\ cursorLedger' = lastLedger + 1
  BY DEF StartPoll, source, history
<1>2. LoopStep /\ LoopOK'
  BY <1>1 DEF LoopStep, source, IInv, AtOK, LoopOK
<1>3. Covered(lastLedger)'
  BY <1>1 DEF IInv, Covered
<1>. QED
  BY <1>1, <1>2, <1>3, IInvOutside

(* Where a page of getEvents ends: before it all is covered; it is in closed ledgers,
   and if the limit did not cut it off, so is nothing after it. *)
LEMMA PageEnds ==
  ASSUME ChainOK, NEW start \in Nat,
         NEW from \in 1 .. Len(chain) + 1, NEW to \in 0 .. Len(chain),
         IsPage(start, from, to)
  PROVE  /\ \A i \in DOMAIN chain : i < from => chain[i].ledger <= start - 1
         /\ \A i \in DOMAIN chain : i >= from => chain[i].ledger >= start
         /\ from <= to => to \in DOMAIN chain /\ chain[to].ledger <= height
         /\ to - from + 1 # BatchSize =>
              \A i \in DOMAIN chain : i > to => chain[i].ledger > height
<1>1. /\ DOMAIN chain = 1 .. Len(chain) /\ Len(chain) \in Nat /\ height \in Nat
      /\ \A i \in DOMAIN chain : chain[i].ledger \in Nat
  BY Ledgers DEF ChainOK
<1>2. /\ \A i \in DOMAIN chain : i < from <=> chain[i].ledger < start
      /\ \A i \in DOMAIN chain :
           i >= from => (i <= to <=> chain[i].ledger <= height /\ i - from < BatchSize)
      /\ to >= from - 1
  BY DEF IsPage, Visible
<1>3. from <= to => to \in DOMAIN chain /\ chain[to].ledger <= height
  BY <1>1, <1>2
<1>4. ASSUME to - from + 1 # BatchSize, NEW i \in DOMAIN chain, i > to
      PROVE  chain[i].ledger > height
  <2>1. to + 1 \in DOMAIN chain /\ to + 1 >= from
    BY <1>1, <1>2, <1>4
  <2>2. to + 1 - from < BatchSize
    <3>1. CASE from <= to
      <4>1. to - from < BatchSize
        BY <1>2, <1>3, <3>1
      <4>. QED
        BY <1>4, <4>1, SizesAssumption
    <3>2. CASE from > to
      BY <1>2, <3>2, SizesAssumption
    <3>. QED
      BY <3>1, <3>2
  <2>3. ~(chain[to + 1].ledger <= height)
    <3>. DEFINE k == to + 1
    <3>1. k \in DOMAIN chain /\ k >= from /\ k - from < BatchSize /\ ~(k <= to)
      BY <2>1, <2>2
    <3>. HIDE DEF k
    <3>2. ~(chain[k].ledger <= height)
      BY <1>2, <3>1
    <3>. QED
      BY <3>2 DEF k
  <2>4. chain[to + 1].ledger <= chain[i].ledger
    BY <1>1, <1>4, <2>1 DEF ChainOK
  <2>. QED
    BY <1>1, <2>1, <2>3, <2>4
<1>. QED
  BY <1>1, <1>2, <1>3, <1>4

LEMMA IInvFetchPage ==
  ASSUME IInv, FetchPage
  PROVE  IInv'
<1>1. /\ UNCHANGED <<chain, height, cursor_state, lastLedger, cursorLedger, seen, missed,
                     at>>
      /\ pc = "fetch"
  BY DEF FetchPage, source, history
<1>2. PICK from \in 1 .. Len(chain) + 1, to \in 0 .. Len(chain) :
        /\ IsPage(cursorLedger, from, to)
        /\ IF from > to
           THEN pc' = "ask" /\ UNCHANGED <<next, last, full>>
           ELSE pc' = "process" /\ next' = from /\ last' = to
                /\ full' = (to - from + 1 = BatchSize)
  BY DEF FetchPage
<1>3. /\ cursorLedger \in {lastLedger, lastLedger + 1} /\ lastLedger <= height
      /\ Covered(cursorLedger - 1) /\ cursorLedger \in Nat /\ lastLedger \in Nat
      /\ ChainOK /\ height \in Nat
      /\ DOMAIN chain = 1 .. Len(chain) /\ Len(chain) \in Nat
  BY <1>1 DEF IInv, LoopOK, ChainOK
<1>4. /\ \A i \in DOMAIN chain : i < from => chain[i].ledger <= cursorLedger - 1
      /\ \A i \in DOMAIN chain : i >= from => chain[i].ledger >= cursorLedger
      /\ from <= to => to \in DOMAIN chain /\ chain[to].ledger <= height
      /\ to - from + 1 # BatchSize =>
           \A i \in DOMAIN chain : i > to => chain[i].ledger > height
  BY <1>2, <1>3, PageEnds
<1>5. \A i \in DOMAIN chain : chain[i].ledger \in Nat
  BY <1>3, Ledgers
<1>6. \A i \in DOMAIN chain : i < from => i \in seen \union missed
  BY <1>3, <1>4 DEF Covered, CoveredBy
<1>7. LoopStep
  BY <1>1 DEF LoopStep, source, IInv, AtOK
<1>8. CASE from > to
  <2>1. to = from - 1
    BY <1>2, <1>8 DEF IsPage
  <2>2. \A i \in DOMAIN chain : i > to => chain[i].ledger > height
    BY <1>4, <2>1, SizesAssumption
  <2>3. Covered(lastLedger)
    BY <1>3, <1>5, <1>6, <2>1, <2>2 DEF Covered, CoveredBy
  <2>4. LoopOK'
    BY <1>1, <1>2, <1>8 DEF IInv, LoopOK
  <2>5. Covered(lastLedger)'
    BY <1>1, <2>3 DEF Covered
  <2>. QED
    BY <1>1, <1>2, <1>7, <1>8, <2>4, <2>5, IInvOutside
<1>9. CASE from <= to
  <2>1. pc' = "process" /\ next' = from /\ last' = to /\ full' = (to - from + 1 = BatchSize)
    BY <1>2, <1>9
  <2>2. full' \in BOOLEAN /\ (~full' => to - from + 1 # BatchSize)
    BY <2>1, Zenon
  <2>3. LoopOK'
    BY <1>1, <2>1, <2>2 DEF IInv, LoopOK
  <2>4. from \in DOMAIN chain /\ lastLedger <= chain[from].ledger
    BY <1>3, <1>4, <1>5, <1>9
  <2>5. ~full' => \A i \in DOMAIN chain : i > to => chain[i].ledger > chain[to].ledger
    BY <1>3, <1>4, <1>5, <1>9, <2>2
  <2>6. PageOK'
    BY <1>1, <1>3, <1>4, <1>6, <1>9, <2>1, <2>4, <2>5 DEF PageOK
  <2>7. ChainOK' /\ AtOK' /\ Covered(cursor_state)'
    BY <1>1, <1>7, LoopFrame DEF IInv, LoopOK, Covered
  <2>. QED
    BY <2>1, <2>3, <2>6, <2>7 DEF IInv
<1>. QED
  BY <1>8, <1>9

LEMMA IInvFetchFails ==
  ASSUME IInv, FetchFails
  PROVE  IInv'
<1>1. /\ UNCHANGED <<chain, height, cursor_state, lastLedger, seen, at>>
      /\ pc' = "idle" /\ cursorLedger' = 0 /\ next' = 1 /\ last' = 0 /\ full' = FALSE
      /\ Skip(lastLedger)
  BY DEF FetchFails, Return, source
<1>2. full' \in BOOLEAN
  BY <1>1, Zenon
<1>3. LoopStep /\ Covered(lastLedger)'
  BY <1>1, SkipCovers DEF source, IInv, LoopOK, Covered
<1>4. LoopOK'
  BY <1>1, <1>2 DEF IInv, LoopOK
<1>. QED
  BY <1>1, <1>3, <1>4, IInvOutside

(* Going on from the latest ledger skips what closed since the empty page: missed. *)
LEMMA IInvAskLatest ==
  ASSUME IInv, AskLatest
  PROVE  IInv'
<1>1. /\ UNCHANGED <<chain, height, cursor_state, cursorLedger, next, last, full, seen, at>>
      /\ pc = "ask" /\ pc' = "save"
      /\ \/ lastLedger' = height /\ Skip(height)
         \/ UNCHANGED <<lastLedger, missed>>
  BY DEF AskLatest, source
<1>2. LoopStep /\ Covered(lastLedger)'
  <2>1. CASE lastLedger' = height /\ Skip(height)
    BY <1>1, <2>1, SkipCovers DEF source, IInv, ChainOK, Covered
  <2>2. CASE UNCHANGED <<lastLedger, missed>>
    BY <1>1, <2>2 DEF LoopStep, source, IInv, AtOK, Covered
  <2>. QED
    BY <1>1, <2>1, <2>2
<1>3. LoopOK'
  BY <1>1 DEF IInv, LoopOK, ChainOK
<1>. QED
  BY <1>1, <1>2, <1>3, IInvOutside

(* lastLedger follows the ledgers of the events, whatever their handlers did. *)
LEMMA IInvProcessEvent ==
  ASSUME IInv, ProcessEvent
  PROVE  IInv'
<1>1. /\ UNCHANGED <<chain, height, cursor_state, pc, cursorLedger, last, full>>
      /\ pc = "process" /\ next <= last /\ next' = next + 1 /\ at' = next
      /\ seen' = seen \union {next} /\ missed' = missed \ {next}
      /\ lastLedger' = Highest(lastLedger, chain[next].ledger)
  BY DEF ProcessEvent, source
<1>2. PageOK /\ LoopOK /\ ChainOK
  BY <1>1 DEF IInv
<1>3. /\ DOMAIN chain = 1 .. Len(chain) /\ Len(chain) \in Nat
      /\ last \in DOMAIN chain /\ next \in DOMAIN chain
  BY <1>1, <1>2 DEF PageOK, ChainOK, LoopOK
<1>4. /\ \A i \in DOMAIN chain : chain[i].ledger \in Nat
      /\ \A i, j \in DOMAIN chain : i <= j => chain[i].ledger <= chain[j].ledger
      /\ chain[last].ledger <= height /\ height \in Nat
  BY <1>2, Ledgers DEF ChainOK, PageOK
<1>5. lastLedger' = chain[next].ledger
  BY <1>1, <1>2, <1>3, <1>4 DEF Highest, PageOK, LoopOK
<1>6. LoopStep
  BY <1>1, <1>2, <1>3 DEF LoopStep, source, PageOK
<1>7. LoopOK'
  <2>1. chain[next].ledger <= height
    BY <1>1, <1>3, <1>4
  <2>. QED
    BY <1>1, <1>2, <1>3, <1>4, <1>5, <2>1 DEF LoopOK
<1>8. PageOK'
  <2>1. next + 1 <= last + 1 /\ next + 1 >= 1
    BY <1>1, <1>3
  <2>2. \A i \in DOMAIN chain : i < next + 1 => i \in seen' \union missed'
    BY <1>1, <1>2, <1>3 DEF PageOK
  <2>3. next + 1 <= last =>
          next + 1 \in DOMAIN chain /\ chain[next].ledger <= chain[next + 1].ledger
    BY <1>3, <1>4
  <2>4. next + 1 > last => next = last
    BY <1>1, <1>3
  <2>. QED
    BY <1>1, <1>2, <1>4, <1>5, <2>1, <2>2, <2>3, <2>4 DEF PageOK
<1>9. ChainOK' /\ AtOK' /\ Covered(cursor_state)'
  BY <1>1, <1>2, <1>6, LoopFrame DEF IInv, LoopOK, Covered
<1>. QED
  BY <1>1, <1>7, <1>8, <1>9 DEF IInv

(* A full page: the next one starts with the ledger it ended in, so nothing is left
   out, although the ledger is read twice.  Another: the ledger is complete. *)
LEMMA IInvPageDone ==
  ASSUME IInv, PageDone
  PROVE  IInv'
<1>1. /\ UNCHANGED <<chain, height, cursor_state, lastLedger, next, last, full, seen, missed,
                     at>>
      /\ pc = "process" /\ next > last
      /\ IF full THEN pc' = "fetch" /\ cursorLedger' = lastLedger
                 ELSE pc' = "save" /\ UNCHANGED cursorLedger
  BY DEF PageDone, NextPage, source, history
<1>2. PageOK /\ LoopOK /\ ChainOK
  BY <1>1 DEF IInv
<1>3. /\ DOMAIN chain = 1 .. Len(chain) /\ Len(chain) \in Nat
      /\ last \in DOMAIN chain /\ lastLedger = chain[last].ledger
      /\ \A i \in DOMAIN chain : i <= last => i \in seen \union missed
  BY <1>1, <1>2 DEF PageOK, ChainOK, LoopOK
<1>4. /\ \A i \in DOMAIN chain : chain[i].ledger \in Nat
      /\ \A i, j \in DOMAIN chain : i <= j => chain[i].ledger <= chain[j].ledger
  BY <1>2, Ledgers DEF ChainOK
<1>5. LoopStep
  BY <1>1 DEF LoopStep, source, IInv, AtOK
<1>6. LoopOK'
  BY <1>1, <1>2 DEF LoopOK
<1>7. CASE full
  <2>1. pc' = "fetch" /\ cursorLedger' = lastLedger
    BY <1>1, <1>7
  <2>2. Covered(lastLedger - 1)
    <3>. SUFFICES ASSUME NEW i \in DOMAIN chain, chain[i].ledger <= lastLedger - 1
                  PROVE  i \in seen \union missed
      BY DEF Covered, CoveredBy
    <3>1. i <= last
      BY <1>3, <1>4
    <3>. QED
      BY <1>3, <3>1
  <2>3. Covered(cursorLedger - 1)'
    BY <1>1, <2>1, <2>2 DEF Covered
  <2>4. ChainOK' /\ AtOK' /\ Covered(cursor_state)'
    BY <1>1, <1>2, <1>5, LoopFrame DEF IInv, LoopOK, Covered
  <2>. QED
    BY <1>1, <1>6, <2>1, <2>3, <2>4 DEF IInv
<1>8. CASE ~full
  <2>1. pc' = "save"
    BY <1>1, <1>8
  <2>2. Covered(lastLedger)
    <3>. SUFFICES ASSUME NEW i \in DOMAIN chain, chain[i].ledger <= lastLedger
                  PROVE  i \in seen \union missed
      BY DEF Covered, CoveredBy
    <3>1. i <= last
      BY <1>2, <1>3, <1>4, <1>8 DEF PageOK
    <3>. QED
      BY <1>3, <3>1
  <2>3. Covered(lastLedger)'
    BY <1>1, <2>2 DEF Covered
  <2>. QED
    BY <1>1, <1>5, <1>6, <2>1, <2>3, IInvOutside
<1>. QED
  BY <1>2, <1>7, <1>8 DEF LoopOK

LEMMA IInvSaveCursor ==
  ASSUME IInv, SaveCursor
  PROVE  IInv'
<1>1. /\ UNCHANGED <<chain, height, lastLedger, seen, missed, at>>
      /\ pc = "save" /\ cursor_state' \in {lastLedger, cursor_state}
      /\ pc' = "idle" /\ cursorLedger' = 0 /\ next' = 1 /\ last' = 0 /\ full' = FALSE
  BY DEF SaveCursor, SavedLedger, Return, source, history
<1>2. full' \in BOOLEAN
  BY <1>1, Zenon
<1>3. LoopStep /\ LoopOK'
  BY <1>1, <1>2 DEF LoopStep, source, IInv, AtOK, LoopOK
<1>4. ChainOK' /\ AtOK'
  BY <1>3, LoopFrame
<1>5. Covered(cursor_state)' /\ Covered(lastLedger)'
  BY <1>1 DEF IInv, Covered
<1>. QED
  BY <1>1, <1>3, <1>4, <1>5 DEF IInv

(* A crash loses the memory of the loop; the stored cursor is behind it. *)
LEMMA IInvCrash ==
  ASSUME IInv, Crash
  PROVE  IInv'
<1>1. /\ UNCHANGED <<chain, height, cursor_state, seen, missed, at>>
      /\ lastLedger' = 0
      /\ pc' = "idle" /\ cursorLedger' = 0 /\ next' = 1 /\ last' = 0 /\ full' = FALSE
  BY DEF Crash, Return, source
<1>2. full' \in BOOLEAN
  BY <1>1, Zenon
<1>3. LoopStep /\ LoopOK'
  BY <1>1, <1>2 DEF LoopStep, source, IInv, AtOK, LoopOK, ChainOK
<1>4. Covered(lastLedger)'
  BY <1>1, Ledgers DEF IInv, Covered, CoveredBy
<1>. QED
  BY <1>1, <1>3, <1>4, IInvOutside

-----------------------------------------------------------------------------
LEMMA IInvNext == IInv /\ [Next]_vars => IInv'
<1>. SUFFICES ASSUME IInv, [Next]_vars PROVE IInv'
  OBVIOUS
<1>1. CASE \E t \in EventTypes, a \in Auctions, b \in Bidders : Publish(t, a, b)
  BY <1>1, IInvPublish
<1>2. CASE CloseLedger
  BY <1>2, IInvCloseLedger
<1>3. CASE Indexer
  BY <1>3, IInvLoadCursor, IInvStartBlind, IInvStartPoll, IInvFetchPage, IInvFetchFails,
     IInvAskLatest, IInvProcessEvent, IInvPageDone, IInvSaveCursor DEF Indexer
<1>4. CASE Crash
  BY <1>4, IInvCrash
<1>5. CASE UNCHANGED vars
  <2>1. UNCHANGED <<chain, height, cursor_state, pc, lastLedger, cursorLedger, next, last,
                    full, seen, missed, at>>
    BY <1>5 DEF vars, source, memory, history
  <2>. QED
    BY <2>1 DEF IInv, ChainOK, LoopOK, PageOK, AtOK, Covered
<1>. QED
  BY <1>1, <1>2, <1>3, <1>4, <1>5 DEF Next

(* A restarted indexer resumes where every event at or below the stored cursor has been
   handed to its handler, or is among those the code is known to move past - whatever
   pages, failed calls and crashes came before, for every batch size and chain. *)
THEOREM CursorNeverAhead == Spec => []CursorCovers
<1>1. IInv => CursorCovers
  BY DEF IInv, Covered, CoveredBy, CursorCovers
<1>. QED
  BY <1>1, IInvInit, IInvNext, PTL DEF Spec

-----------------------------------------------------------------------------
(* Handlers.  A handler has at most three statements, run one after the other. *)

Runs(ran, db, i, e) ==
  ran = [n \in 0 .. Len(Statements(e)) |->
           IF n = 0 THEN db ELSE Exec(ran[n - 1], Statements(e)[n], i, e)]

RefundTopics == {"bid_refunded", "bid_out"}

Handlers ==
  { <<"upsertAuction", "insertEvent">>,
    <<"insertBid", "updateAuctionOnBid", "insertEvent">>,
    <<"markBidRefunded", "insertEvent">>,
    <<"updateAuctionOnClose", "insertEvent">>,
    <<"updateAuctionOnSettle", "insertEvent">>,
    <<"updateAuctionOnCancel", "insertEvent">>,
    <<"updateAuctionOnAttestation", "insertEvent">>,
    <<"insertEvent">>, <<>> }

LEMMA StatementsOf == ASSUME NEW e PROVE Statements(e) \in Handlers
BY DEF Statements, Handlers

LEMMA AtMostThree ==
  ASSUME NEW e
  PROVE  Len(Statements(e)) \in 0 .. 3
BY StatementsOf DEF Handlers

(* What running a handler means, statement by statement. *)
LEMMA RunUnfolds ==
  ASSUME NEW db, NEW i, NEW e, NEW k \in 0 .. Len(Statements(e))
  PROVE  RunHandler(db, i, e, k) =
           IF k = 0 THEN db ELSE Exec(RunHandler(db, i, e, k - 1), Statements(e)[k], i, e)
<1>. DEFINE s == Statements(e)
            len == Len(s)
            d1 == Exec(db, s[1], i, e)
            d2 == Exec(d1, s[2], i, e)
            d3 == Exec(d2, s[3], i, e)
            steps == [n \in 0 .. len |-> IF n = 0 THEN db ELSE IF n = 1 THEN d1
                                         ELSE IF n = 2 THEN d2 ELSE d3]
            ran == CHOOSE g : Runs(g, db, i, e)
<1>1. len \in 0 .. 3
  BY AtMostThree
<1>2. Runs(steps, db, i, e)
  <2>. DEFINE step(n) == IF n = 0 THEN db ELSE Exec(steps[n - 1], s[n], i, e)
  <2>1. ASSUME NEW n \in 0 .. len PROVE steps[n] = step(n)
    <3>1. CASE n = 0
      BY <3>1, <1>1
    <3>2. CASE n = 1
      BY <3>2, <1>1
    <3>3. CASE n = 2
      BY <3>3, <1>1
    <3>4. CASE n = 3
      BY <3>4, <1>1
    <3>. QED
      BY <1>1, <2>1, <3>1, <3>2, <3>3, <3>4
  <2>2. steps = [n \in 0 .. len |-> step(n)]
    <3>. HIDE DEF step, d1, d2, d3, s
    <3>. QED
      BY <2>1
  <2>. QED
    BY <2>2 DEF Runs
<1>3. Runs(ran, db, i, e)
  <2>. HIDE DEF steps
  <2>. QED
    BY <1>2
<1>4. \A n : RunHandler(db, i, e, n) = ran[n]
  BY DEF RunHandler, Runs
<1>. HIDE DEF ran
<1>5. ran = [n \in 0 .. len |-> IF n = 0 THEN db ELSE Exec(ran[n - 1], s[n], i, e)]
  BY <1>3 DEF Runs
<1>. HIDE DEF s
<1>6. ran[k] = IF k = 0 THEN db ELSE Exec(ran[k - 1], s[k], i, e)
  BY <1>1, <1>5 DEF s
<1>. QED
  BY <1>4, <1>6 DEF s

(* What a handler does to the tables, before it records the event. *)
Change(db, i, e) ==
  LET t == Topic(e) IN
  CASE t = "auction_created"      -> UpsertAuction(db, e)
    [] t = "bid_placed"           -> UpdateAuctionOnBid(InsertBid(db, i, e), i, e)
    [] t \in RefundTopics         -> MarkBidRefunded(db, e)
    [] t = "auction_closed"       -> UpdateAuctionOnClose(db, e)
    [] t = "auction_settled"      -> UpdateAuctionOnSettle(db, e)
    [] t = "auction_cancelled"    -> UpdateAuctionOnCancel(db, e)
    [] t = "attestation_recorded" -> UpdateAuctionOnAttestation(db, e)
    [] OTHER                      -> db

(* What one that was cut short may leave. *)
Partial(db, i, e) ==
  {db, Change(db, i, e)} \union
  (IF Topic(e) = "bid_placed" THEN {InsertBid(db, i, e)} ELSE {})

(* A handler that completes changes the tables and records the event, if it knows the
   topic; one cut short leaves part of the change. *)
LEMMA HandlerRuns ==
  ASSUME NEW db, NEW i, NEW e, NEW k \in 0 .. Len(Statements(e))
  PROVE  /\ \E c \in Partial(db, i, e) :
              RunHandler(db, i, e, k) \in {c, InsertEvent(c, i, e)}
         /\ k = Len(Statements(e)) =>
              RunHandler(db, i, e, k) =
                IF Topic(e) \in Handled THEN InsertEvent(Change(db, i, e), i, e) ELSE db
<1>. DEFINE t == Topic(e)
            run(n) == RunHandler(db, i, e, n)
            s == Statements(e)
<1>1. /\ run(0) = db
      /\ \A n \in 1 .. 3 : n <= Len(s) => run(n) = Exec(run(n - 1), s[n], i, e)
  <2>1. Len(s) \in Nat
    BY AtMostThree
  <2>2. run(0) = db
    BY <2>1, RunUnfolds
  <2>3. ASSUME NEW n \in 1 .. 3, n <= Len(s) PROVE run(n) = Exec(run(n - 1), s[n], i, e)
    <3>1. n \in 0 .. Len(Statements(e)) /\ n # 0
      BY <2>1, <2>3
    <3>. QED
      BY <3>1, RunUnfolds
  <2>. QED
    BY <2>2, <2>3
<1>2. ASSUME NEW x, NEW y, s = <<x, "insertEvent">>,
             y = Exec(db, x, i, e), y = Change(db, i, e), t \in Handled
      PROVE  /\ \E c \in Partial(db, i, e) : run(k) \in {c, InsertEvent(c, i, e)}
             /\ k = Len(s) =>
                  run(k) = IF t \in Handled THEN InsertEvent(Change(db, i, e), i, e) ELSE db
  <2>1. Len(s) = 2 /\ s[1] = x /\ s[2] = "insertEvent" /\ k \in 0 .. 2
    BY <1>2
  <2>. HIDE DEF run, s, t
  <2>2. run(1) = Exec(run(0), s[1], i, e) /\ run(2) = Exec(run(1), s[2], i, e)
    BY <1>1, <2>1
  <2>3. run(1) = y
    BY <1>1, <1>2, <2>1, <2>2
  <2>4. run(2) = InsertEvent(y, i, e)
    BY <2>1, <2>2, <2>3 DEF Exec
  <2>5. k = 0 \/ k = 1 \/ k = 2
    BY <2>1
  <2>. QED
    BY <1>1, <1>2, <2>1, <2>3, <2>4, <2>5 DEF Partial, run, s, t
<1>3. CASE t = "auction_created"
  BY <1>2, <1>3 DEF Statements, Exec, Change, Handled, Broadcast, RefundTopics
<1>4. CASE t \in RefundTopics
  BY <1>2, <1>4 DEF Statements, Exec, Change, Handled, Broadcast, RefundTopics
<1>5. CASE t = "auction_closed"
  BY <1>2, <1>5 DEF Statements, Exec, Change, Handled, Broadcast, RefundTopics
<1>6. CASE t = "auction_settled"
  BY <1>2, <1>6 DEF Statements, Exec, Change, Handled, Broadcast, RefundTopics
<1>7. CASE t = "auction_cancelled"
  BY <1>2, <1>7 DEF Statements, Exec, Change, Handled, Broadcast, RefundTopics
<1>8. CASE t = "attestation_recorded"
  BY <1>2, <1>8 DEF Statements, Exec, Change, Handled, Broadcast, RefundTopics
<1>9. CASE t = "bid_placed"
  <2>1. s = <<"insertBid", "updateAuctionOnBid", "insertEvent">>
    BY <1>9 DEF Statements
  <2>2. /\ Len(s) = 3 /\ k \in 0 .. 3
        /\ s[1] = "insertBid" /\ s[2] = "updateAuctionOnBid" /\ s[3] = "insertEvent"
    BY <2>1
  <2>3. Change(db, i, e) = UpdateAuctionOnBid(InsertBid(db, i, e), i, e) /\ t \in Handled
    BY <1>9 DEF Change, Handled, Broadcast, RefundTopics
  <2>. HIDE DEF run, s
  <2>4. /\ run(1) = Exec(run(0), s[1], i, e)
        /\ run(2) = Exec(run(1), s[2], i, e)
        /\ run(3) = Exec(run(2), s[3], i, e)
    BY <1>1, <2>2
  <2>5. run(1) = InsertBid(db, i, e)
    BY <1>1, <2>2, <2>4 DEF Exec
  <2>6. run(2) = Change(db, i, e)
    BY <2>2, <2>3, <2>4, <2>5 DEF Exec
  <2>7. run(3) = InsertEvent(Change(db, i, e), i, e)
    BY <2>2, <2>4, <2>6 DEF Exec
  <2>8. k = 0 \/ k = 1 \/ k = 2 \/ k = 3
    BY <2>2
  <2>. QED
    BY <1>1, <1>9, <2>2, <2>3, <2>5, <2>6, <2>7, <2>8 DEF Partial, run, s, t
<1>10. CASE t = "auc_ext"
  <2>1. s = <<"insertEvent">> /\ Change(db, i, e) = db /\ t \in Handled
    BY <1>10 DEF Statements, Change, Handled, RefundTopics
  <2>2. Len(s) = 1 /\ k \in 0 .. 1 /\ s[1] = "insertEvent"
    BY <2>1
  <2>. HIDE DEF run, s
  <2>3. run(1) = InsertEvent(db, i, e)
    BY <1>1, <2>2 DEF Exec
  <2>4. k = 0 \/ k = 1
    BY <2>2
  <2>. QED
    BY <1>1, <2>1, <2>2, <2>3, <2>4 DEF Partial, run, s, t
<1>11. CASE t \notin Handled
  <2>1. s = << >>
    BY <1>11 DEF Statements, Handled, Broadcast
  <2>2. Len(s) = 0 /\ k = 0
    BY <2>1
  <2>. HIDE DEF run, s
  <2>. QED
    BY <1>1, <1>11, <2>2 DEF Partial, run, s, t
<1>. QED
  BY <1>3, <1>4, <1>5, <1>6, <1>7, <1>8, <1>9, <1>10, <1>11
    DEF Handled, Broadcast, RefundTopics

-----------------------------------------------------------------------------
(* What a handler does to the tables, by table. *)

Tables == [auctions : [Auctions -> Rows \union {None}],
           bids : SUBSET BidRows, events : SUBSET EventRows]
Published == [ledger : 1 .. MaxHeight, type : EventTypes,
              auction : Auctions, bidder : Bidders, price : 0 .. MaxEvents]

Columns == {"status", "highest", "highest_bidder", "attested", "proceeds"}

(* The columns an event of topic t sets. *)
Sets(t) ==
  CASE t = "auction_created"      -> Columns
    [] t \in {"bid_placed", "auction_closed"} -> {"status", "highest", "highest_bidder"}
    [] t = "auction_settled"      -> {"status", "proceeds"}
    [] t = "auction_cancelled"    -> {"status"}
    [] t = "attestation_recorded" -> {"attested"}
    [] OTHER                      -> {}

StatusAfter(t) ==
  CASE t = "auction_created"   -> "created"
    [] t = "bid_placed"        -> "active"
    [] t = "auction_closed"    -> "closed"
    [] t = "auction_settled"   -> "settled"
    [] t = "auction_cancelled" -> "cancelled"

(* The value in column f of a row that may be missing. *)
Value(row, f) ==
  IF row = None THEN {}
  ELSE CASE f = "status"   -> {row.status}
         [] f = "highest"  -> {row.highest}
         [] f = "highest_bidder" -> {row.highest_bidder}
         [] f = "attested" -> {row.attested}
         [] f = "proceeds" -> {row.proceeds}

(* What e sets column f to, if it is at place i. *)
ValueSet(e, i, f) ==
  LET t == Topic(e) IN
  CASE f = "status"   -> {StatusAfter(t)}
    [] f = "highest"  -> {CASE t = "bid_placed" -> i [] t = "auction_closed" -> e.price
                            [] OTHER -> 0}
    [] f = "highest_bidder" ->
         {IF t \in {"bid_placed", "auction_closed"} THEN e.bidder ELSE None}
    [] f = "attested" -> {t = "attestation_recorded"}
    [] f = "proceeds" -> {t = "auction_settled"}

(* Only auction_created makes a row; the others update one that is there. *)
Wrote(old, new, e, i) ==
  IF old = None /\ Topic(e) # "auction_created" THEN new = None
  ELSE /\ new # None
       /\ \A f \in Columns : Value(new, f) =
            IF f \in Sets(Topic(e)) THEN ValueSet(e, i, f) ELSE Value(old, f)

LEMMA UpdatedRow ==
  ASSUME NEW db \in Tables, NEW e \in Published, NEW row \in Rows
  PROVE  LET d == UpdateAuction(db, e, row)
         IN  /\ d \in Tables
             /\ d.bids = db.bids /\ d.events = db.events
             /\ \A a \in Auctions \ {e.auction} : d.auctions[a] = db.auctions[a]
             /\ d.auctions[e.auction] = IF db.auctions[e.auction] = None THEN None ELSE row
BY DEF UpdateAuction, Tables, Published

LEMMA UpdatedNothing ==
  ASSUME NEW db \in Tables, NEW e \in Published, NEW row, db.auctions[e.auction] = None
  PROVE  UpdateAuction(db, e, row) = db
BY DEF UpdateAuction

(* The row that the handler of e, at place i, writes over row. *)
RowWith(row, e, i) ==
  LET t == Topic(e) IN
  CASE t = "bid_placed" ->
         [row EXCEPT !.highest = i, !.highest_bidder = e.bidder, !.status = "active"]
    [] t = "auction_closed" ->
         [row EXCEPT !.status = "closed", !.highest = e.price, !.highest_bidder = e.bidder]
    [] t = "auction_settled" ->
         [row EXCEPT !.status = "settled", !.proceeds = TRUE]
    [] t = "auction_cancelled" ->
         [row EXCEPT !.status = "cancelled"]
    [] t = "attestation_recorded" ->
         [row EXCEPT !.attested = TRUE]

UpdateTopics ==
  {"bid_placed", "auction_closed", "auction_settled", "auction_cancelled",
   "attestation_recorded"}

(* What the update of each topic writes. *)
LEMMA RowUpdates ==
  ASSUME NEW row \in Rows, NEW e \in Published, Topic(e) \in UpdateTopics,
         NEW i \in 1 .. MaxEvents
  PROVE  /\ RowWith(row, e, i) \in Rows
         /\ \A f \in Columns : Value(RowWith(row, e, i), f) =
              IF f \in Sets(Topic(e)) THEN ValueSet(e, i, f) ELSE Value(row, f)
<1>. DEFINE t == Topic(e)
            new == RowWith(row, e, i)
<1>0. /\ row # None
      /\ row.status \in {"created", "active", "closed", "settled", "cancelled"}
      /\ row.highest \in 0 .. MaxEvents /\ i \in 0 .. MaxEvents
      /\ row.highest_bidder \in Bidders \union {None}
      /\ row.attested \in BOOLEAN /\ row.proceeds \in BOOLEAN
      /\ e.bidder \in Bidders /\ e.price \in 0 .. MaxEvents
  BY NoneAssumption DEF Rows, Published
<1>1. CASE t = "bid_placed"
  <2>0. new = [row EXCEPT !.highest = i, !.highest_bidder = e.bidder, !.status = "active"]
    BY <1>1 DEF RowWith
  <2>. HIDE DEF new
  <2>1. new \in Rows /\ new # None
    BY <1>0, <2>0, NoneAssumption DEF Rows
  <2>2. /\ new.status = "active" /\ new.highest = i /\ new.highest_bidder = e.bidder
        /\ new.attested = row.attested /\ new.proceeds = row.proceeds
    BY <2>0 DEF Rows
  <2>3. ASSUME NEW f \in Columns
        PROVE  Value(new, f) = IF f \in Sets(t) THEN ValueSet(e, i, f) ELSE Value(row, f)
    BY <1>0, <1>1, <2>1, <2>2 DEF Columns, Value, Sets, ValueSet, StatusAfter
  <2>. QED
    BY <2>1, <2>3 DEF new
<1>2. CASE t = "auction_closed"
  <2>0. new = [row EXCEPT !.status = "closed", !.highest = e.price, !.highest_bidder = e.bidder]
    BY <1>2 DEF RowWith
  <2>. HIDE DEF new
  <2>1. new \in Rows /\ new # None
    BY <1>0, <2>0, NoneAssumption DEF Rows
  <2>2. /\ new.status = "closed" /\ new.highest = e.price /\ new.highest_bidder = e.bidder
        /\ new.attested = row.attested /\ new.proceeds = row.proceeds
    BY <2>0 DEF Rows
  <2>3. ASSUME NEW f \in Columns
        PROVE  Value(new, f) = IF f \in Sets(t) THEN ValueSet(e, i, f) ELSE Value(row, f)
    BY <1>0, <1>2, <2>1, <2>2 DEF Columns, Value, Sets, ValueSet, StatusAfter
  <2>. QED
    BY <2>1, <2>3 DEF new
<1>3. CASE t = "auction_settled"
  <2>0. new = [row EXCEPT !.status = "settled", !.proceeds = TRUE]
    BY <1>3 DEF RowWith
  <2>. HIDE DEF new
  <2>1. new \in Rows /\ new # None
    BY <1>0, <2>0, NoneAssumption DEF Rows
  <2>2. /\ new.status = "settled" /\ new.highest = row.highest /\ new.highest_bidder = row.highest_bidder
        /\ new.attested = row.attested /\ new.proceeds = TRUE
    BY <2>0 DEF Rows
  <2>3. ASSUME NEW f \in Columns
        PROVE  Value(new, f) = IF f \in Sets(t) THEN ValueSet(e, i, f) ELSE Value(row, f)
    BY <1>0, <1>3, <2>1, <2>2 DEF Columns, Value, Sets, ValueSet, StatusAfter
  <2>. QED
    BY <2>1, <2>3 DEF new
<1>4. CASE t = "auction_cancelled"
  <2>0. new = [row EXCEPT !.status = "cancelled"]
    BY <1>4 DEF RowWith
  <2>. HIDE DEF new
  <2>1. new \in Rows /\ new # None
    BY <1>0, <2>0, NoneAssumption DEF Rows
  <2>2. /\ new.status = "cancelled" /\ new.highest = row.highest /\ new.highest_bidder = row.highest_bidder
        /\ new.attested = row.attested /\ new.proceeds = row.proceeds
    BY <2>0 DEF Rows
  <2>3. ASSUME NEW f \in Columns
        PROVE  Value(new, f) = IF f \in Sets(t) THEN ValueSet(e, i, f) ELSE Value(row, f)
    BY <1>0, <1>4, <2>1, <2>2 DEF Columns, Value, Sets, ValueSet, StatusAfter
  <2>. QED
    BY <2>1, <2>3 DEF new
<1>5. CASE t = "attestation_recorded"
  <2>0. new = [row EXCEPT !.attested = TRUE]
    BY <1>5 DEF RowWith
  <2>. HIDE DEF new
  <2>1. new \in Rows /\ new # None
    BY <1>0, <2>0, NoneAssumption DEF Rows
  <2>2. /\ new.status = row.status /\ new.highest = row.highest /\ new.highest_bidder = row.highest_bidder
        /\ new.attested = TRUE /\ new.proceeds = row.proceeds
    BY <2>0 DEF Rows
  <2>3. ASSUME NEW f \in Columns
        PROVE  Value(new, f) = IF f \in Sets(t) THEN ValueSet(e, i, f) ELSE Value(row, f)
    BY <1>0, <1>5, <2>1, <2>2 DEF Columns, Value, Sets, ValueSet, StatusAfter
  <2>. QED
    BY <2>1, <2>3 DEF new
<1>. QED
  BY <1>1, <1>2, <1>3, <1>4, <1>5 DEF UpdateTopics

(* An update of some columns of the row of e's auction. *)
LEMMA UpdateWrites ==
  ASSUME NEW db \in Tables, NEW e \in Published, NEW i \in 1 .. MaxEvents,
         Topic(e) \in UpdateTopics
  PROVE  LET d == UpdateAuction(db, e, RowWith(db.auctions[e.auction], e, i))
         IN  /\ d \in Tables
             /\ d.bids = db.bids /\ d.events = db.events
             /\ \A a \in Auctions \ {e.auction} : d.auctions[a] = db.auctions[a]
             /\ Wrote(db.auctions[e.auction], d.auctions[e.auction], e, i)
<1>. DEFINE old == db.auctions[e.auction]
            row == RowWith(old, e, i)
<1>0. Topic(e) # "auction_created"
  BY DEF UpdateTopics
<1>1. CASE old = None
  BY <1>0, <1>1, UpdatedNothing DEF Wrote
<1>2. CASE old # None
  <2>0. old \in Rows
    BY <1>2 DEF Tables, Published
  <2>1. row \in Rows /\ row # None
    BY <2>0, NoneAssumption, RowUpdates
  <2>2. \A f \in Columns : Value(row, f) =
          IF f \in Sets(Topic(e)) THEN ValueSet(e, i, f) ELSE Value(old, f)
    BY <2>0, RowUpdates
  <2>. HIDE DEF row
  <2>. QED
    BY <1>2, <2>1, <2>2, UpdatedRow DEF Wrote, row
<1>. QED
  BY <1>1, <1>2

LEMMA NewRow ==
  ASSUME NEW db \in Tables, NEW e \in Published, NEW i \in 1 .. MaxEvents,
         Topic(e) = "auction_created"
  PROVE  LET d == UpsertAuction(db, e)
         IN  /\ d \in Tables
             /\ d.bids = db.bids /\ d.events = db.events
             /\ \A a \in Auctions \ {e.auction} : d.auctions[a] = db.auctions[a]
             /\ Wrote(db.auctions[e.auction], d.auctions[e.auction], e, i)
<1>. DEFINE row == [status |-> "created", highest |-> 0, highest_bidder |-> None,
                    attested |-> FALSE, proceeds |-> FALSE]
<1>1. row \in Rows
  BY SizesAssumption DEF Rows
<1>2. \A f \in Columns : Value(row, f) = ValueSet(e, i, f)
  BY <1>1, NoneAssumption DEF Columns, Value, ValueSet, StatusAfter
<1>3. Sets("auction_created") = Columns
  BY DEF Sets
<1>. HIDE DEF row
<1>4. UpsertAuction(db, e) = [db EXCEPT !.auctions = [@ EXCEPT ![e.auction] = row]]
  BY DEF UpsertAuction, row, Tables
<1>. QED
  BY <1>1, <1>2, <1>3, <1>4, NoneAssumption DEF Tables, Published, Wrote

(* The bid an event brings in, once updateAuctionOnBid has cleared is_winning. *)
NewBid(i, e) ==
  [auction |-> e.auction, bidder |-> e.bidder, amount |-> i,
   is_winning |-> FALSE, refunded |-> FALSE]

EnteredBid(i, e) ==
  [auction |-> e.auction, bidder |-> e.bidder, amount |-> i,
   is_winning |-> TRUE, refunded |-> FALSE]

Refunds(e, r) ==
  Topic(e) \in RefundTopics /\ r.auction = e.auction /\ r.bidder = e.bidder

(* What the handler of e makes of a bid that is not winning. *)
Marked(e, r) == IF Refunds(e, r) THEN [r EXCEPT !.refunded = TRUE] ELSE r

(* What is known of d, the tables that the handler of e leaves of db. *)
SameBut(d, db, e) ==
  /\ d \in Tables
  /\ db.events \subseteq d.events
  /\ \A a \in Auctions \ {e.auction} : d.auctions[a] = db.auctions[a]

BidsKept(d, db, e) == \A r \in db.bids : ~r.is_winning => Marked(e, r) \in d.bids

BidsFrom(d, db, i, e) ==
  (\A r \in db.bids : ~r.is_winning) =>
    \A r \in d.bids :
      /\ ~r.is_winning
      /\ \/ Topic(e) = "bid_placed" /\ r = NewBid(i, e)
         \/ \E q \in db.bids : r = Marked(e, q)

LEMMA MarkedType ==
  ASSUME NEW e \in Published, NEW r \in BidRows
  PROVE  Marked(e, r) \in BidRows /\ Marked(e, r).is_winning = r.is_winning
BY DEF Marked, BidRows

LEMMA InsertedBid ==
  ASSUME NEW db \in Tables, NEW e \in Published, NEW i \in 1 .. MaxEvents,
         Topic(e) = "bid_placed"
  PROVE  LET d == InsertBid(db, i, e)
         IN  /\ SameBut(d, db, e) /\ BidsKept(d, db, e)
             /\ d.auctions = db.auctions /\ d.events = db.events
             /\ d.bids = db.bids \union {EnteredBid(i, e)}
<1>. DEFINE new == EnteredBid(i, e)
            d == InsertBid(db, i, e)
<1>1. new \in BidRows
  BY DEF EnteredBid, BidRows, Published
<1>3. d = [db EXCEPT !.bids = @ \union {new}]
  BY DEF InsertBid, EnteredBid
<1>4. \A r : ~Refunds(e, r)
  BY DEF Refunds, RefundTopics
<1>. HIDE DEF new, d
<1>5. d \in Tables /\ d.auctions = db.auctions /\ d.events = db.events
      /\ d.bids = db.bids \union {new}
  BY <1>1, <1>3 DEF Tables
<1>. QED
  BY <1>4, <1>5 DEF SameBut, BidsKept, Marked, d, new

LEMMA ClearedBids ==
  ASSUME NEW db \in Tables, NEW e \in Published
  PROVE  LET cleared == {IF r.auction = e.auction THEN [r EXCEPT !.is_winning = FALSE]
                         ELSE r : r \in db.bids}
             d == [db EXCEPT !.bids = cleared]
         IN  /\ d \in Tables
             /\ d.auctions = db.auctions /\ d.events = db.events /\ d.bids = cleared
             /\ \A r \in db.bids : ~r.is_winning => r \in cleared
<1>. DEFINE wipe(r) == IF r.auction = e.auction THEN [r EXCEPT !.is_winning = FALSE] ELSE r
            cleared == {wipe(r) : r \in db.bids}
<1>1. \A r \in BidRows : wipe(r) \in BidRows /\ (~r.is_winning => wipe(r) = r)
  <2>1. ASSUME NEW r \in BidRows PROVE wipe(r) \in BidRows
    BY DEF BidRows
  <2>2. ASSUME NEW r \in BidRows, ~r.is_winning PROVE wipe(r) = r
    <3>1. r.is_winning \in BOOLEAN
      BY DEF BidRows
    <3>2. r.is_winning = FALSE
      BY <2>2, <3>1
    <3>. QED
      BY <3>2 DEF BidRows
  <2>. QED
    BY <2>1, <2>2
<1>2. db.bids \subseteq BidRows
  BY DEF Tables
<1>3. cleared \subseteq BidRows /\ \A r \in db.bids : ~r.is_winning => r \in cleared
  BY <1>1, <1>2
<1>4. cleared = {IF r.auction = e.auction THEN [r EXCEPT !.is_winning = FALSE]
                 ELSE r : r \in db.bids}
  OBVIOUS
<1>. HIDE DEF cleared
<1>. QED
  BY <1>3, <1>4 DEF Tables

LEMMA BidChange ==
  ASSUME NEW db \in Tables, NEW e \in Published, NEW i \in 1 .. MaxEvents,
         Topic(e) = "bid_placed"
  PROVE  LET d == UpdateAuctionOnBid(InsertBid(db, i, e), i, e)
         IN  /\ SameBut(d, db, e) /\ d.events = db.events
             /\ Wrote(db.auctions[e.auction], d.auctions[e.auction], e, i)
             /\ BidsKept(d, db, e) /\ BidsFrom(d, db, i, e)
             /\ NewBid(i, e) \in d.bids
<1>. DEFINE mid == InsertBid(db, i, e)
            wipe(r) == IF r.auction = e.auction THEN [r EXCEPT !.is_winning = FALSE] ELSE r
            cleared == {wipe(r) : r \in mid.bids}
            low == [mid EXCEPT !.bids = cleared]
            row == [mid.auctions[e.auction] EXCEPT !.highest = i, !.highest_bidder = e.bidder,
                                                   !.status = "active"]
            d == UpdateAuction(low, e, row)
            new == EnteredBid(i, e)
<1>1. /\ SameBut(mid, db, e) /\ BidsKept(mid, db, e)
      /\ mid.auctions = db.auctions /\ mid.events = db.events
      /\ mid.bids = db.bids \union {new}
  BY InsertedBid
<1>2. /\ low \in Tables
      /\ low.auctions = mid.auctions /\ low.events = mid.events /\ low.bids = cleared
      /\ \A r \in mid.bids : ~r.is_winning => r \in cleared
  <2>1. mid \in Tables
    BY <1>1 DEF SameBut
  <2>. HIDE DEF mid
  <2>. QED
    BY <2>1, ClearedBids
<1>3. d = UpdateAuctionOnBid(mid, i, e)
  BY DEF UpdateAuctionOnBid
<1>4. wipe(new) = NewBid(i, e) /\ new \in mid.bids
  BY <1>1 DEF EnteredBid, NewBid
<1>5. NewBid(i, e) \in cleared
  BY <1>4
<1>6. \A r : ~Refunds(e, r)
  BY DEF Refunds, RefundTopics
<1>7. \A r \in db.bids : ~r.is_winning => Marked(e, r) \in cleared
  <2>1. db.bids \subseteq mid.bids
    BY <1>1
  <2>. HIDE DEF cleared, mid
  <2>. QED
    BY <1>2, <1>6, <2>1 DEF Marked
<1>8. ASSUME \A r \in db.bids : ~r.is_winning, NEW r \in cleared
      PROVE  /\ ~r.is_winning
             /\ r = NewBid(i, e) \/ \E q \in db.bids : r = Marked(e, q)
  <2>1. PICK q \in mid.bids : r = wipe(q)
    OBVIOUS
  <2>2. CASE q = new
    <3>1. r = NewBid(i, e)
      BY <1>4, <2>1, <2>2
    <3>. QED
      BY <3>1 DEF NewBid
  <2>3. CASE q \in db.bids
    <3>1. q \in BidRows /\ ~q.is_winning
      BY <1>8, <2>3 DEF Tables
    <3>2. q.is_winning = FALSE
      BY <3>1 DEF BidRows
    <3>3. wipe(q) = q
      BY <3>1, <3>2 DEF BidRows
    <3>. QED
      BY <1>6, <2>1, <2>3, <3>1, <3>3 DEF Marked
  <2>. QED
    BY <1>1, <2>1, <2>2, <2>3
<1>. HIDE DEF mid, cleared, low, new, wipe
<1>9. /\ d \in Tables
      /\ d.bids = cleared /\ d.events = db.events
      /\ \A a \in Auctions \ {e.auction} : d.auctions[a] = db.auctions[a]
      /\ Wrote(db.auctions[e.auction], d.auctions[e.auction], e, i)
  <2>1. "bid_placed" \in UpdateTopics
    BY DEF UpdateTopics
  <2>2. low.auctions = db.auctions
    BY <1>1, <1>2
  <2>3. d = UpdateAuction(low, e, RowWith(low.auctions[e.auction], e, i))
    BY <1>1, <2>2 DEF RowWith
  <2>. HIDE DEF d
  <2>4. /\ d \in Tables /\ d.bids = low.bids /\ d.events = low.events
        /\ \A a \in Auctions \ {e.auction} : d.auctions[a] = low.auctions[a]
        /\ Wrote(low.auctions[e.auction], d.auctions[e.auction], e, i)
    BY <1>2, <2>1, <2>3, UpdateWrites
  <2>. QED
    BY <1>1, <1>2, <2>2, <2>4
<1>. HIDE DEF d
<1>10. BidsFrom(d, db, i, e)
  BY <1>8, <1>9 DEF BidsFrom
<1>. QED
  BY <1>3, <1>5, <1>7, <1>9, <1>10 DEF SameBut, BidsKept, mid

LEMMA RefundChange ==
  ASSUME NEW db \in Tables, NEW e \in Published, NEW i, Topic(e) \in RefundTopics
  PROVE  LET d == MarkBidRefunded(db, e)
         IN  /\ SameBut(d, db, e) /\ d.events = db.events /\ d.auctions = db.auctions
             /\ BidsKept(d, db, e) /\ BidsFrom(d, db, i, e)
<1>. DEFINE mark(r) == IF r.auction = e.auction /\ r.bidder = e.bidder
                       THEN [r EXCEPT !.refunded = TRUE, !.is_winning = FALSE] ELSE r
            marked == {mark(r) : r \in db.bids}
            d == MarkBidRefunded(db, e)
<1>1. \A r \in BidRows : mark(r) \in BidRows
  BY DEF BidRows
<1>2. ASSUME NEW r \in BidRows, ~r.is_winning
      PROVE  mark(r) = Marked(e, r) /\ ~Marked(e, r).is_winning
  <2>1. r.is_winning = FALSE /\ (Refunds(e, r) <=> r.auction = e.auction /\ r.bidder = e.bidder)
    BY <1>2 DEF BidRows, Refunds
  <2>2. CASE Refunds(e, r)
    BY <2>1, <2>2 DEF Marked, BidRows
  <2>3. CASE ~Refunds(e, r)
    BY <2>1, <2>3 DEF Marked
  <2>. QED
    BY <2>2, <2>3
<1>3. d = [db EXCEPT !.bids = marked]
  BY DEF MarkBidRefunded
<1>4. db.bids \subseteq BidRows /\ marked \subseteq BidRows
  BY <1>1 DEF Tables
<1>5. \A r \in db.bids : ~r.is_winning => Marked(e, r) \in marked
  BY <1>2, <1>4
<1>6. (\A r \in db.bids : ~r.is_winning) =>
        \A r \in marked : ~r.is_winning /\ \E q \in db.bids : r = Marked(e, q)
  BY <1>2, <1>4
<1>. HIDE DEF marked, d
<1>7. d \in Tables /\ d.events = db.events /\ d.auctions = db.auctions /\ d.bids = marked
  BY <1>3, <1>4 DEF Tables
<1>. QED
  BY <1>5, <1>6, <1>7 DEF SameBut, BidsKept, BidsFrom, d

LEMMA OtherKeepsBids ==
  ASSUME NEW db \in Tables, NEW e \in Published, NEW i, NEW d, d.bids = db.bids,
         Topic(e) \notin RefundTopics
  PROVE  BidsKept(d, db, e) /\ BidsFrom(d, db, i, e)
BY DEF BidsKept, BidsFrom, Marked, Refunds

LEMMA UpdateChange ==
  ASSUME NEW db \in Tables, NEW e \in Published, NEW i \in 1 .. MaxEvents,
         Topic(e) \in UpdateTopics, NEW d,
         d = UpdateAuction(db, e, RowWith(db.auctions[e.auction], e, i))
  PROVE  /\ SameBut(d, db, e) /\ d.events = db.events
         /\ Wrote(db.auctions[e.auction], d.auctions[e.auction], e, i)
         /\ BidsKept(d, db, e) /\ BidsFrom(d, db, i, e)
<1>1. /\ d \in Tables
      /\ d.bids = db.bids /\ d.events = db.events
      /\ \A a \in Auctions \ {e.auction} : d.auctions[a] = db.auctions[a]
      /\ Wrote(db.auctions[e.auction], d.auctions[e.auction], e, i)
  BY UpdateWrites
<1>2. Topic(e) \notin RefundTopics
  BY DEF UpdateTopics, RefundTopics
<1>. QED
  BY <1>1, <1>2, OtherKeepsBids DEF SameBut

LEMMA WroteNothing ==
  ASSUME NEW row, NEW e, NEW i, Sets(Topic(e)) = {}, Topic(e) # "auction_created"
  PROVE  Wrote(row, row, e, i)
BY DEF Wrote

(* What a handler does to the rows of other auctions, to its own, and to the bids. *)
LEMMA ChangeEffect ==
  ASSUME NEW db \in Tables, NEW e \in Published, NEW i \in 1 .. MaxEvents
  PROVE  LET d == Change(db, i, e)
         IN  /\ SameBut(d, db, e) /\ d.events = db.events
             /\ Wrote(db.auctions[e.auction], d.auctions[e.auction], e, i)
             /\ BidsKept(d, db, e) /\ BidsFrom(d, db, i, e)
             /\ Topic(e) = "bid_placed" => NewBid(i, e) \in d.bids
<1>. DEFINE t == Topic(e)
            d == Change(db, i, e)
            old == db.auctions[e.auction]
<1>1. CASE t = "auction_created"
  <2>1. d = UpsertAuction(db, e) /\ t \notin RefundTopics
    BY <1>1 DEF Change, RefundTopics
  <2>2. /\ d \in Tables
        /\ d.bids = db.bids /\ d.events = db.events
        /\ \A a \in Auctions \ {e.auction} : d.auctions[a] = db.auctions[a]
        /\ Wrote(old, d.auctions[e.auction], e, i)
    BY <1>1, <2>1, NewRow
  <2>. HIDE DEF d, old
  <2>3. BidsKept(d, db, e) /\ BidsFrom(d, db, i, e)
    BY <2>1, <2>2, OtherKeepsBids
  <2>. QED
    BY <1>1, <2>2, <2>3 DEF SameBut, d, old
<1>2. CASE t = "bid_placed"
  <2>1. d = UpdateAuctionOnBid(InsertBid(db, i, e), i, e)
    BY <1>2 DEF Change, RefundTopics
  <2>2. /\ SameBut(d, db, e) /\ d.events = db.events
        /\ Wrote(old, d.auctions[e.auction], e, i)
        /\ BidsKept(d, db, e) /\ BidsFrom(d, db, i, e)
        /\ NewBid(i, e) \in d.bids
    BY <1>2, <2>1, BidChange
  <2>. QED
    BY <1>2, <2>2
<1>3. CASE t \in RefundTopics
  <2>1. d = MarkBidRefunded(db, e) /\ t # "bid_placed" /\ t # "auction_created"
    BY <1>3 DEF Change, RefundTopics
  <2>2. Sets(t) = {}
    BY <1>3 DEF Sets, RefundTopics
  <2>3. /\ SameBut(d, db, e) /\ d.events = db.events /\ d.auctions = db.auctions
        /\ BidsKept(d, db, e) /\ BidsFrom(d, db, i, e)
    BY <1>3, <2>1, RefundChange
  <2>. HIDE DEF d
  <2>4. Wrote(old, d.auctions[e.auction], e, i)
    BY <2>1, <2>2, <2>3, WroteNothing
  <2>. QED
    BY <2>1, <2>3, <2>4 DEF d
<1>4. CASE t \in UpdateTopics \ {"bid_placed"}
  <2>1. t # "bid_placed" /\ t \in UpdateTopics
    BY <1>4
  <2>2. d = UpdateAuction(db, e, RowWith(old, e, i))
    BY <1>4 DEF Change, UpdateTopics, RefundTopics, RowWith, UpdateAuctionOnClose,
         UpdateAuctionOnSettle, UpdateAuctionOnCancel, UpdateAuctionOnAttestation
  <2>3. /\ SameBut(d, db, e) /\ d.events = db.events
        /\ Wrote(old, d.auctions[e.auction], e, i)
        /\ BidsKept(d, db, e) /\ BidsFrom(d, db, i, e)
    <3>. HIDE DEF d
    <3>. QED
      BY <2>1, <2>2, UpdateChange
  <2>. QED
    BY <2>1, <2>3
<1>5. CASE t \notin UpdateTopics \union RefundTopics \union {"auction_created"}
  <2>1. d = db /\ Sets(t) = {} /\ t # "bid_placed" /\ t # "auction_created"
    BY <1>5 DEF Change, Sets, UpdateTopics, RefundTopics
  <2>2. t \notin RefundTopics
    BY <1>5
  <2>. HIDE DEF d
  <2>3. Wrote(old, d.auctions[e.auction], e, i)
    BY <2>1, WroteNothing
  <2>4. BidsKept(d, db, e) /\ BidsFrom(d, db, i, e)
    BY <2>1, <2>2, OtherKeepsBids
  <2>. QED
    BY <2>1, <2>3, <2>4 DEF SameBut, d
<1>. QED
  BY <1>1, <1>2, <1>3, <1>4, <1>5

(* The events table has a row for e, or for another with its key. *)
Noted(rows, e) == \E r \in rows : r.key = Key(e)

(* Recording the event touches neither of the other tables. *)
LEMMA Recorded ==
  ASSUME NEW db \in Tables, NEW e \in Published, NEW i \in 1 .. MaxEvents
  PROVE  LET d == InsertEvent(db, i, e)
         IN  /\ d \in Tables /\ d.auctions = db.auctions /\ d.bids = db.bids
             /\ db.events \subseteq d.events /\ Noted(d.events, e)
<1>1. Key(e) \in Keys
  BY SizesAssumption, TypesAssumption DEF Key, Keys, Published
<1>. DEFINE row == [place |-> i, key |-> Key(e)]
<1>2. row \in EventRows /\ row.key = Key(e)
  BY <1>1 DEF EventRows
<1>. HIDE DEF row
<1>3. CASE \E r \in db.events : r.key = Key(e)
  BY <1>3 DEF InsertEvent, Noted
<1>4. CASE ~ \E r \in db.events : r.key = Key(e)
  <2>1. InsertEvent(db, i, e) = [db EXCEPT !.events = @ \union {row}]
    BY <1>4 DEF InsertEvent, row
  <2>. QED
    BY <1>2, <2>1 DEF Tables, Noted
<1>. QED
  BY <1>3, <1>4

(* Whatever part of it ran, a handler leaves the rows of other auctions, and sets the
   columns of its own as a whole or not at all. *)
LEMMA HandlerEffect ==
  ASSUME NEW db \in Tables, NEW e \in Published, NEW i \in 1 .. MaxEvents,
         NEW k \in 0 .. Len(Statements(e)), NEW d, d = RunHandler(db, i, e, k)
  PROVE  /\ SameBut(d, db, e)
         /\ \/ d.auctions[e.auction] = db.auctions[e.auction]
            \/ Wrote(db.auctions[e.auction], d.auctions[e.auction], e, i)
         /\ \A r \in db.bids : ~r.is_winning => r \in d.bids \/ Marked(e, r) \in d.bids
<1>1. PICK c \in Partial(db, i, e) : d \in {c, InsertEvent(c, i, e)}
  BY HandlerRuns
<1>2. /\ SameBut(c, db, e)
      /\ \/ c.auctions[e.auction] = db.auctions[e.auction]
         \/ Wrote(db.auctions[e.auction], c.auctions[e.auction], e, i)
      /\ \A r \in db.bids : ~r.is_winning => r \in c.bids \/ Marked(e, r) \in c.bids
  <2>1. CASE c = db
    BY <2>1 DEF SameBut
  <2>2. CASE c = Change(db, i, e)
    BY <2>2, ChangeEffect DEF BidsKept
  <2>3. CASE Topic(e) = "bid_placed" /\ c = InsertBid(db, i, e)
    BY <2>3, InsertedBid DEF BidsKept
  <2>. QED
    BY <1>1, <2>1, <2>2, <2>3 DEF Partial
<1>3. /\ d \in Tables /\ d.auctions = c.auctions /\ d.bids = c.bids
      /\ c.events \subseteq d.events
  BY <1>1, <1>2, Recorded DEF SameBut
<1>. QED
  BY <1>2, <1>3 DEF SameBut

(* One that completes. *)
LEMMA HandlerDone ==
  ASSUME NEW db \in Tables, NEW e \in Published, NEW i \in 1 .. MaxEvents, NEW d,
         d = RunHandler(db, i, e, Len(Statements(e)))
  PROVE  /\ SameBut(d, db, e)
         /\ Wrote(db.auctions[e.auction], d.auctions[e.auction], e, i)
         /\ BidsKept(d, db, e) /\ BidsFrom(d, db, i, e)
         /\ Topic(e) = "bid_placed" => NewBid(i, e) \in d.bids
         /\ Topic(e) \in Handled => Noted(d.events, e)
<1>. DEFINE c == Change(db, i, e)
            t == Topic(e)
<1>0. Len(Statements(e)) \in 0 .. Len(Statements(e))
  BY AtMostThree
<1>1. d = IF t \in Handled THEN InsertEvent(c, i, e) ELSE db
  BY <1>0, HandlerRuns
<1>2. /\ SameBut(c, db, e) /\ c.events = db.events
      /\ Wrote(db.auctions[e.auction], c.auctions[e.auction], e, i)
      /\ BidsKept(c, db, e) /\ BidsFrom(c, db, i, e)
      /\ t = "bid_placed" => NewBid(i, e) \in c.bids
  BY ChangeEffect
<1>3. t \notin Handled => c = db
  BY DEF Change, Handled, Broadcast, RefundTopics
<1>. HIDE DEF c, t
<1>4. CASE t \in Handled
  <2>1. /\ d \in Tables /\ d.auctions = c.auctions /\ d.bids = c.bids
        /\ c.events \subseteq d.events /\ Noted(d.events, e)
    BY <1>1, <1>2, <1>4, Recorded DEF SameBut
  <2>. QED
    BY <1>2, <2>1 DEF SameBut, BidsKept, BidsFrom, t
<1>5. CASE t \notin Handled
  BY <1>1, <1>2, <1>3, <1>5 DEF t
<1>. QED
  BY <1>4, <1>5

-----------------------------------------------------------------------------
(* The ideal tables: every event handled once, in order. *)

Handle(db, evs, n) == RunHandler(db, n, evs[n], Len(Statements(evs[n])))

Folds(g, evs, m) ==
  g = [n \in 0 .. m |-> IF n = 0 THEN EmptyDb ELSE Handle(g[n - 1], evs, n)]

(* The tables after each event exist, for any list of events: one without them would
   have a first place where they stop. *)
LEMMA FoldsExist ==
  ASSUME NEW evs, NEW m \in Nat
  PROVE  \E g : Folds(g, evs, m)
<1>. DEFINE bad == {l \in Nat : ~ \E g : Folds(g, evs, l)}
<1>. SUFFICES ASSUME bad # {} PROVE FALSE
  OBVIOUS
<1>1. PICK l \in bad : \A j \in bad : l <= j
  <2>1. bad \in SUBSET Nat
    OBVIOUS
  <2>. HIDE DEF bad
  <2>. QED
    BY <2>1, LeastNumber
<1>2. l \in Nat /\ ~ \E g : Folds(g, evs, l)
  OBVIOUS
<1>3. CASE l = 0
  <2>. DEFINE h == [n \in 0 .. 0 |-> EmptyDb]
  <2>1. h = [n \in 0 .. 0 |-> IF n = 0 THEN EmptyDb ELSE Handle(h[n - 1], evs, n)]
    OBVIOUS
  <2>. QED
    BY <1>2, <1>3, <2>1 DEF Folds
<1>4. CASE l # 0
  <2>1. l - 1 \in Nat /\ l - 1 \notin bad
    BY <1>1, <1>2, <1>4
  <2>2. PICK g : Folds(g, evs, l - 1)
    BY <2>1
  <2>. DEFINE step(f, n) == IF n = 0 THEN EmptyDb ELSE Handle(f[n - 1], evs, n)
              h == [n \in 0 .. l |-> IF n = l THEN Handle(g[l - 1], evs, l) ELSE g[n]]
  <2>3. \A n \in 0 .. l - 1 : g[n] = step(g, n)
    BY <2>1, <2>2 DEF Folds
  <2>4. ASSUME NEW n \in 0 .. l PROVE h[n] = step(h, n)
    <3>1. CASE n = l
      <4>1. h[l - 1] = g[l - 1] /\ h[l] = Handle(g[l - 1], evs, l)
        BY <1>2, <2>1
      <4>. QED
        BY <1>4, <3>1, <4>1
    <3>2. CASE n # l
      <4>1. n \in 0 .. l - 1 /\ h[n] = g[n]
        BY <1>2, <3>2
      <4>2. n # 0 => h[n - 1] = g[n - 1]
        BY <1>2, <4>1
      <4>. QED
        BY <2>3, <4>1, <4>2
    <3>. QED
      BY <3>1, <3>2
  <2>5. h = [n \in 0 .. l |-> step(h, n)]
    <3>1. DOMAIN h = 0 .. l /\ h = [n \in 0 .. l |-> h[n]]
      OBVIOUS
    <3>. HIDE DEF h, step
    <3>. QED
      BY <2>4, <3>1
  <2>. QED
    BY <1>2, <2>5 DEF Folds
<1>. QED
  BY <1>3, <1>4

(* Ideal has the empty tables at place 0, and at n event n handled after those before it. *)
LEMMA IdealUnfolds ==
  ASSUME NEW evs \in Seq(Published), NEW n \in 0 .. Len(evs)
  PROVE  Ideal(evs)[n] = IF n = 0 THEN EmptyDb ELSE Handle(Ideal(evs)[n - 1], evs, n)
<1>. DEFINE g == CHOOSE f : Folds(f, evs, Len(evs))
<1>1. Ideal(evs) = g
  BY DEF Ideal, Folds, Handle
<1>2. Folds(g, evs, Len(evs))
  BY FoldsExist
<1>. HIDE DEF g
<1>3. g = [k \in 0 .. Len(evs) |-> IF k = 0 THEN EmptyDb ELSE Handle(g[k - 1], evs, k)]
  BY <1>2 DEF Folds
<1>4. g[n] = IF n = 0 THEN EmptyDb ELSE Handle(g[n - 1], evs, n)
  BY <1>3
<1>. QED
  BY <1>1, <1>4

(* What holds of the tables at first, and of the next ones with the last, always holds:
   T is the set of places where it does. *)
LEMMA PlaceByPlace ==
  ASSUME NEW len \in Nat, NEW T \in SUBSET Nat, 0 \in T,
         \A n \in 1 .. len : n - 1 \in T => n \in T
  PROVE  0 .. len \subseteq T
<1>. DEFINE bad == {n \in 0 .. len : n \notin T}
<1>. SUFFICES ASSUME bad # {} PROVE FALSE
  OBVIOUS
<1>1. PICK n \in bad : \A j \in bad : n <= j
  <2>1. bad \in SUBSET Nat
    OBVIOUS
  <2>. HIDE DEF bad
  <2>. QED
    BY <2>1, LeastNumber
<1>2. n \in 0 .. len /\ n \notin T /\ n # 0
  OBVIOUS
<1>3. n - 1 \in 0 .. len /\ ~(n <= n - 1)
  BY <1>2
<1>4. n - 1 \in T
  BY <1>1, <1>3
<1>. QED
  BY <1>2, <1>4

(* An event published later does not change what the earlier ones left. *)
LEMMA IdealGrows ==
  ASSUME NEW evs \in Seq(Published), NEW e \in Published, NEW n \in 0 .. Len(evs)
  PROVE  Ideal(Append(evs, e))[n] = Ideal(evs)[n]
<1>. DEFINE more == Append(evs, e)
            T == {k \in Nat : k <= Len(evs) => Ideal(more)[k] = Ideal(evs)[k]}
<1>1. /\ more \in Seq(Published) /\ Len(evs) \in Nat /\ Len(more) = Len(evs) + 1
      /\ \A k \in 1 .. Len(evs) : more[k] = evs[k]
  OBVIOUS
<1>. HIDE DEF more
<1>2. 0 \in T
  BY <1>1, IdealUnfolds
<1>3. ASSUME NEW k \in 1 .. Len(evs), k - 1 \in T PROVE k \in T
  <2>1. Ideal(more)[k - 1] = Ideal(evs)[k - 1]
    BY <1>1, <1>3
  <2>2. k \in 0 .. Len(evs) /\ k \in 0 .. Len(more) /\ k # 0 /\ k \in Nat
    BY <1>1
  <2>3. Ideal(more)[k] = Handle(Ideal(more)[k - 1], more, k)
    BY <1>1, <2>2, IdealUnfolds
  <2>4. Ideal(evs)[k] = Handle(Ideal(evs)[k - 1], evs, k)
    BY <2>2, IdealUnfolds
  <2>5. Ideal(more)[k] = Ideal(evs)[k]
    BY <1>1, <2>1, <2>3, <2>4 DEF Handle
  <2>. QED
    BY <2>2, <2>5
<1>4. 0 .. Len(evs) \subseteq T
  <2>. HIDE DEF T
  <2>1. T \in SUBSET Nat
    BY DEF T
  <2>. QED
    BY <1>1, <1>2, <1>3, <2>1, PlaceByPlace
<1>. QED
  BY <1>4 DEF more

LEMMA IdealType ==
  ASSUME NEW evs \in Seq(Published), Len(evs) <= MaxEvents, NEW n \in 0 .. Len(evs)
  PROVE  Ideal(evs)[n] \in Tables
<1>. DEFINE T == {k \in Nat : k <= Len(evs) => Ideal(evs)[k] \in Tables}
<1>1. Len(evs) \in Nat /\ MaxEvents \in Nat
  BY SizesAssumption
<1>2. 0 \in T
  BY <1>1, IdealUnfolds DEF EmptyDb, Tables
<1>3. ASSUME NEW k \in 1 .. Len(evs), k - 1 \in T PROVE k \in T
  <2>1. /\ Ideal(evs)[k - 1] \in Tables /\ k \in 0 .. Len(evs) /\ k # 0
        /\ k \in 1 .. MaxEvents /\ evs[k] \in Published
    BY <1>1, <1>3
  <2>2. Ideal(evs)[k] = RunHandler(Ideal(evs)[k - 1], k, evs[k], Len(Statements(evs[k])))
    BY <2>1, IdealUnfolds DEF Handle
  <2>3. Ideal(evs)[k] \in Tables
    BY <2>1, <2>2, HandlerDone DEF SameBut
  <2>. QED
    BY <2>3
<1>4. 0 .. Len(evs) \subseteq T
  <2>. HIDE DEF T
  <2>1. T \in SUBSET Nat
    BY DEF T
  <2>. QED
    BY <1>1, <1>2, <1>3, <2>1, PlaceByPlace
<1>. QED
  BY <1>1, <1>4

(* One event more. *)
LEMMA IdealStep ==
  ASSUME NEW evs \in Seq(Published), Len(evs) <= MaxEvents, NEW n \in 1 .. Len(evs)
  PROVE  LET old == Ideal(evs)[n - 1]
             new == Ideal(evs)[n]
         IN  /\ old \in Tables /\ new \in Tables
             /\ \A a \in Auctions \ {evs[n].auction} : new.auctions[a] = old.auctions[a]
             /\ Wrote(old.auctions[evs[n].auction], new.auctions[evs[n].auction],
                      evs[n], n)
             /\ BidsFrom(new, old, n, evs[n])
<1>1. /\ n \in 0 .. Len(evs) /\ n - 1 \in 0 .. Len(evs) /\ n # 0
      /\ n \in 1 .. MaxEvents /\ evs[n] \in Published
  BY SizesAssumption
<1>2. Ideal(evs)[n - 1] \in Tables
  BY <1>1, IdealType
<1>3. Ideal(evs)[n] = RunHandler(Ideal(evs)[n - 1], n, evs[n], Len(Statements(evs[n])))
  BY <1>1, IdealUnfolds DEF Handle
<1>. DEFINE old == Ideal(evs)[n - 1]
            new == Ideal(evs)[n]
            e == evs[n]
<1>. HIDE DEF old, new, e
<1>4. old \in Tables /\ e \in Published /\ n \in 1 .. MaxEvents
      /\ new = RunHandler(old, n, e, Len(Statements(e)))
  BY <1>1, <1>2, <1>3 DEF old, new, e
<1>5. /\ SameBut(new, old, e)
      /\ Wrote(old.auctions[e.auction], new.auctions[e.auction], e, n)
      /\ BidsFrom(new, old, n, e)
  BY <1>4, HandlerDone
<1>. QED
  BY <1>4, <1>5 DEF SameBut, old, new, e

(* Without an event of a, its row stays. *)
LEMMA IdealQuiet ==
  ASSUME NEW evs \in Seq(Published), Len(evs) <= MaxEvents, NEW a \in Auctions,
         NEW m \in 0 .. Len(evs), NEW n \in m .. Len(evs),
         \A i \in m + 1 .. n : evs[i].auction # a
  PROVE  Ideal(evs)[n].auctions[a] = Ideal(evs)[m].auctions[a]
<1>. DEFINE T == {k \in Nat : k >= m =>
                    Ideal(evs)[k].auctions[a] = Ideal(evs)[m].auctions[a]}
<1>1. n \in Nat /\ m \in Nat /\ m <= n /\ n <= Len(evs) /\ Len(evs) \in Nat
  OBVIOUS
<1>2. 0 \in T
  BY <1>1
<1>3. ASSUME NEW k \in 1 .. n, k - 1 \in T PROVE k \in T
  <2>1. CASE k <= m
    BY <1>1, <2>1
  <2>2. CASE k > m
    <3>1. k \in 1 .. Len(evs) /\ k \in m + 1 .. n /\ k - 1 >= m
      BY <1>1, <2>2
    <3>2. a \in Auctions \ {evs[k].auction}
      BY <3>1
    <3>3. Ideal(evs)[k].auctions[a] = Ideal(evs)[k - 1].auctions[a]
      BY <3>1, <3>2, IdealStep
    <3>. QED
      BY <1>3, <3>1, <3>3
  <2>. QED
    BY <1>1, <2>1, <2>2
<1>4. 0 .. n \subseteq T
  <2>. HIDE DEF T
  <2>1. T \in SUBSET Nat
    BY DEF T
  <2>. QED
    BY <1>1, <1>2, <1>3, <2>1, PlaceByPlace
<1>. QED
  BY <1>1, <1>4

(* Once created, an auction has a row. *)
LEMMA IdealHasRow ==
  ASSUME NEW evs \in Seq(Published), Len(evs) <= MaxEvents,
         NEW c \in 1 .. Len(evs), Topic(evs[c]) = "auction_created",
         NEW n \in c .. Len(evs)
  PROVE  Ideal(evs)[n].auctions[evs[c].auction] # None
<1>. DEFINE a == evs[c].auction
            T == {k \in Nat : k >= c => Ideal(evs)[k].auctions[a] # None}
<1>1. /\ n \in Nat /\ c \in Nat /\ c <= n /\ n <= Len(evs) /\ Len(evs) \in Nat
      /\ a \in Auctions /\ 1 <= c
  <2>1. evs[c] \in Published
    OBVIOUS
  <2>. QED
    BY <2>1 DEF Published
<1>2. 0 \in T
  BY <1>1
<1>3. ASSUME NEW k \in 1 .. n, k - 1 \in T PROVE k \in T
  <2>. HIDE DEF a
  <2>0. k \in 1 .. Len(evs) /\ k \in Nat
    BY <1>1
  <2>1. CASE k < c
    BY <1>1, <2>1
  <2>2. CASE k = c
    <3>1. Wrote(Ideal(evs)[k - 1].auctions[a], Ideal(evs)[k].auctions[a],
                evs[k], k)
      BY <2>0, <2>2, IdealStep DEF a
    <3>. QED
      BY <2>0, <2>2, <3>1 DEF Wrote
  <2>3. CASE k > c
    <3>1. Ideal(evs)[k - 1].auctions[a] # None
      BY <1>1, <1>3, <2>3
    <3>2. CASE a = evs[k].auction
      <4>1. Wrote(Ideal(evs)[k - 1].auctions[a], Ideal(evs)[k].auctions[a],
                  evs[k], k)
        BY <2>0, <3>2, IdealStep
      <4>. QED
        BY <2>0, <3>1, <4>1 DEF Wrote
    <3>3. CASE a # evs[k].auction
      <4>1. Ideal(evs)[k].auctions[a] = Ideal(evs)[k - 1].auctions[a]
        BY <1>1, <2>0, <3>3, IdealStep
      <4>. QED
        BY <2>0, <3>1, <4>1
    <3>. QED
      BY <3>2, <3>3
  <2>. QED
    BY <1>1, <2>0, <2>1, <2>2, <2>3
<1>4. 0 .. n \subseteq T
  <2>. HIDE DEF T
  <2>1. T \in SUBSET Nat
    BY DEF T
  <2>. QED
    BY <1>1, <1>2, <1>3, <2>1, PlaceByPlace
<1>. QED
  BY <1>1, <1>4

(* The row of the bid at place i once the first n events are handled. *)
Refunded(evs, i, n) ==
  \E j \in i + 1 .. n :
    /\ Topic(evs[j]) \in RefundTopics
    /\ evs[j].auction = evs[i].auction /\ evs[j].bidder = evs[i].bidder

BidAt(evs, i, n) ==
  [auction |-> evs[i].auction, bidder |-> evs[i].bidder, amount |-> i,
   is_winning |-> FALSE, refunded |-> Refunded(evs, i, n)]

LEMMA SameBid ==
  ASSUME NEW evs, NEW i, NEW n, NEW m, Refunded(evs, i, n) <=> Refunded(evs, i, m)
  PROVE  BidAt(evs, i, n) = BidAt(evs, i, m)
<1>1. Refunded(evs, i, n) \in BOOLEAN /\ Refunded(evs, i, m) \in BOOLEAN
  BY DEF Refunded
<1>2. Refunded(evs, i, n) = Refunded(evs, i, m)
  BY <1>1
<1>. QED
  BY <1>2 DEF BidAt

LEMMA BidIsNew ==
  ASSUME NEW evs, NEW n \in Nat
  PROVE  NewBid(n, evs[n]) = BidAt(evs, n, n)
<1>1. Refunded(evs, n, n) \in BOOLEAN /\ ~Refunded(evs, n, n)
  BY DEF Refunded
<1>2. Refunded(evs, n, n) = FALSE
  BY <1>1
<1>. QED
  BY <1>2 DEF BidAt, NewBid

(* A refund, of whatever event before it, makes the bid what it is at the refund. *)
LEMMA BidMarked ==
  ASSUME NEW evs, NEW i \in Nat, NEW q, NEW n \in Nat, i < n,
         Refunds(evs[n], BidAt(evs, i, q))
  PROVE  Marked(evs[n], BidAt(evs, i, q)) = BidAt(evs, i, n)
<1>1. /\ Topic(evs[n]) \in RefundTopics
      /\ evs[n].auction = evs[i].auction /\ evs[n].bidder = evs[i].bidder
  BY DEF Refunds, BidAt
<1>2. Refunded(evs, i, n) \in BOOLEAN /\ Refunded(evs, i, n)
  <2>1. n \in i + 1 .. n
    OBVIOUS
  <2>. QED
    BY <1>1, <2>1 DEF Refunded
<1>3. Refunded(evs, i, n) = TRUE
  BY <1>2
<1>4. Marked(evs[n], BidAt(evs, i, q)) = [BidAt(evs, i, q) EXCEPT !.refunded = TRUE]
  BY DEF Marked
<1>. QED
  BY <1>3, <1>4 DEF BidAt

LEMMA BidMoves ==
  ASSUME NEW evs, NEW i \in Nat, NEW n \in Nat, i < n
  PROVE  Marked(evs[n], BidAt(evs, i, n - 1)) = BidAt(evs, i, n)
<1>. DEFINE r == BidAt(evs, i, n - 1)
<1>1. CASE Refunds(evs[n], r)
  BY <1>1, BidMarked
<1>2. CASE ~Refunds(evs[n], r)
  <2>1. ~(/\ Topic(evs[n]) \in RefundTopics
          /\ evs[n].auction = evs[i].auction /\ evs[n].bidder = evs[i].bidder)
    BY <1>2 DEF Refunds, BidAt
  <2>2. i + 1 .. n = (i + 1 .. n - 1) \union {n}
    OBVIOUS
  <2>3. Refunded(evs, i, n) <=> Refunded(evs, i, n - 1)
    BY <2>1, <2>2 DEF Refunded
  <2>4. BidAt(evs, i, n) = r
    BY <2>3, SameBid
  <2>. QED
    BY <1>2, <2>4 DEF Marked
<1>. QED
  BY <1>1, <1>2

(* No event of the auction, no change to its bids. *)
LEMMA BidQuiet ==
  ASSUME NEW evs, NEW i \in Nat, NEW m \in Nat, NEW n \in Nat, i <= m, m <= n,
         \A j \in m + 1 .. n : evs[j].auction # evs[i].auction
  PROVE  BidAt(evs, i, n) = BidAt(evs, i, m)
<1>1. i + 1 .. n = (i + 1 .. m) \union (m + 1 .. n)
  OBVIOUS
<1>2. Refunded(evs, i, n) <=> Refunded(evs, i, m)
  BY <1>1 DEF Refunded
<1>. QED
  BY <1>2, SameBid

(* The bids table holds nothing else. *)
LEMMA IdealBids ==
  ASSUME NEW evs \in Seq(Published), Len(evs) <= MaxEvents, NEW n \in 0 .. Len(evs),
         NEW r \in Ideal(evs)[n].bids
  PROVE  \E i \in 1 .. n : Topic(evs[i]) = "bid_placed" /\ r = BidAt(evs, i, n)
<1>. DEFINE known(k) == \A x \in Ideal(evs)[k].bids :
              /\ ~x.is_winning
              /\ \E i \in 1 .. k : Topic(evs[i]) = "bid_placed" /\ x = BidAt(evs, i, k)
            T == {k \in Nat : k <= Len(evs) => known(k)}
<1>1. n \in Nat /\ n <= Len(evs) /\ Len(evs) \in Nat
  OBVIOUS
<1>2. 0 \in T
  <2>1. Ideal(evs)[0] = EmptyDb
    BY <1>1, IdealUnfolds
  <2>2. Ideal(evs)[0].bids = {}
    BY <2>1 DEF EmptyDb
  <2>. QED
    BY <2>2
<1>3. ASSUME NEW k \in 1 .. n, k - 1 \in T PROVE k \in T
  <2>. DEFINE old == Ideal(evs)[k - 1]
              new == Ideal(evs)[k]
              e == evs[k]
  <2>1. known(k - 1) /\ k \in 1 .. Len(evs) /\ k \in Nat
    BY <1>1, <1>3
  <2>2. BidsFrom(new, old, k, e)
    BY <2>1, IdealStep
  <2>3. ASSUME NEW x \in new.bids
        PROVE  /\ ~x.is_winning
               /\ \E i \in 1 .. k : Topic(evs[i]) = "bid_placed" /\ x = BidAt(evs, i, k)
    <3>1. /\ ~x.is_winning
          /\ \/ Topic(e) = "bid_placed" /\ x = NewBid(k, e)
             \/ \E y \in old.bids : x = Marked(e, y)
      <4>. HIDE DEF new
      <4>. QED
        BY <2>1, <2>2 DEF BidsFrom
    <3>2. CASE Topic(e) = "bid_placed" /\ x = NewBid(k, e)
      <4>1. k \in 1 .. k /\ x = BidAt(evs, k, k)
        BY <2>1, <3>2, BidIsNew
      <4>. QED
        BY <3>1, <3>2, <4>1
    <3>3. ASSUME NEW y \in old.bids, x = Marked(e, y)
          PROVE  \E i \in 1 .. k : Topic(evs[i]) = "bid_placed" /\ x = BidAt(evs, i, k)
      <4>1. PICK i \in 1 .. k - 1 : Topic(evs[i]) = "bid_placed" /\ y = BidAt(evs, i, k - 1)
        BY <2>1
      <4>2. i \in Nat /\ i < k /\ i \in 1 .. k
        BY <2>1
      <4>3. x = BidAt(evs, i, k)
        BY <2>1, <3>3, <4>1, <4>2, BidMoves
      <4>. QED
        BY <4>1, <4>2, <4>3
    <3>. QED
      BY <3>1, <3>2, <3>3
  <2>. QED
    BY <2>1, <2>3
<1>4. 0 .. n \subseteq T
  <2>. HIDE DEF T
  <2>1. T \in SUBSET Nat
    BY DEF T
  <2>. QED
    BY <1>1, <1>2, <1>3, <2>1, PlaceByPlace
<1>5. n \in T
  BY <1>1, <1>4
<1>6. known(n)
  <2>. HIDE DEF known
  <2>. QED
    BY <1>1, <1>5
<1>. QED
  BY <1>6

-----------------------------------------------------------------------------
(* What stands in the tables.  Replay resets a row and then runs it forward again, so
   between two events a row may mix older and newer values: every value in it is one the
   ideal row has at the place reached or after a later event already handled once. *)

Later(evs, done, a, m, q) ==
  /\ q \in m .. Len(evs)
  /\ q = m \/ (q \in done /\ evs[q].auction = a)

RowStands(evs, done, row, a, m) ==
  \A f \in Columns : \E q \in 0 .. Len(evs) :
    Later(evs, done, a, m, q) /\ Value(row, f) = Value(Ideal(evs)[q].auctions[a], f)

BidsStand(evs, done, rows, a, m) ==
  \A i \in 1 .. m : evs[i].auction = a /\ Topic(evs[i]) = "bid_placed" =>
    \E q \in 0 .. Len(evs) : Later(evs, done, a, m, q) /\ BidAt(evs, i, q) \in rows

StandsAt(evs, done, db, a, m) ==
  RowStands(evs, done, db.auctions[a], a, m) /\ BidsStand(evs, done, db.bids, a, m)

(* No event of a up to place m was left out or failed when it was its turn last. *)
Clean(evs, lost, a, m) == \A i \in 1 .. m : evs[i].auction = a => i \notin lost

(* What the first m events of a should have left stands, if none of them was lost. *)
Stands ==
  \A a \in Auctions, m \in 0 .. at :
    Clean(chain, missed \union failed, a, m) =>
      StandsAt(chain, seen \union failed, Db, a, m)

(* Events after the one handled last that the loop is already past were left out. *)
Passed(i) ==
  CASE pc \in {"idle", "ask", "save"} -> chain[i].ledger <= lastLedger
    [] pc = "fetch"                   -> chain[i].ledger < cursorLedger
    [] pc = "process"                 -> i < next

PassedIsMissed == \A i \in DOMAIN chain : at < i /\ Passed(i) => i \in missed

(* An auction's first event is its creation. *)
Created ==
  \A n \in DOMAIN chain : chain[n].type # "auction_created" =>
    \E c \in 1 .. n - 1 :
      chain[c].type = "auction_created" /\ chain[c].auction = chain[n].auction

(* What has been recorded. *)
Records ==
  /\ at \in {0} \union seen
  /\ \A i \in seen \ failed : Topic(chain[i]) \in Handled => Noted(events, chain[i])

(* An event that sets columns finds a row, in the ideal tables. *)
HasRow(evs, n) ==
  \/ Topic(evs[n]) = "auction_created" \/ Sets(Topic(evs[n])) = {}
  \/ Ideal(evs)[n - 1].auctions[evs[n].auction] # None

(* A column a handler wrote has the ideal value; another is as before, and so is the
   ideal one. *)
LEMMA RowWritten ==
  ASSUME NEW evs \in Seq(Published), Len(evs) <= MaxEvents, NEW n \in 1 .. Len(evs),
         HasRow(evs, n), NEW old, NEW new, Wrote(old, new, evs[n], n),
         NEW f \in Columns
  PROVE  LET ideal(k) == Ideal(evs)[k].auctions[evs[n].auction]
         IN  \/ /\ Value(new, f) = Value(old, f)
                /\ \/ Value(ideal(n), f) = Value(ideal(n - 1), f)
                   \/ old = None /\ ideal(n - 1) # None
             \/ Value(new, f) = Value(ideal(n), f)
<1>. DEFINE t == Topic(evs[n])
            ideal == Ideal(evs)[n].auctions[evs[n].auction]
            before == Ideal(evs)[n - 1].auctions[evs[n].auction]
<1>1. Wrote(before, ideal, evs[n], n)
  BY IdealStep
<1>2. t = "auction_created" \/ Sets(t) = {} \/ before # None
  BY DEF HasRow
<1>3. (Value(new, f) = Value(old, f) /\ (Value(ideal, f) = Value(before, f)
         \/ (old = None /\ before # None)))
      \/ Value(new, f) = Value(ideal, f)
  <2>. HIDE DEF t, ideal, before
  <2>1. CASE f \notin Sets(t)
    <3>1. t = "auction_created" => Sets(t) = Columns
      BY DEF Sets
    <3>. QED
      BY <1>1, <2>1, <3>1 DEF Wrote, t
  <2>2. CASE f \in Sets(t)
    BY <1>1, <1>2, <2>2 DEF Wrote, t
  <2>. QED
    BY <2>1, <2>2
<1>. QED
  BY <1>3

LEMMA StandsLonger ==
  ASSUME NEW evs, NEW done, NEW more, done \subseteq more, NEW db, NEW a, NEW m \in Nat,
         StandsAt(evs, done, db, a, m)
  PROVE  StandsAt(evs, more, db, a, m)
<1>1. \A q : Later(evs, done, a, m, q) => Later(evs, more, a, m, q)
  BY DEF Later
<1>. QED
  BY <1>1 DEF StandsAt, RowStands, BidsStand

(* Places without an event of a do not matter to it. *)
LEMMA StandsQuiet ==
  ASSUME NEW evs \in Seq(Published), Len(evs) <= MaxEvents, NEW done, NEW db,
         NEW a \in Auctions, NEW m \in 0 .. Len(evs), NEW n \in m .. Len(evs),
         \A i \in m + 1 .. n : evs[i].auction # a,
         StandsAt(evs, done, db, a, m)
  PROVE  StandsAt(evs, done, db, a, n)
<1>0. m \in Nat /\ n \in Nat /\ m <= n /\ n <= Len(evs) /\ Len(evs) \in Nat
  OBVIOUS
<1>1. ASSUME NEW q \in 0 .. Len(evs), Later(evs, done, a, m, q), q # m
      PROVE  Later(evs, done, a, n, q)
  BY <1>0, <1>1 DEF Later
<1>2. n \in 0 .. Len(evs) /\ Later(evs, done, a, n, n)
  BY <1>0 DEF Later
<1>3. RowStands(evs, done, db.auctions[a], a, n)
  <2>. SUFFICES ASSUME NEW f \in Columns
                PROVE  \E q \in 0 .. Len(evs) : Later(evs, done, a, n, q)
                         /\ Value(db.auctions[a], f) = Value(Ideal(evs)[q].auctions[a], f)
    BY DEF RowStands
  <2>1. PICK q \in 0 .. Len(evs) : Later(evs, done, a, m, q)
                /\ Value(db.auctions[a], f) = Value(Ideal(evs)[q].auctions[a], f)
    BY DEF StandsAt, RowStands
  <2>2. Ideal(evs)[n].auctions[a] = Ideal(evs)[m].auctions[a]
    BY IdealQuiet
  <2>. QED
    BY <1>1, <1>2, <2>1, <2>2
<1>4. BidsStand(evs, done, db.bids, a, n)
  <2>. SUFFICES ASSUME NEW i \in 1 .. n, evs[i].auction = a, Topic(evs[i]) = "bid_placed"
                PROVE  \E q \in 0 .. Len(evs) : Later(evs, done, a, n, q)
                         /\ BidAt(evs, i, q) \in db.bids
    BY DEF BidsStand
  <2>0. i \in 1 .. m
    BY <1>0
  <2>1. PICK q \in 0 .. Len(evs) : Later(evs, done, a, m, q) /\ BidAt(evs, i, q) \in db.bids
    BY <2>0 DEF StandsAt, BidsStand
  <2>2. i \in Nat /\ i <= m
    BY <1>0, <2>0
  <2>3. BidAt(evs, i, n) = BidAt(evs, i, m)
    BY <1>0, <2>2, BidQuiet
  <2>. QED
    BY <1>1, <1>2, <2>1, <2>3
<1>. QED
  BY <1>3, <1>4 DEF StandsAt

(* A handler, whatever part of it ran, leaves what stood at an earlier place. *)
LEMMA HandlerLeaves ==
  ASSUME NEW evs \in Seq(Published), Len(evs) <= MaxEvents, NEW n \in 1 .. Len(evs),
         HasRow(evs, n), NEW db \in Tables, NEW k \in 0 .. Len(Statements(evs[n])),
         NEW d, d = RunHandler(db, n, evs[n], k),
         NEW done, NEW a \in Auctions, NEW m \in 0 .. n - 1,
         StandsAt(evs, done, db, a, m)
  PROVE  StandsAt(evs, done \union {n}, d, a, m)
<1>. DEFINE e == evs[n]
            more == done \union {n}
<1>0. /\ n \in Nat /\ m \in Nat /\ m < n /\ n <= Len(evs) /\ Len(evs) \in Nat
      /\ n \in 0 .. Len(evs) /\ n \in 1 .. MaxEvents /\ e \in Published
  BY SizesAssumption
<1>1. /\ d \in Tables /\ \A x \in Auctions \ {e.auction} : d.auctions[x] = db.auctions[x]
      /\ \/ d.auctions[e.auction] = db.auctions[e.auction]
         \/ Wrote(db.auctions[e.auction], d.auctions[e.auction], e, n)
      /\ \A r \in db.bids : ~r.is_winning => r \in d.bids \/ Marked(e, r) \in d.bids
  <2>. HIDE DEF e
  <2>1. d = RunHandler(db, n, e, k) /\ k \in 0 .. Len(Statements(e))
    BY DEF e
  <2>2. /\ SameBut(d, db, e)
        /\ \/ d.auctions[e.auction] = db.auctions[e.auction]
           \/ Wrote(db.auctions[e.auction], d.auctions[e.auction], e, n)
        /\ \A r \in db.bids : ~r.is_winning => r \in d.bids \/ Marked(e, r) \in d.bids
    BY <1>0, <2>1, HandlerEffect
  <2>. QED
    BY <2>2 DEF SameBut
<1>2. StandsAt(evs, more, db, a, m)
  BY <1>0, StandsLonger
<1>3. a = e.auction => Later(evs, more, a, m, n)
  BY <1>0 DEF Later
<1>4. RowStands(evs, more, d.auctions[a], a, m)
  <2>. SUFFICES ASSUME NEW f \in Columns
                PROVE  \E q \in 0 .. Len(evs) : Later(evs, more, a, m, q)
                         /\ Value(d.auctions[a], f) = Value(Ideal(evs)[q].auctions[a], f)
    BY DEF RowStands
  <2>1. PICK q \in 0 .. Len(evs) : Later(evs, more, a, m, q)
                /\ Value(db.auctions[a], f) = Value(Ideal(evs)[q].auctions[a], f)
    BY <1>2 DEF StandsAt, RowStands
  <2>. HIDE DEF more
  <2>2. CASE d.auctions[a] = db.auctions[a]
    BY <2>1, <2>2
  <2>3. CASE d.auctions[a] # db.auctions[a]
    <3>1. a = e.auction /\ Wrote(db.auctions[a], d.auctions[a], e, n)
      BY <1>1, <2>3
    <3>2. \/ Value(d.auctions[a], f) = Value(db.auctions[a], f)
          \/ Value(d.auctions[a], f) = Value(Ideal(evs)[n].auctions[a], f)
      BY <3>1, RowWritten
    <3>. QED
      BY <1>0, <1>3, <2>1, <3>1, <3>2
  <2>. QED
    BY <2>2, <2>3
<1>5. BidsStand(evs, more, d.bids, a, m)
  <2>. SUFFICES ASSUME NEW i \in 1 .. m, evs[i].auction = a, Topic(evs[i]) = "bid_placed"
                PROVE  \E q \in 0 .. Len(evs) : Later(evs, more, a, m, q)
                         /\ BidAt(evs, i, q) \in d.bids
    BY DEF BidsStand
  <2>1. PICK q \in 0 .. Len(evs) : Later(evs, more, a, m, q) /\ BidAt(evs, i, q) \in db.bids
    BY <1>2 DEF StandsAt, BidsStand
  <2>. DEFINE r == BidAt(evs, i, q)
  <2>2. ~r.is_winning /\ r.auction = a
    BY DEF BidAt
  <2>3. r \in d.bids \/ Marked(e, r) \in d.bids
    BY <1>1, <2>1, <2>2
  <2>4. CASE r \in d.bids
    BY <2>1, <2>4
  <2>5. CASE Marked(e, r) \in d.bids /\ ~Refunds(e, r)
    BY <2>1, <2>5 DEF Marked
  <2>6. CASE Marked(e, r) \in d.bids /\ Refunds(e, r)
    <3>1. i \in Nat /\ i < n
      BY <1>0
    <3>2. Marked(e, r) = BidAt(evs, i, n)
      BY <1>0, <2>6, <3>1, BidMarked
    <3>3. a = e.auction
      BY <2>2, <2>6 DEF Refunds
    <3>. QED
      BY <1>0, <1>3, <2>6, <3>2, <3>3
  <2>. QED
    BY <2>3, <2>4, <2>5, <2>6
<1>. QED
  BY <1>4, <1>5 DEF StandsAt

(* One that completes moves what stood before its event past it. *)
LEMMA HandlerMoves ==
  ASSUME NEW evs \in Seq(Published), Len(evs) <= MaxEvents, NEW n \in 1 .. Len(evs),
         HasRow(evs, n), NEW db \in Tables,
         NEW d, d = RunHandler(db, n, evs[n], Len(Statements(evs[n]))),
         NEW done, NEW a \in Auctions, StandsAt(evs, done, db, a, n - 1)
  PROVE  StandsAt(evs, done \union {n}, d, a, n)
<1>. DEFINE e == evs[n]
            more == done \union {n}
<1>0. /\ n \in Nat /\ n - 1 \in Nat /\ n <= Len(evs) /\ Len(evs) \in Nat
      /\ n \in 0 .. Len(evs) /\ n \in 1 .. MaxEvents /\ e \in Published
      /\ n - 1 \in 0 .. Len(evs) /\ n - 1 \in 0 .. n - 1 /\ n \in n - 1 .. Len(evs)
  BY SizesAssumption
<1>1. CASE a # e.auction
  <2>1. Len(Statements(evs[n])) \in 0 .. Len(Statements(evs[n]))
    BY AtMostThree
  <2>2. StandsAt(evs, more, d, a, n - 1)
    <3>. HIDE DEF more
    <3>. QED
      BY <1>0, <2>1, HandlerLeaves DEF more
  <2>3. \A i \in n - 1 + 1 .. n : evs[i].auction # a
    BY <1>0, <1>1
  <2>. HIDE DEF more
  <2>. QED
    BY <1>0, <2>2, <2>3, StandsQuiet DEF more
<1>2. CASE a = e.auction
  <2>1. /\ Wrote(db.auctions[a], d.auctions[a], e, n)
        /\ BidsKept(d, db, e)
        /\ Topic(e) = "bid_placed" => NewBid(n, e) \in d.bids
    <3>. HIDE DEF e
    <3>1. d = RunHandler(db, n, e, Len(Statements(e)))
      BY DEF e
    <3>. QED
      BY <1>0, <1>2, <3>1, HandlerDone
  <2>2. n \in more /\ Later(evs, more, a, n, n)
    BY <1>0 DEF Later
  <2>3. ASSUME NEW q \in 0 .. Len(evs), Later(evs, done, a, n - 1, q), q # n - 1
        PROVE  Later(evs, more, a, n, q)
    BY <1>0, <2>3 DEF Later
  <2>4. RowStands(evs, more, d.auctions[a], a, n)
    <3>. SUFFICES ASSUME NEW f \in Columns
                  PROVE  \E q \in 0 .. Len(evs) : Later(evs, more, a, n, q)
                           /\ Value(d.auctions[a], f) = Value(Ideal(evs)[q].auctions[a], f)
      BY DEF RowStands
    <3>1. PICK q \in 0 .. Len(evs) : Later(evs, done, a, n - 1, q)
                  /\ Value(db.auctions[a], f) = Value(Ideal(evs)[q].auctions[a], f)
      BY DEF StandsAt, RowStands
    <3>. DEFINE ideal(x) == Ideal(evs)[x].auctions[a]
    <3>2. \/ /\ Value(d.auctions[a], f) = Value(db.auctions[a], f)
             /\ \/ Value(ideal(n), f) = Value(ideal(n - 1), f)
                \/ db.auctions[a] = None /\ ideal(n - 1) # None
          \/ Value(d.auctions[a], f) = Value(ideal(n), f)
      BY <1>2, <2>1, RowWritten
    <3>. HIDE DEF more
    <3>3. CASE Value(d.auctions[a], f) = Value(ideal(n), f)
      BY <1>0, <2>2, <3>3
    <3>4. CASE Value(d.auctions[a], f) = Value(db.auctions[a], f) /\ q # n - 1
      BY <2>3, <3>1, <3>4
    <3>5. CASE /\ Value(d.auctions[a], f) = Value(db.auctions[a], f) /\ q = n - 1
               /\ Value(ideal(n), f) = Value(ideal(n - 1), f)
      BY <1>0, <2>2, <3>1, <3>5
    <3>6. CASE q = n - 1 /\ db.auctions[a] = None /\ ideal(n - 1) # None
      <4>1. Value(db.auctions[a], f) = {} /\ Value(ideal(n - 1), f) # {}
        BY <3>6 DEF Value, Columns
      <4>. QED
        BY <3>1, <3>6, <4>1
    <3>. QED
      BY <3>2, <3>3, <3>4, <3>5, <3>6
  <2>5. BidsStand(evs, more, d.bids, a, n)
    <3>. SUFFICES ASSUME NEW i \in 1 .. n, evs[i].auction = a, Topic(evs[i]) = "bid_placed"
                  PROVE  \E q \in 0 .. Len(evs) : Later(evs, more, a, n, q)
                           /\ BidAt(evs, i, q) \in d.bids
      BY DEF BidsStand
    <3>1. CASE i = n
      <4>1. BidAt(evs, n, n) \in d.bids
        BY <1>0, <2>1, <3>1, BidIsNew
      <4>. QED
        BY <1>0, <2>2, <3>1, <4>1
    <3>2. CASE i # n
      <4>0. i \in 1 .. n - 1 /\ i \in Nat /\ i < n
        BY <1>0, <3>2
      <4>1. PICK q \in 0 .. Len(evs) :
              Later(evs, done, a, n - 1, q) /\ BidAt(evs, i, q) \in db.bids
        BY <4>0 DEF StandsAt, BidsStand
      <4>. DEFINE r == BidAt(evs, i, q)
      <4>2. ~r.is_winning
        BY DEF BidAt
      <4>3. Marked(e, r) \in d.bids
        BY <2>1, <4>1, <4>2 DEF BidsKept
      <4>4. CASE Refunds(e, r)
        <5>1. Marked(e, r) = BidAt(evs, i, n)
          BY <1>0, <4>0, <4>4, BidMarked
        <5>. QED
          BY <1>0, <2>2, <4>3, <5>1
      <4>5. CASE ~Refunds(e, r) /\ q # n - 1
        <5>1. Marked(e, r) = r
          BY <4>5 DEF Marked
        <5>. QED
          BY <2>3, <4>1, <4>3, <4>5, <5>1
      <4>6. CASE q = n - 1
        <5>1. Marked(e, r) = BidAt(evs, i, n)
          BY <1>0, <4>0, <4>6, BidMoves
        <5>. QED
          BY <1>0, <2>2, <4>3, <5>1
      <4>. QED
        BY <4>4, <4>5, <4>6
    <3>. QED
      BY <3>1, <3>2
  <2>. QED
    BY <2>4, <2>5 DEF StandsAt
<1>. QED
  BY <1>1, <1>2

-----------------------------------------------------------------------------
(* Types. *)

LEMMA DbType == ASSUME TypeOK PROVE Db \in Tables
BY DEF TypeOK, Db, Tables

LEMMA DbOf ==
  ASSUME TypeOK
  PROVE  Db.auctions = auctions /\ Db.bids = bids /\ Db.events = events
BY DEF Db

LEMMA ChainType ==
  ASSUME TypeOK
  PROVE  /\ chain \in Seq(Published) /\ Len(chain) \in Nat /\ Len(chain) <= MaxEvents
         /\ DOMAIN chain = 1 .. Len(chain)
         /\ \A i \in DOMAIN chain : chain[i] \in Published /\ i \in 1 .. MaxEvents
<1>1. chain \in Seq(Published) /\ Len(chain) <= MaxEvents
  BY DEF TypeOK, Published
<1>2. Len(chain) \in Nat /\ DOMAIN chain = 1 .. Len(chain)
  BY <1>1
<1>3. \A i \in DOMAIN chain : chain[i] \in Published
  BY <1>1
<1>. QED
  BY <1>1, <1>2, <1>3, SizesAssumption

(* The handler of the next event of the page, or its first k statements. *)
Ran(k) ==
  /\ next \in DOMAIN chain
  /\ k \in 0 .. Len(Statements(chain[next]))
  /\ auctions' = RunHandler(Db, next, chain[next], k).auctions
  /\ bids' = RunHandler(Db, next, chain[next], k).bids
  /\ events' = RunHandler(Db, next, chain[next], k).events

LEMMA RanDb ==
  ASSUME TypeOK, NEW k, Ran(k)
  PROVE  LET d == RunHandler(Db, next, chain[next], k)
         IN  d \in Tables /\ Db' = d /\ events \subseteq events'
<1>. DEFINE d == RunHandler(Db, next, chain[next], k)
<1>1. /\ Db \in Tables /\ chain[next] \in Published /\ next \in 1 .. MaxEvents
      /\ k \in 0 .. Len(Statements(chain[next]))
      /\ Db.events = events
  BY DbType, ChainType, DbOf DEF Ran
<1>2. SameBut(d, Db, chain[next])
  BY <1>1, HandlerEffect
<1>3. d \in Tables /\ events \subseteq d.events
  BY <1>1, <1>2 DEF SameBut
<1>4. auctions' = d.auctions /\ bids' = d.bids /\ events' = d.events
  BY DEF Ran
<1>. HIDE DEF d
<1>5. d = [auctions |-> d.auctions, bids |-> d.bids, events |-> d.events]
  BY <1>3 DEF Tables
<1>6. Db' = d
  BY <1>4, <1>5 DEF Db
<1>. QED
  BY <1>3, <1>4, <1>6 DEF d

(* The two steps that change the tables. *)
LEMMA ProcessRuns ==
  ASSUME IInv, TypeOK, ProcessEvent
  PROVE  \E k : LET whole == k = Len(Statements(chain[next]))
                IN  /\ Ran(k)
                    /\ Orphan(Db, chain[next]) => k = 0
                    /\ failed' = IF whole THEN failed \ {next} ELSE failed \union {next}
                    /\ pushed' = IF whole /\ Topic(chain[next]) \in Broadcast
                                 THEN pushed \union {next} ELSE pushed
                    /\ faults' \in 0 .. MaxFaults
<1>1. next \in DOMAIN chain
  BY DEF IInv, ProcessEvent, PageOK, LoopOK, ChainOK
<1>2. PICK k \in 0 .. Len(Statements(chain[next])) :
        /\ Orphan(Db, chain[next]) => k = 0
        /\ IF k = Len(Statements(chain[next])) \/ Orphan(Db, chain[next])
           THEN UNCHANGED faults ELSE Fail
        /\ Store(RunHandler(Db, next, chain[next], k))
        /\ failed' = IF k = Len(Statements(chain[next])) THEN failed \ {next}
                     ELSE failed \union {next}
        /\ Push(next, k = Len(Statements(chain[next])))
  BY DEF ProcessEvent
<1>3. faults' \in 0 .. MaxFaults
  BY <1>2, SizesAssumption DEF Fail, TypeOK
<1>4. Ran(k)
  BY <1>1, <1>2 DEF Ran, Store
<1>5. pushed' = IF k = Len(Statements(chain[next])) /\ Topic(chain[next]) \in Broadcast
                THEN pushed \union {next} ELSE pushed
  BY <1>2 DEF Push
<1>. QED
  BY <1>2, <1>3, <1>4, <1>5

LEMMA CrashRuns ==
  ASSUME IInv, TypeOK, Crash
  PROVE  \/ (\E k : Ran(k)) /\ failed' = failed \union {next} /\ pc = "process"
         \/ UNCHANGED <<tables, failed>>
<1>1. CASE pc = "process" /\ next <= last
  <2>1. next \in DOMAIN chain
    BY <1>1 DEF IInv, PageOK, LoopOK, ChainOK
  <2>2. PICK k \in 0 .. Len(Statements(chain[next])) :
          Store(RunHandler(Db, next, chain[next], k))
    BY <1>1 DEF Crash
  <2>3. Ran(k)
    BY <2>1, <2>2 DEF Ran, Store
  <2>4. failed' = failed \union {next}
    BY <1>1 DEF Crash
  <2>. QED
    BY <1>1, <2>3, <2>4
<1>2. CASE ~(pc = "process" /\ next <= last)
  BY <1>2 DEF Crash
<1>. QED
  BY <1>1, <1>2

(* Every other step leaves the tables and what is recorded of the handlers. *)
Quiet ==
  \/ \E t \in EventTypes, a \in Auctions, b \in Bidders : Publish(t, a, b)
  \/ CloseLedger \/ LoadCursor \/ StartBlind \/ StartPoll \/ FetchPage \/ FetchFails
  \/ AskLatest \/ PageDone \/ SaveCursor \/ UNCHANGED vars

LEMMA QuietKeeps ==
  ASSUME Quiet
  PROVE  UNCHANGED <<tables, seen, failed, pushed, at>> /\ missed \subseteq missed'
BY DEF Quiet, Publish, CloseLedger, LoadCursor, StartBlind, StartPoll, FetchPage,
   FetchFails, AskLatest, PageDone, SaveCursor, vars, history, tables, Skip

LEMMA NextSplits == [Next]_vars <=> Quiet \/ ProcessEvent \/ Crash
BY DEF Next, Indexer, Quiet

LEMMA PriceType ==
  ASSUME TypeOK, Len(chain) < MaxEvents, NEW t, NEW a, NEW b
  PROVE  Price(t, a, b) \subseteq 0 .. MaxEvents
<1>1. /\ Len(chain) + 1 \in 0 .. MaxEvents /\ 0 \in 0 .. MaxEvents
      /\ \A i \in DOMAIN chain : chain[i].price \in 0 .. MaxEvents /\ i \in 0 .. MaxEvents
  BY ChainType, SizesAssumption DEF Published
<1>. QED
  BY <1>1 DEF Price, Of

(* The chain grows by the event published, or not at all. *)
LEMMA ChainGrows ==
  ASSUME TypeOK, [Next]_vars
  PROVE  \/ chain' = chain
         \/ \E e \in Published : chain' = Append(chain, e) /\ Len(chain) < MaxEvents
                                 /\ UNCHANGED history
<1>1. ASSUME NEW t \in EventTypes, NEW a \in Auctions, NEW b \in Bidders, Publish(t, a, b)
      PROVE  \E e \in Published : chain' = Append(chain, e) /\ Len(chain) < MaxEvents
                                  /\ UNCHANGED history
  <2>0. PICK price \in Price(t, a, b) :
          chain' = Append(chain, [ledger |-> height + 1, type |-> t, auction |-> a,
                                  bidder |-> b, price |-> price])
    BY <1>1 DEF Publish
  <2>. DEFINE e == [ledger |-> height + 1, type |-> t, auction |-> a, bidder |-> b,
                    price |-> price]
  <2>1. height < MaxHeight /\ height \in 0 .. MaxHeight /\ Len(chain) < MaxEvents
    BY <1>1 DEF Publish, TypeOK
  <2>2. e \in Published
    BY <2>1, SizesAssumption, PriceType DEF Published
  <2>3. chain' = Append(chain, e) /\ Len(chain) < MaxEvents /\ UNCHANGED history
    BY <1>1, <2>0 DEF Publish
  <2>. QED
    BY <2>2, <2>3
<1>2. ASSUME ~ \E t \in EventTypes, a \in Auctions, b \in Bidders : Publish(t, a, b)
      PROVE  chain' = chain
  BY <1>2 DEF Next, Indexer, CloseLedger, LoadCursor, StartBlind, StartPoll, FetchPage,
     FetchFails, AskLatest, ProcessEvent, PageDone, SaveCursor, Crash, vars, source
<1>. QED
  BY <1>1, <1>2

LEMMA TypeInit == Init => TypeOK
<1>. SUFFICES ASSUME Init PROVE TypeOK
  OBVIOUS
<1>1. full \in BOOLEAN /\ pc \in {"idle", "fetch", "process", "ask", "save"}
  BY Zenon DEF Init
<1>. QED
  BY <1>1, SizesAssumption DEF Init, TypeOK

LEMMA TypeChain ==
  ASSUME TypeOK, [Next]_vars
  PROVE  /\ chain' \in Seq(Published) /\ Len(chain') <= MaxEvents
         /\ DOMAIN chain \subseteq DOMAIN chain'
         /\ \A i \in DOMAIN chain : chain'[i] = chain[i]
         /\ height' \in 0 .. MaxHeight
<1>1. /\ chain' \in Seq(Published) /\ Len(chain') <= MaxEvents
      /\ DOMAIN chain \subseteq DOMAIN chain'
      /\ \A i \in DOMAIN chain : chain'[i] = chain[i]
  <2>1. CASE chain' = chain
    BY <2>1, ChainType
  <2>2. ASSUME NEW e \in Published, chain' = Append(chain, e), Len(chain) < MaxEvents
        PROVE  /\ chain' \in Seq(Published) /\ Len(chain') <= MaxEvents
               /\ DOMAIN chain \subseteq DOMAIN chain'
               /\ \A i \in DOMAIN chain : chain'[i] = chain[i]
    BY <2>2, ChainType, SizesAssumption
  <2>. QED
    BY <2>1, <2>2, ChainGrows
<1>2. height' \in 0 .. MaxHeight
  <2>1. height' = height \/ (height < MaxHeight /\ height' = height + 1)
    BY DEF Next, Indexer, Publish, CloseLedger, LoadCursor, StartBlind, StartPoll, FetchPage,
       FetchFails, AskLatest, ProcessEvent, PageDone, SaveCursor, Crash, vars, source
  <2>. QED
    BY <2>1, SizesAssumption DEF TypeOK
<1>. QED
  BY <1>1, <1>2

LEMMA TypeTables ==
  ASSUME IInv, TypeOK, [Next]_vars
  PROVE  /\ auctions' \in [Auctions -> Rows \union {None}]
         /\ bids' \subseteq BidRows /\ events' \subseteq EventRows
<1>1. ASSUME NEW k, Ran(k)
      PROVE  /\ auctions' \in [Auctions -> Rows \union {None}]
             /\ bids' \subseteq BidRows /\ events' \subseteq EventRows
  BY <1>1, RanDb DEF Ran, Tables
<1>2. ASSUME UNCHANGED tables
      PROVE  /\ auctions' \in [Auctions -> Rows \union {None}]
             /\ bids' \subseteq BidRows /\ events' \subseteq EventRows
  BY <1>2 DEF tables, TypeOK
<1>3. (\E k : Ran(k)) \/ UNCHANGED tables
  BY NextSplits, QuietKeeps, ProcessRuns, CrashRuns
<1>. QED
  BY <1>1, <1>2, <1>3

LEMMA TypeHistory ==
  ASSUME IInv, TypeOK, [Next]_vars
  PROVE  {seen', failed', missed', pushed'} \subseteq SUBSET (DOMAIN chain')
<1>0. DOMAIN chain \subseteq DOMAIN chain' /\
      {seen, failed, missed, pushed} \subseteq SUBSET (DOMAIN chain)
  BY TypeChain DEF TypeOK
<1>1. CASE Quiet
  <2>1. UNCHANGED <<seen, failed, pushed>>
    BY <1>1, QuietKeeps
  <2>2. missed' \subseteq missed \union DOMAIN chain
    BY <1>1 DEF Quiet, Publish, CloseLedger, LoadCursor, StartBlind, StartPoll, FetchPage,
       FetchFails, AskLatest, PageDone, SaveCursor, vars, history, Skip
  <2>. QED
    BY <1>0, <2>1, <2>2
<1>2. CASE ProcessEvent
  <2>1. next \in DOMAIN chain
    BY <1>2, ProcessRuns DEF Ran
  <2>2. failed' \subseteq failed \union {next} /\ pushed' \subseteq pushed \union {next}
    BY <1>2, ProcessRuns
  <2>3. seen' = seen \union {next} /\ missed' = missed \ {next}
    BY <1>2 DEF ProcessEvent
  <2>. QED
    BY <1>0, <2>1, <2>2, <2>3
<1>3. CASE Crash
  <2>1. UNCHANGED <<seen, missed, pushed>>
    BY <1>3 DEF Crash
  <2>2. failed' \subseteq failed \union DOMAIN chain
    BY <1>3, CrashRuns DEF Ran
  <2>. QED
    BY <1>0, <2>1, <2>2
<1>. QED
  BY <1>1, <1>2, <1>3, NextSplits

LEMMA TypeMemory ==
  ASSUME IInv, TypeOK, [Next]_vars
  PROVE  /\ cursorLedger' \in 0 .. MaxHeight + 1
         /\ next' \in 1 .. MaxEvents + 1 /\ last' \in 0 .. MaxEvents
         /\ faults' \in 0 .. MaxFaults
<1>0. /\ cursorLedger \in 0 .. MaxHeight + 1 /\ lastLedger \in 0 .. MaxHeight
      /\ next \in 1 .. MaxEvents + 1 /\ last \in 0 .. MaxEvents
      /\ faults \in 0 .. MaxFaults
      /\ MaxHeight \in Nat /\ MaxEvents \in Nat /\ MaxFaults \in Nat
      /\ Len(chain) \in Nat /\ Len(chain) <= MaxEvents
  BY SizesAssumption, ChainType DEF TypeOK
<1>1. Fail => faults' \in 0 .. MaxFaults
  BY <1>0 DEF Fail
<1>2. CASE ProcessEvent
  <2>1. cursorLedger' = cursorLedger /\ last' = last /\ next' = next + 1 /\ next <= last
    BY <1>2 DEF ProcessEvent
  <2>2. faults' \in 0 .. MaxFaults
    BY <1>2, ProcessRuns
  <2>. QED
    BY <1>0, <2>1, <2>2
<1>3. CASE FetchPage
  <2>1. /\ next' = next \/ next' \in 1 .. Len(chain) + 1
        /\ last' = last \/ last' \in 0 .. Len(chain)
        /\ UNCHANGED <<cursorLedger, faults>>
    BY <1>3 DEF FetchPage
  <2>. QED
    BY <1>0, <2>1
<1>4. CASE PageDone
  BY <1>0, <1>4 DEF PageDone, NextPage
<1>5. CASE FetchFails \/ SaveCursor \/ Crash
  BY <1>0, <1>1, <1>5 DEF FetchFails, SaveCursor, Crash, Return
<1>6. CASE StartPoll
  BY <1>0, <1>6 DEF StartPoll
<1>7. CASE LoadCursor \/ StartBlind \/ AskLatest
  BY <1>0, <1>1, <1>7 DEF LoadCursor, StartBlind, AskLatest
<1>8. CASE CloseLedger \/ UNCHANGED vars
         \/ \E t \in EventTypes, a \in Auctions, b \in Bidders : Publish(t, a, b)
  BY <1>0, <1>8 DEF CloseLedger, Publish, vars, memory
<1>. QED
  BY <1>2, <1>3, <1>4, <1>5, <1>6, <1>7, <1>8 DEF Next, Indexer

LEMMA TypeStep ==
  ASSUME IInv, TypeOK, [Next]_vars
  PROVE  TypeOK'
<1>1. IInv'
  BY IInvNext
<1>2. /\ cursor_state' \in Nat /\ lastLedger' \in Nat
      /\ cursor_state' <= height' /\ lastLedger' <= height'
      /\ full' \in BOOLEAN /\ pc' \in {"idle", "fetch", "process", "ask", "save"}
      /\ at' \in {0} \union DOMAIN chain'
  BY <1>1 DEF IInv, LoopOK, AtOK
<1>3. {cursor_state', lastLedger'} \subseteq 0 .. MaxHeight
  BY <1>2, TypeChain, SizesAssumption
<1>. QED
  BY <1>2, <1>3, TypeChain, TypeTables, TypeHistory, TypeMemory DEF TypeOK, Published

(* The loop and its tables keep their shape for any numbers of auctions, events, ledgers
   and faults: what the handlers write are rows of the tables, and no event is looked for
   beyond the closed ledgers. *)
THEOREM IndexerTypes == Spec => []TypeOK
<1>1. Init => IInv /\ TypeOK
  BY IInvInit, TypeInit
<1>2. IInv /\ TypeOK /\ [Next]_vars => IInv' /\ TypeOK'
  BY IInvNext, TypeStep
<1>. QED
  BY <1>1, <1>2, PTL DEF Spec

-----------------------------------------------------------------------------
(* Records. *)

LEMMA RecordsInit == Init => Records
BY DEF Init, Records

(* A handler that completes records its event, unless one with its key is recorded. *)
LEMMA RecordsStep ==
  ASSUME IInv, TypeOK, Records, [Next]_vars
  PROVE  Records'
<1>0. /\ seen \subseteq DOMAIN chain
      /\ \A i \in DOMAIN chain : chain'[i] = chain[i]
  BY TypeChain DEF TypeOK
<1>1. CASE Quiet
  <2>1. UNCHANGED <<events, seen, failed, at>>
    BY <1>1, QuietKeeps DEF tables
  <2>. QED
    BY <1>0, <2>1 DEF Records, Key, Noted
<1>2. CASE Crash
  <2>1. UNCHANGED <<chain, seen, at>>
    BY <1>2 DEF Crash, source
  <2>2. failed \subseteq failed' /\ events \subseteq events'
    BY <1>2, CrashRuns, RanDb DEF tables
  <2>. QED
    BY <2>1, <2>2 DEF Records, Noted
<1>3. CASE ProcessEvent
  <2>. DEFINE e == chain[next]
              len == Len(Statements(e))
  <2>1. /\ UNCHANGED chain /\ seen' = seen \union {next} /\ at' = next
    BY <1>3 DEF ProcessEvent, source
  <2>2. PICK k : /\ Ran(k)
                 /\ failed' = IF k = len THEN failed \ {next} ELSE failed \union {next}
    BY <1>3, ProcessRuns
  <2>3. events \subseteq events'
    BY <2>2, RanDb
  <2>4. ASSUME k = len, Topic(e) \in Handled PROVE Noted(events', e)
    <3>1. Db \in Tables /\ e \in Published /\ next \in 1 .. MaxEvents
      BY <2>2, DbType, ChainType DEF Ran
    <3>. DEFINE d == RunHandler(Db, next, e, Len(Statements(e)))
    <3>. HIDE DEF e
    <3>2. Noted(d.events, e)
      BY <2>4, <3>1, HandlerDone
    <3>3. events' = RunHandler(Db, next, e, k).events
      BY <2>2 DEF Ran, e
    <3>. QED
      BY <2>4, <3>2, <3>3
  <2>. HIDE DEF len
  <2>5. \A i \in seen' \ failed' : Topic(chain[i]) \in Handled => Noted(events', chain[i])
    BY <2>1, <2>2, <2>3, <2>4 DEF Records, Noted
  <2>. QED
    BY <2>1, <2>5 DEF Records
<1>. QED
  BY <1>1, <1>2, <1>3, NextSplits

-----------------------------------------------------------------------------
(* What clients have been told of. *)

(* Two rows of one bid: the columns no statement updates are the same. *)
SameId(r, q) == r.auction = q.auction /\ r.bidder = q.bidder /\ r.amount = q.amount

BidsStay(rows, new) == \A r \in rows : \E q \in new : SameId(r, q)

(* No statement of a handler takes a bid out of its table. *)
LEMMA ChangeKeepsBids ==
  ASSUME NEW db \in Tables, NEW e \in Published, NEW i \in 1 .. MaxEvents,
         NEW c \in Partial(db, i, e)
  PROVE  BidsStay(db.bids, c.bids)
<1>0. \A rows : BidsStay(rows, rows)
  BY DEF BidsStay, SameId
<1>1. ASSUME NEW x \in Tables, NEW row PROVE UpdateAuction(x, e, row).bids = x.bids
  BY DEF UpdateAuction, Tables
<1>2. ASSUME NEW x \in Tables PROVE BidsStay(x.bids, InsertBid(x, i, e).bids)
  BY DEF InsertBid, BidsStay, SameId, Tables
<1>3. CASE c = db
  BY <1>0, <1>3
<1>4. CASE c = InsertBid(db, i, e)
  BY <1>2, <1>4
<1>5. CASE c = Change(db, i, e) /\ Topic(e) = "auction_created"
  <2>1. c = UpsertAuction(db, e)
    BY <1>5 DEF Change, RefundTopics
  <2>. QED
    BY <1>0, <1>5, <2>1, NewRow
<1>6. CASE c = Change(db, i, e) /\ Topic(e) = "bid_placed"
  <2>. DEFINE mid == InsertBid(db, i, e)
              wipe(r) == IF r.auction = e.auction THEN [r EXCEPT !.is_winning = FALSE] ELSE r
              cleared == {wipe(r) : r \in mid.bids}
              low == [mid EXCEPT !.bids = cleared]
              row == [mid.auctions[e.auction] EXCEPT !.highest = i,
                        !.highest_bidder = e.bidder, !.status = "active"]
  <2>1. c = UpdateAuction(low, e, row)
    BY <1>6 DEF Change, RefundTopics, UpdateAuctionOnBid
  <2>2. mid \in Tables
    BY <1>6, InsertedBid DEF SameBut
  <2>3. low \in Tables /\ low.bids = cleared
    <3>. HIDE DEF mid
    <3>. QED
      BY <2>2, ClearedBids
  <2>4. BidsStay(db.bids, mid.bids)
    BY <1>2
  <2>5. \A r \in mid.bids : SameId(r, wipe(r)) /\ wipe(r) \in cleared
    BY <2>2 DEF SameId, Tables, BidRows
  <2>6. BidsStay(db.bids, cleared)
    <3>. HIDE DEF mid, cleared, wipe
    <3>. QED
      BY <2>4, <2>5 DEF BidsStay, SameId
  <2>. HIDE DEF low, row, cleared
  <2>. QED
    BY <1>1, <2>1, <2>3, <2>6
<1>7. CASE c = Change(db, i, e) /\ Topic(e) \in RefundTopics
  <2>. DEFINE mark(r) == IF r.auction = e.auction /\ r.bidder = e.bidder
                         THEN [r EXCEPT !.refunded = TRUE, !.is_winning = FALSE] ELSE r
  <2>1. c = MarkBidRefunded(db, e)
    BY <1>7 DEF Change, RefundTopics
  <2>2. c.bids = {mark(r) : r \in db.bids}
    BY <2>1 DEF MarkBidRefunded, Tables
  <2>3. \A r \in db.bids : SameId(r, mark(r))
    BY DEF SameId, Tables, BidRows
  <2>. QED
    BY <2>2, <2>3 DEF BidsStay
<1>8. CASE c = Change(db, i, e) /\ Topic(e) \in UpdateTopics \ {"bid_placed"}
  <2>1. c = UpdateAuction(db, e, RowWith(db.auctions[e.auction], e, i))
    BY <1>8 DEF Change, UpdateTopics, RefundTopics, RowWith, UpdateAuctionOnClose,
         UpdateAuctionOnSettle, UpdateAuctionOnCancel, UpdateAuctionOnAttestation
  <2>. QED
    BY <1>0, <1>1, <2>1
<1>9. CASE /\ c = Change(db, i, e)
           /\ Topic(e) \notin UpdateTopics \union RefundTopics \union {"auction_created"}
  <2>1. c = db
    BY <1>9 DEF Change, UpdateTopics, RefundTopics
  <2>. QED
    BY <1>0, <2>1
<1>. QED
  BY <1>3, <1>4, <1>5, <1>6, <1>7, <1>8, <1>9 DEF Partial

(* Nor does a handler, or a part of one, take out a row of either table. *)
LEMMA HandlerKeeps ==
  ASSUME NEW db \in Tables, NEW e \in Published, NEW i \in 1 .. MaxEvents,
         NEW k \in 0 .. Len(Statements(e)), NEW d, d = RunHandler(db, i, e, k)
  PROVE  /\ \A a \in Auctions : db.auctions[a] # None => d.auctions[a] # None
         /\ BidsStay(db.bids, d.bids)
<1>1. /\ SameBut(d, db, e)
      /\ \/ d.auctions[e.auction] = db.auctions[e.auction]
         \/ Wrote(db.auctions[e.auction], d.auctions[e.auction], e, i)
  BY HandlerEffect
<1>2. \A a \in Auctions : db.auctions[a] # None => d.auctions[a] # None
  BY <1>1 DEF SameBut, Wrote
<1>3. PICK c \in Partial(db, i, e) : d \in {c, InsertEvent(c, i, e)}
  BY HandlerRuns
<1>4. d.bids = c.bids
  <2>1. c \in Tables
    BY <1>3, ChangeEffect, InsertedBid DEF Partial, SameBut
  <2>. QED
    BY <1>3, <2>1, Recorded
<1>. QED
  BY <1>2, <1>3, <1>4, ChangeKeepsBids

(* What the event at place i brings is there for the API to read. *)
Readable(rows, bidRows, i, e) ==
  /\ e.type \in {"auction_created", "bid_placed"} => rows[e.auction] # None
  /\ e.type = "bid_placed" =>
       \E r \in bidRows : r.auction = e.auction /\ r.bidder = e.bidder /\ r.amount = i

LEMMA ReadableStays ==
  ASSUME NEW rows, NEW new, NEW bidRows, NEW newBids, NEW i, NEW e, e.auction \in Auctions,
         Readable(rows, bidRows, i, e),
         \A a \in Auctions : rows[a] # None => new[a] # None, BidsStay(bidRows, newBids)
  PROVE  Readable(new, newBids, i, e)
<1>1. e.type = "bid_placed" =>
        \E r \in newBids : r.auction = e.auction /\ r.bidder = e.bidder /\ r.amount = i
  <2>. SUFFICES ASSUME e.type = "bid_placed"
                PROVE  \E r \in newBids : r.auction = e.auction /\ r.bidder = e.bidder
                                          /\ r.amount = i
    OBVIOUS
  <2>1. PICK r \in bidRows : r.auction = e.auction /\ r.bidder = e.bidder /\ r.amount = i
    BY DEF Readable
  <2>2. PICK q \in newBids : SameId(r, q)
    BY DEF BidsStay
  <2>. QED
    BY <2>1, <2>2 DEF SameId
<1>. QED
  BY <1>1 DEF Readable

(* A handler that completes makes its own event readable, if clients are told of it. *)
LEMMA HandlerReadable ==
  ASSUME NEW db \in Tables, NEW e \in Published, NEW i \in 1 .. MaxEvents, NEW d,
         d = RunHandler(db, i, e, Len(Statements(e))),
         Topic(e) \in Broadcast, Orphan(db, e) => Len(Statements(e)) = 0
  PROVE  Readable(d.auctions, d.bids, i, e)
<1>. SUFFICES ASSUME e.type \in {"auction_created", "bid_placed"}
              PROVE  Readable(d.auctions, d.bids, i, e)
  BY DEF Readable
<1>1. Topic(e) = e.type
  <2>1. CASE NamedEvents
    BY <2>1 DEF Topic
  <2>2. CASE ~NamedEvents
    <3>1. Topic(e) \in {"auc_new", "bid_new"}
      BY <2>2 DEF Topic, Symbols
    <3>. QED
      BY <3>1 DEF Broadcast
  <2>. QED
    BY <2>1, <2>2
<1>2. /\ Wrote(db.auctions[e.auction], d.auctions[e.auction], e, i)
      /\ Topic(e) = "bid_placed" => NewBid(i, e) \in d.bids
  BY HandlerDone
<1>3. CASE e.type = "auction_created"
  BY <1>1, <1>2, <1>3 DEF Wrote, Readable
<1>4. CASE e.type = "bid_placed"
  <2>1. Statements(e) = <<"insertBid", "updateAuctionOnBid", "insertEvent">>
    BY <1>1, <1>4 DEF Statements
  <2>2. Len(Statements(e)) = 3
    BY <2>1
  <2>3. db.auctions[e.auction] # None
    BY <1>1, <1>4, <2>2 DEF Orphan
  <2>4. d.auctions[e.auction] # None
    BY <1>2, <2>3 DEF Wrote
  <2>5. NewBid(i, e) \in d.bids
    BY <1>1, <1>2, <1>4
  <2>. QED
    BY <1>4, <2>4, <2>5 DEF Readable, NewBid
<1>. QED
  BY <1>3, <1>4

LEMMA PushedReads ==
  PushedIsReadable <=> \A i \in pushed : Readable(auctions, bids, i, chain[i])
BY DEF PushedIsReadable, Readable

LEMMA PushedStep ==
  ASSUME IInv, TypeOK, PushedIsReadable, [Next]_vars
  PROVE  PushedIsReadable'
<1>0. /\ pushed \subseteq DOMAIN chain
      /\ \A i \in DOMAIN chain : chain'[i] = chain[i] /\ chain[i].auction \in Auctions
  BY TypeChain, ChainType DEF TypeOK, Published
<1>1. \A i \in pushed : Readable(auctions, bids, i, chain[i])
  BY PushedReads
<1>2. ASSUME NEW k, Ran(k)
      PROVE  \A i \in pushed : Readable(auctions', bids', i, chain[i])
  <2>1. /\ Db \in Tables /\ chain[next] \in Published /\ next \in 1 .. MaxEvents
        /\ k \in 0 .. Len(Statements(chain[next]))
        /\ Db.auctions = auctions /\ Db.bids = bids
    BY <1>2, DbType, ChainType, DbOf DEF Ran
  <2>2. /\ \A a \in Auctions : auctions[a] # None => auctions'[a] # None
        /\ BidsStay(bids, bids')
    BY <1>2, <2>1, HandlerKeeps DEF Ran
  <2>. QED
    BY <1>0, <1>1, <2>2, ReadableStays
<1>3. CASE Quiet
  <2>1. UNCHANGED <<auctions, bids, pushed>>
    BY <1>3, QuietKeeps DEF tables
  <2>. QED
    BY <1>0, <1>1, <2>1 DEF PushedIsReadable, Readable
<1>4. CASE Crash
  <2>1. UNCHANGED <<chain, pushed>>
    BY <1>4 DEF Crash, source
  <2>2. CASE UNCHANGED tables
    BY <1>1, <2>1, <2>2 DEF PushedIsReadable, Readable, tables
  <2>3. CASE \E k : Ran(k)
    BY <1>2, <2>1, <2>3 DEF PushedIsReadable, Readable
  <2>. QED
    BY <1>4, <2>2, <2>3, CrashRuns
<1>5. CASE ProcessEvent
  <2>. DEFINE e == chain[next]
              len == Len(Statements(e))
  <2>1. chain' = chain
    BY <1>5 DEF ProcessEvent, source
  <2>2. PICK k : /\ Ran(k)
                 /\ Orphan(Db, e) => k = 0
                 /\ pushed' = IF k = len /\ Topic(e) \in Broadcast
                              THEN pushed \union {next} ELSE pushed
    BY <1>5, ProcessRuns
  <2>3. \A i \in pushed : Readable(auctions', bids', i, chain[i])
    BY <1>2, <2>2
  <2>4. ASSUME k = len, Topic(e) \in Broadcast
        PROVE  Readable(auctions', bids', next, e)
    <3>1. Db \in Tables /\ e \in Published /\ next \in 1 .. MaxEvents
      BY <2>2, DbType, ChainType DEF Ran
    <3>2. /\ auctions' = RunHandler(Db, next, e, k).auctions
          /\ bids' = RunHandler(Db, next, e, k).bids
      BY <2>2 DEF Ran
    <3>. HIDE DEF e
    <3>. QED
      BY <2>2, <2>4, <3>1, <3>2, HandlerReadable
  <2>5. \A i \in pushed' : Readable(auctions', bids', i, chain[i])
    <3>. HIDE DEF len
    <3>. QED
      BY <2>2, <2>3, <2>4
  <2>. QED
    BY <2>1, <2>5 DEF PushedIsReadable, Readable
<1>. QED
  BY <1>3, <1>4, <1>5, NextSplits

LEMMA IndexerInv == Spec => [](IInv /\ TypeOK /\ Records /\ PushedIsReadable)
<1>1. Init => IInv /\ TypeOK /\ Records /\ PushedIsReadable
  <2>1. Init => PushedIsReadable
    BY DEF Init, PushedIsReadable
  <2>. QED
    BY <2>1, IInvInit, TypeInit, RecordsInit
<1>2. IInv /\ TypeOK /\ Records /\ PushedIsReadable /\ [Next]_vars
        => IInv' /\ TypeOK' /\ Records' /\ PushedIsReadable'
  BY IInvNext, TypeStep, RecordsStep, PushedStep
<1>. QED
  BY <1>1, <1>2, PTL DEF Spec

(* A client that is told of a new auction or a bid finds it where the API reads: the rows
   are there at the broadcast, and no replay, crash or handler cut short after any
   statement takes them away again. *)
THEOREM PushedIsReadableHolds == Spec => []PushedIsReadable
BY IndexerInv, PTL

(* Were the contract's events named as the handlers expect, every event at or below the
   stored cursor would have left one with its ledger, type and auction in the events
   table, but for those whose handler failed last and those the code moves past without
   asking - for every page size, chain and number of faults.  It says nothing of a second
   event of that ledger, type and auction, which the table's index drops. *)
THEOREM IngestedIfNamed ==
  ASSUME NamedEvents
  PROVE  Spec => []Ingested
<1>1. IInv /\ TypeOK /\ Records => Ingested
  <2>. SUFFICES ASSUME IInv, TypeOK, Records, NEW i \in DOMAIN chain,
                       chain[i].ledger <= cursor_state,
                       i \notin failed \union (missed \ seen)
                PROVE  \E r \in events : r.key = Key(chain[i])
    BY DEF Ingested
  <2>1. i \in seen \ failed
    BY DEF IInv, Covered, CoveredBy
  <2>2. chain[i] \in Published
    BY ChainType
  <2>3. Topic(chain[i]) \in Handled
    BY <2>2, TypesAssumption DEF Topic, Published
  <2>. QED
    BY <2>1, <2>3 DEF Records, Noted
<1>. QED
  BY <1>1, IndexerInv, PTL

-----------------------------------------------------------------------------
(* Replay. *)

(* An auction's first event is its creation. *)
LEMMA CreatedStep ==
  ASSUME TypeOK, Created, [Next]_vars
  PROVE  Created'
<1>1. CASE chain' = chain
  BY <1>1 DEF Created
<1>2. ASSUME NEW t \in EventTypes, NEW a \in Auctions, NEW b \in Bidders, Publish(t, a, b)
      PROVE  Created'
  <2>0. PICK price \in Price(t, a, b) :
          chain' = Append(chain, [ledger |-> height + 1, type |-> t, auction |-> a,
                                  bidder |-> b, price |-> price])
    BY <1>2 DEF Publish
  <2>. DEFINE e == [ledger |-> height + 1, type |-> t, auction |-> a, bidder |-> b,
                    price |-> price]
              n == Len(chain) + 1
              begins(c) == chain[c].type = "auction_created" /\ chain[c].auction = a
  <2>1. chain' = Append(chain, e) /\ Publishable(t, a, b)
    BY <1>2, <2>0 DEF Publish
  <2>2. /\ DOMAIN chain = 1 .. Len(chain) /\ Len(chain) \in Nat
        /\ DOMAIN chain' = 1 .. n /\ chain'[n] = e
        /\ \A i \in DOMAIN chain : chain'[i] = chain[i]
    BY <2>1, ChainType
  <2>3. ASSUME NEW i \in DOMAIN chain, chain[i].auction = a
        PROVE  \E c \in DOMAIN chain : begins(c)
    BY <2>2, <2>3 DEF Created
  <2>4. ASSUME t # "auction_created" PROVE \E i \in DOMAIN chain : chain[i].auction = a
    <3>1. Of(a) # {} \/ TypesOf(a) # {}
      BY <2>1, <2>4 DEF Publishable, LastIs, HasBid
    <3>. QED
      BY <3>1 DEF Of, TypesOf
  <2>5. e.type = t /\ e.auction = a
    OBVIOUS
  <2>. HIDE DEF e, n
  <2>6. ASSUME NEW i \in 1 .. n, chain'[i].type # "auction_created"
        PROVE  \E c \in 1 .. i - 1 :
                 chain'[c].type = "auction_created" /\ chain'[c].auction = chain'[i].auction
    <3>1. CASE i \in DOMAIN chain
      <4>1. PICK c \in 1 .. i - 1 :
              chain[c].type = "auction_created" /\ chain[c].auction = chain[i].auction
        BY <2>2, <2>6, <3>1 DEF Created
      <4>2. c \in DOMAIN chain
        BY <2>2, <3>1
      <4>. QED
        BY <2>2, <3>1, <4>1, <4>2
    <3>2. CASE i = n
      <4>1. PICK c \in DOMAIN chain : begins(c)
        BY <2>2, <2>3, <2>4, <2>5, <2>6, <3>2
      <4>2. c \in 1 .. i - 1
        BY <2>2, <3>2 DEF n
      <4>. QED
        BY <2>2, <2>5, <3>2, <4>1, <4>2
    <3>. QED
      BY <2>2, <3>1, <3>2 DEF n
  <2>. QED
    BY <2>2, <2>6 DEF Created
<1>3. ASSUME ~ \E t \in EventTypes, a \in Auctions, b \in Bidders : Publish(t, a, b)
      PROVE  chain' = chain
  BY <1>3 DEF Next, Indexer, CloseLedger, LoadCursor, StartBlind, StartPoll, FetchPage,
     FetchFails, AskLatest, ProcessEvent, PageDone, SaveCursor, Crash, vars, source
<1>. QED
  BY <1>1, <1>2, <1>3

LEMMA SetsIfNamed ==
  ASSUME NEW e \in Published, Sets(Topic(e)) # {}
  PROVE  Topic(e) = e.type /\ NamedEvents
<1>1. e.type \in Handled
  BY TypesAssumption DEF Published
<1>2. CASE NamedEvents
  BY <1>2 DEF Topic
<1>3. CASE ~NamedEvents
  <2>1. Topic(e) \in {"auc_new", "bid_new", "bid_ref", "auc_end", "auc_set", "auc_cxl",
                      "att_rec", "auc_ext", "bid_out"}
    BY <1>1, <1>3 DEF Topic, Symbols, Handled, Broadcast
  <2>2. Sets(Topic(e)) = {}
    BY <2>1 DEF Sets
  <2>. QED
    BY <2>2
<1>. QED
  BY <1>2, <1>3

LEMMA RowsFound ==
  ASSUME TypeOK, Created, NEW n \in DOMAIN chain
  PROVE  HasRow(chain, n)
<1>. DEFINE t == Topic(chain[n])
<1>1. /\ chain \in Seq(Published) /\ Len(chain) <= MaxEvents /\ chain[n] \in Published
      /\ n \in 1 .. Len(chain) /\ Len(chain) \in Nat
      /\ \A i \in DOMAIN chain : chain[i] \in Published /\ i \in 1 .. Len(chain)
  BY ChainType
<1>. SUFFICES ASSUME Sets(t) # {}, t # "auction_created"
              PROVE  Ideal(chain)[n - 1].auctions[chain[n].auction] # None
  BY DEF HasRow
<1>2. t = chain[n].type /\ NamedEvents
  BY <1>1, SetsIfNamed
<1>3. PICK c \in 1 .. n - 1 :
        chain[c].type = "auction_created" /\ chain[c].auction = chain[n].auction
  BY <1>2 DEF Created
<1>4. c \in 1 .. Len(chain) /\ n - 1 \in c .. Len(chain)
  BY <1>1
<1>5. Topic(chain[c]) = "auction_created"
  BY <1>2, <1>3 DEF Topic
<1>. QED
  BY <1>1, <1>3, <1>4, <1>5, IdealHasRow

-----------------------------------------------------------------------------
(* The loop leaves nothing behind unnoticed. *)

LEMMA PassedInit == Init => PassedIsMissed
BY DEF Init, PassedIsMissed

(* The ledger up to which events of idle, asking and saving states are passed. *)
LEMMA PassedOutside ==
  ASSUME pc \in {"idle", "ask", "save"}
  PROVE  PassedIsMissed <=>
           \A i \in DOMAIN chain : at < i /\ chain[i].ledger <= lastLedger => i \in missed
BY DEF PassedIsMissed, Passed

LEMMA PassedInFetch ==
  ASSUME pc = "fetch"
  PROVE  PassedIsMissed <=>
           \A i \in DOMAIN chain : at < i /\ chain[i].ledger < cursorLedger => i \in missed
BY DEF PassedIsMissed, Passed

LEMMA PassedInPage ==
  ASSUME pc = "process"
  PROVE  PassedIsMissed <=> \A i \in DOMAIN chain : at < i /\ i < next => i \in missed
BY DEF PassedIsMissed, Passed

LEMMA SkipPasses ==
  ASSUME NEW l, UNCHANGED <<source, at>>, Skip(l), lastLedger' = l,
         pc' \in {"idle", "ask", "save"}, ChainOK, at \in Nat
  PROVE  PassedIsMissed'
<1>1. \A i \in DOMAIN chain : i \in Nat
  BY Ledgers
<1>2. \A i \in DOMAIN chain' : at' < i /\ chain'[i].ledger <= lastLedger' => i \in missed'
  BY <1>1 DEF source, Skip
<1>. QED
  BY <1>2 DEF PassedIsMissed, Passed

LEMMA Passing ==
  ASSUME IInv
  PROVE  /\ \A i \in DOMAIN chain : i \in Nat /\ chain[i].ledger \in Nat \ {0}
         /\ \A i, j \in DOMAIN chain : i <= j => chain[i].ledger <= chain[j].ledger
         /\ at \in Nat /\ lastLedger \in Nat /\ cursorLedger \in Nat /\ next \in Nat
         /\ height \in Nat /\ lastLedger <= height
         /\ DOMAIN chain = 1 .. Len(chain) /\ Len(chain) \in Nat
BY Ledgers DEF IInv, ChainOK, LoopOK, AtOK

LEMMA PassedPublish ==
  ASSUME IInv, PassedIsMissed,
         NEW t \in EventTypes, NEW a \in Auctions, NEW b \in Bidders, Publish(t, a, b)
  PROVE  PassedIsMissed'
<1>0. PICK price \in Price(t, a, b) :
        chain' = Append(chain, [ledger |-> height + 1, type |-> t, auction |-> a,
                                bidder |-> b, price |-> price])
  BY DEF Publish
<1>. DEFINE e == [ledger |-> height + 1, type |-> t, auction |-> a, bidder |-> b,
                  price |-> price]
            n == Len(chain) + 1
<1>1. /\ chain' = Append(chain, e)
      /\ UNCHANGED <<pc, lastLedger, cursorLedger, next, missed, at>>
  BY <1>0 DEF Publish, memory, history
<1>2. /\ DOMAIN chain' = DOMAIN chain \union {n}
      /\ \A i \in DOMAIN chain : chain'[i] = chain[i]
      /\ chain'[n].ledger = height + 1
  BY <1>1, Passing
<1>3. pc \in {"idle", "ask", "save"} => ~(chain'[n].ledger <= lastLedger)
  BY <1>2, Passing
<1>4. pc = "fetch" => ~(chain'[n].ledger < cursorLedger)
  <2>1. pc = "fetch" => cursorLedger \in {lastLedger, lastLedger + 1}
    BY DEF IInv
  <2>. QED
    BY <1>2, <2>1, Passing
<1>5. pc = "process" => ~(n < next)
  <2>1. pc = "process" => last \in DOMAIN chain /\ next <= last + 1
    BY DEF IInv, PageOK
  <2>. QED
    BY <2>1, Passing
<1>6. pc \in {"idle", "fetch", "process", "ask", "save"}
  BY DEF IInv, LoopOK
<1>. HIDE DEF n
<1>7. ASSUME NEW i \in DOMAIN chain', at < i, Passed(i)' PROVE i \in missed
  <2>1. i \in DOMAIN chain
    BY <1>1, <1>2, <1>3, <1>4, <1>5, <1>6, <1>7 DEF Passed
  <2>2. Passed(i)
    BY <1>1, <1>2, <1>6, <1>7, <2>1 DEF Passed
  <2>. QED
    BY <1>7, <2>1, <2>2 DEF PassedIsMissed
<1>. QED
  BY <1>1, <1>7 DEF PassedIsMissed

LEMMA PassedProcess ==
  ASSUME IInv, PassedIsMissed, ProcessEvent
  PROVE  PassedIsMissed'
<1>1. chain' = chain /\ pc' = "process" /\ at' = next /\ next' = next + 1
  BY DEF ProcessEvent, source
<1>2. \A i \in DOMAIN chain : ~(next < i /\ i < next + 1)
  BY Passing
<1>. QED
  BY <1>1, <1>2 DEF PassedIsMissed, Passed

LEMMA PassedFetchPage ==
  ASSUME IInv, PassedIsMissed, FetchPage
  PROVE  PassedIsMissed'
<1>1. UNCHANGED <<chain, lastLedger, cursorLedger, missed, at>> /\ pc = "fetch"
  BY DEF FetchPage, source, history
<1>2. PICK from \in 1 .. Len(chain) + 1, to \in 0 .. Len(chain) :
        /\ IsPage(cursorLedger, from, to)
        /\ IF from > to THEN pc' = "ask" ELSE pc' = "process" /\ next' = from
  BY DEF FetchPage
<1>3. /\ \A i \in DOMAIN chain : i < from <=> chain[i].ledger < cursorLedger
      /\ to >= from - 1
  BY <1>2 DEF IsPage
<1>4. \A i \in DOMAIN chain : at < i /\ chain[i].ledger < cursorLedger => i \in missed
  BY <1>1, PassedInFetch
<1>5. CASE from <= to
  <2>1. pc' = "process" /\ next' = from
    BY <1>2, <1>5
  <2>. QED
    BY <1>1, <1>3, <1>4, <2>1 DEF PassedIsMissed, Passed
<1>6. CASE from > to
  <2>1. pc' = "ask" /\ to = from - 1
    BY <1>2, <1>3, <1>6
  <2>2. cursorLedger \in Nat /\ ChainOK
    BY DEF IInv, LoopOK
  <2>3. \A i \in DOMAIN chain : i > to => chain[i].ledger > height
    <3>1. to - from + 1 # BatchSize
      BY <2>1, SizesAssumption
    <3>. QED
      BY <1>2, <2>2, <3>1, PageEnds
  <2>4. ASSUME NEW i \in DOMAIN chain, at < i, chain[i].ledger <= lastLedger
        PROVE  i \in missed
    <3>1. i < from
      BY <2>1, <2>3, <2>4, Passing
    <3>. QED
      BY <1>3, <1>4, <2>4, <3>1
  <2>. QED
    BY <1>1, <2>1, <2>4 DEF PassedIsMissed, Passed
<1>. QED
  BY <1>5, <1>6

LEMMA PassedPageDone ==
  ASSUME IInv, PassedIsMissed, PageDone
  PROVE  PassedIsMissed'
<1>1. /\ UNCHANGED <<chain, lastLedger, missed, at>> /\ pc = "process" /\ next > last
      /\ IF full THEN pc' = "fetch" /\ cursorLedger' = lastLedger ELSE pc' = "save"
  BY DEF PageDone, NextPage, source, history
<1>2. PageOK
  BY <1>1 DEF IInv
<1>3. last \in DOMAIN chain /\ lastLedger = chain[last].ledger
  BY <1>1, <1>2 DEF PageOK, IInv, LoopOK
<1>4. \A i \in DOMAIN chain : at < i /\ i < next => i \in missed
  BY <1>1, PassedInPage
<1>5. CASE full
  <2>1. pc' = "fetch" /\ cursorLedger' = lastLedger
    BY <1>1, <1>5
  <2>2. ASSUME NEW i \in DOMAIN chain, at < i, chain[i].ledger < lastLedger
        PROVE  i \in missed
    <3>1. i < next
      BY <1>1, <1>3, <2>2, Passing
    <3>. QED
      BY <1>4, <2>2, <3>1
  <2>. QED
    BY <1>1, <2>1, <2>2 DEF PassedIsMissed, Passed
<1>6. CASE ~full
  <2>1. pc' = "save"
    BY <1>1, <1>6
  <2>2. ASSUME NEW i \in DOMAIN chain, at < i, chain[i].ledger <= lastLedger
        PROVE  i \in missed
    <3>1. ~(i > last)
      BY <1>2, <1>3, <1>6, <2>2, Passing DEF PageOK
    <3>2. i < next
      BY <1>1, <1>3, <3>1, Passing
    <3>. QED
      BY <1>4, <2>2, <3>2
  <2>. QED
    BY <1>1, <2>1, <2>2 DEF PassedIsMissed, Passed
<1>7. full \in BOOLEAN
  BY DEF IInv, LoopOK
<1>. QED
  BY <1>5, <1>6, <1>7

(* Every step of the loop keeps account of what it passes. *)
LEMMA PassedStep ==
  ASSUME IInv, PassedIsMissed, [Next]_vars
  PROVE  PassedIsMissed'
<1>0. at \in Nat /\ ChainOK
  BY Passing DEF IInv
<1>1. CASE \E t \in EventTypes, a \in Auctions, b \in Bidders : Publish(t, a, b)
  BY <1>1, PassedPublish
<1>2. CASE CloseLedger \/ UNCHANGED vars
  <2>1. UNCHANGED <<chain, pc, lastLedger, cursorLedger, next, missed, at>>
    BY <1>2 DEF CloseLedger, vars, source, memory, history
  <2>. QED
    BY <2>1 DEF PassedIsMissed, Passed
<1>3. CASE LoadCursor
  <2>1. /\ UNCHANGED <<source, at>> /\ Skip(cursor_state) /\ lastLedger' = cursor_state
        /\ pc' = "idle"
    BY <1>3 DEF LoadCursor
  <2>. QED
    BY <1>0, <2>1, SkipPasses
<1>4. CASE StartBlind
  <2>1. /\ UNCHANGED <<source, at>> /\ Skip(StartLedger) /\ lastLedger' = StartLedger
        /\ pc' = "idle"
    BY <1>4 DEF StartBlind
  <2>. QED
    BY <1>0, <2>1, SkipPasses
<1>5. CASE FetchFails
  <2>1. /\ UNCHANGED <<source, at>> /\ Skip(lastLedger) /\ lastLedger' = lastLedger
        /\ pc' = "idle"
    BY <1>5 DEF FetchFails, Return
  <2>. QED
    BY <1>0, <2>1, SkipPasses
<1>6. CASE AskLatest
  <2>1. /\ UNCHANGED <<source, at>> /\ pc = "ask" /\ pc' = "save"
        /\ \/ lastLedger' = height /\ Skip(height)
           \/ UNCHANGED <<lastLedger, missed>>
    BY <1>6 DEF AskLatest
  <2>2. CASE lastLedger' = height /\ Skip(height)
    BY <1>0, <2>1, <2>2, SkipPasses
  <2>3. CASE UNCHANGED <<lastLedger, missed>>
    BY <2>1, <2>3 DEF PassedIsMissed, Passed, source
  <2>. QED
    BY <2>1, <2>2, <2>3
<1>7. CASE StartPoll
  <2>1. /\ UNCHANGED <<chain, missed, at>> /\ pc = "idle" /\ pc' = "fetch"
        /\ cursorLedger' = lastLedger + 1
    BY <1>7 DEF StartPoll, source, history
  <2>2. \A i \in DOMAIN chain : chain[i].ledger < lastLedger + 1 => chain[i].ledger <= lastLedger
    BY Passing
  <2>. QED
    BY <2>1, <2>2 DEF PassedIsMissed, Passed
<1>8. CASE SaveCursor
  <2>1. UNCHANGED <<chain, lastLedger, missed, at>> /\ pc = "save" /\ pc' = "idle"
    BY <1>8 DEF SaveCursor, Return, source, history
  <2>. QED
    BY <2>1 DEF PassedIsMissed, Passed
<1>9. CASE Crash
  <2>1. UNCHANGED <<chain, missed, at>> /\ pc' = "idle" /\ lastLedger' = 0
    BY <1>9 DEF Crash, Return, source
  <2>2. \A i \in DOMAIN chain : ~(chain[i].ledger <= 0)
    BY Passing
  <2>. QED
    BY <2>1, <2>2 DEF PassedIsMissed, Passed
<1>. QED
  BY <1>1, <1>2, <1>3, <1>4, <1>5, <1>6, <1>7, <1>8, <1>9, PassedFetchPage, PassedProcess,
     PassedPageDone DEF Next, Indexer

-----------------------------------------------------------------------------
(* What stands, stands. *)

LEMMA StandsGrows ==
  ASSUME NEW evs \in Seq(Published), NEW e \in Published, NEW done, NEW db, NEW a,
         NEW m \in 0 .. Len(evs), StandsAt(evs, done, db, a, m)
  PROVE  StandsAt(Append(evs, e), done, db, a, m)
<1>. DEFINE more == Append(evs, e)
<1>1. /\ Len(evs) \in Nat /\ Len(more) = Len(evs) + 1
      /\ \A i \in 1 .. Len(evs) : more[i] = evs[i]
      /\ \A q \in 0 .. Len(evs) : q \in 0 .. Len(more) /\ Ideal(more)[q] = Ideal(evs)[q]
  BY IdealGrows
<1>. HIDE DEF more
<1>2. ASSUME NEW q \in 0 .. Len(evs), Later(evs, done, a, m, q)
      PROVE  Later(more, done, a, m, q)
  <2>1. CASE q = m
    BY <1>1, <1>2, <2>1 DEF Later
  <2>2. CASE q # m
    <3>1. q \in 1 .. Len(evs)
      BY <1>1, <1>2, <2>2 DEF Later
    <3>. QED
      BY <1>1, <1>2, <2>2, <3>1 DEF Later
  <2>. QED
    BY <2>1, <2>2
<1>3. ASSUME NEW i \in 1 .. m, NEW q \in 0 .. Len(evs)
      PROVE  more[i] = evs[i] /\ BidAt(more, i, q) = BidAt(evs, i, q)
  <2>1. i \in 1 .. Len(evs) /\ \A j \in i + 1 .. q : j \in 1 .. Len(evs)
    BY <1>1
  <2>2. Refunded(more, i, q) <=> Refunded(evs, i, q)
    BY <1>1, <2>1 DEF Refunded
  <2>3. Refunded(more, i, q) = Refunded(evs, i, q)
    <3>1. Refunded(more, i, q) \in BOOLEAN /\ Refunded(evs, i, q) \in BOOLEAN
      BY DEF Refunded
    <3>. QED
      BY <2>2, <3>1
  <2>. QED
    BY <1>1, <2>1, <2>3 DEF BidAt
<1>4. RowStands(more, done, db.auctions[a], a, m)
  BY <1>1, <1>2 DEF StandsAt, RowStands
<1>5. BidsStand(more, done, db.bids, a, m)
  <2>. SUFFICES ASSUME NEW i \in 1 .. m, more[i].auction = a, Topic(more[i]) = "bid_placed"
                PROVE  \E q \in 0 .. Len(more) : Later(more, done, a, m, q)
                         /\ BidAt(more, i, q) \in db.bids
    BY DEF BidsStand
  <2>1. PICK q \in 0 .. Len(evs) : Later(evs, done, a, m, q) /\ BidAt(evs, i, q) \in db.bids
    <3>1. evs[i].auction = a /\ Topic(evs[i]) = "bid_placed"
      <4>1. more[i] = evs[i]
        BY <1>1
      <4>. QED
        BY <4>1
    <3>. QED
      BY <3>1 DEF StandsAt, BidsStand
  <2>. QED
    BY <1>1, <1>2, <1>3, <2>1
<1>. QED
  BY <1>4, <1>5 DEF StandsAt, more

(* The handler of another auction's event does not disturb it. *)
LEMMA HandlerElsewhere ==
  ASSUME NEW evs \in Seq(Published), Len(evs) <= MaxEvents, NEW n \in 1 .. Len(evs),
         NEW db \in Tables, NEW k \in 0 .. Len(Statements(evs[n])),
         NEW d, d = RunHandler(db, n, evs[n], k),
         NEW done, NEW a \in Auctions, a # evs[n].auction, NEW m,
         StandsAt(evs, done, db, a, m)
  PROVE  StandsAt(evs, done, d, a, m)
<1>. DEFINE e == evs[n]
<1>0. n \in 1 .. MaxEvents /\ e \in Published
  BY SizesAssumption
<1>1. /\ SameBut(d, db, e)
      /\ \A r \in db.bids : ~r.is_winning => r \in d.bids \/ Marked(e, r) \in d.bids
  <2>. HIDE DEF e
  <2>1. d = RunHandler(db, n, e, k) /\ k \in 0 .. Len(Statements(e))
    BY DEF e
  <2>. QED
    BY <1>0, <2>1, HandlerEffect
<1>2. d.auctions[a] = db.auctions[a]
  BY <1>1 DEF SameBut
<1>3. ASSUME NEW i, NEW q, evs[i].auction = a, BidAt(evs, i, q) \in db.bids
      PROVE  BidAt(evs, i, q) \in d.bids
  <2>. DEFINE r == BidAt(evs, i, q)
  <2>1. ~r.is_winning /\ ~Refunds(e, r)
    BY <1>3 DEF BidAt, Refunds
  <2>2. Marked(e, r) = r
    BY <2>1 DEF Marked
  <2>. QED
    BY <1>1, <1>3, <2>1, <2>2
<1>. QED
  BY <1>2, <1>3 DEF StandsAt, RowStands, BidsStand

LEMMA StandsInit == Init => Stands
<1>. SUFFICES ASSUME Init, NEW a \in Auctions, NEW m \in 0 .. at
              PROVE  StandsAt(chain, seen \union failed, Db, a, m)
  BY DEF Stands
<1>1. chain = << >> /\ m = 0 /\ auctions[a] = None
  BY DEF Init
<1>2. chain \in Seq(Published) /\ Len(chain) = 0 /\ 0 \in 0 .. Len(chain)
  BY <1>1
<1>3. Ideal(chain)[0] = EmptyDb
  BY <1>2, IdealUnfolds
<1>4. Ideal(chain)[0].auctions[a] = None /\ Db.auctions[a] = None
  BY <1>1, <1>3 DEF EmptyDb, Db
<1>5. Later(chain, seen \union failed, a, 0, 0)
  BY <1>2 DEF Later
<1>. QED
  BY <1>1, <1>2, <1>4, <1>5 DEF StandsAt, RowStands, BidsStand

(* The steps of the loop that leave the tables alone. *)
LEMMA StandsKept ==
  ASSUME IInv, TypeOK, Stands, [Next]_vars, Quiet
  PROVE  Stands'
<1>1. UNCHANGED <<tables, seen, failed, at>> /\ missed \subseteq missed'
  BY QuietKeeps
<1>2. Db' = Db
  BY <1>1 DEF Db, tables
<1>3. at \in 0 .. Len(chain)
  BY ChainType DEF TypeOK
<1>. SUFFICES ASSUME NEW a \in Auctions, NEW m \in 0 .. at,
                     Clean(chain', missed' \union failed, a, m)
              PROVE  StandsAt(chain', seen \union failed, Db, a, m)
  BY <1>1, <1>2 DEF Stands
<1>4. CASE chain' = chain
  <2>1. Clean(chain, missed \union failed, a, m)
    BY <1>1, <1>4 DEF Clean
  <2>. QED
    BY <1>4, <2>1 DEF Stands
<1>5. ASSUME NEW e \in Published, chain' = Append(chain, e)
      PROVE  StandsAt(chain', seen \union failed, Db, a, m)
  <2>1. m \in 0 .. Len(chain) /\ \A i \in 1 .. m : chain'[i] = chain[i]
    BY <1>3, <1>5, ChainType
  <2>2. Clean(chain, missed \union failed, a, m)
    BY <1>1, <2>1 DEF Clean
  <2>3. StandsAt(chain, seen \union failed, Db, a, m)
    BY <2>2 DEF Stands
  <2>. QED
    BY <1>5, <2>1, <2>3, ChainType, StandsGrows
<1>. QED
  BY <1>4, <1>5, ChainGrows

(* A crash between two statements: the event counts as failed, and what stood before it
   stands. *)
LEMMA StandsCrash ==
  ASSUME IInv, TypeOK, Created, Stands, Crash
  PROVE  Stands'
<1>1. UNCHANGED <<chain, seen, missed, at>>
  BY DEF Crash, source
<1>2. CASE UNCHANGED <<tables, failed>>
  <2>1. Db' = Db /\ failed' = failed
    BY <1>2 DEF Db, tables
  <2>. QED
    BY <1>1, <2>1 DEF Stands
<1>3. ASSUME NEW k, Ran(k), failed' = failed \union {next}
      PROVE  Stands'
  <2>. DEFINE n == next
              d == RunHandler(Db, n, chain[n], k)
              done == seen \union failed
  <2>0. /\ chain \in Seq(Published) /\ Len(chain) <= MaxEvents /\ n \in 1 .. Len(chain)
        /\ k \in 0 .. Len(Statements(chain[n])) /\ Db \in Tables /\ HasRow(chain, n)
        /\ n \in Nat /\ Len(chain) \in Nat /\ at \in 0 .. Len(chain)
    <3>1. n \in DOMAIN chain /\ k \in 0 .. Len(Statements(chain[n]))
      BY <1>3 DEF Ran
    <3>2. Db \in Tables /\ HasRow(chain, n)
      BY <3>1, DbType, RowsFound
    <3>3. at \in 0 .. Len(chain)
      BY DEF TypeOK
    <3>. HIDE DEF n
    <3>. QED
      BY <3>1, <3>2, <3>3, ChainType
  <2>1. Db' = d
    BY <1>3, RanDb
  <2>2. done' = done \union {n}
    BY <1>1, <1>3
  <2>. HIDE DEF d
  <2>. SUFFICES ASSUME NEW a \in Auctions, NEW m \in 0 .. at,
                       Clean(chain, missed \union (failed \union {n}), a, m)
                PROVE  StandsAt(chain, done \union {n}, d, a, m)
    BY <1>1, <1>3, <2>1, <2>2 DEF Stands
  <2>3. StandsAt(chain, done, Db, a, m)
    BY DEF Clean, Stands
  <2>4. CASE m < n
    <3>1. m \in 0 .. n - 1
      BY <2>0, <2>4
    <3>. QED
      BY <2>0, <2>3, <3>1, HandlerLeaves DEF d
  <2>5. CASE ~(m < n)
    <3>1. a # chain[n].auction
      BY <2>0, <2>5 DEF Clean
    <3>2. StandsAt(chain, done, d, a, m)
      BY <2>0, <2>3, <3>1, HandlerElsewhere DEF d
    <3>. QED
      BY <2>0, <3>2, StandsLonger
  <2>. QED
    BY <2>4, <2>5
<1>. QED
  BY <1>2, <1>3, CrashRuns

(* An event handled, completely or not, moves on what stood before it.  Replayed, it
   starts again from there. *)
LEMMA StandsProcess ==
  ASSUME IInv, TypeOK, Created, PassedIsMissed, Stands, ProcessEvent
  PROVE  Stands'
<1>. DEFINE n == next
            e == chain[n]
            done == seen \union failed
            lost == missed \union failed
<1>1. /\ UNCHANGED chain /\ seen' = seen \union {n} /\ missed' = missed \ {n} /\ at' = n
      /\ pc = "process"
  BY DEF ProcessEvent, source
<1>2. PICK k : /\ Ran(k)
               /\ failed' = IF k = Len(Statements(e)) THEN failed \ {n}
                            ELSE failed \union {n}
  BY ProcessRuns
<1>. DEFINE d == RunHandler(Db, n, e, k)
<1>3. /\ chain \in Seq(Published) /\ Len(chain) <= MaxEvents /\ n \in 1 .. Len(chain)
      /\ k \in 0 .. Len(Statements(e)) /\ Db \in Tables /\ HasRow(chain, n)
      /\ n \in Nat /\ Len(chain) \in Nat /\ at \in 0 .. Len(chain)
      /\ DOMAIN chain = 1 .. Len(chain)
  <2>1. n \in DOMAIN chain /\ k \in 0 .. Len(Statements(e)) /\ HasRow(chain, n)
    BY <1>2, RowsFound DEF Ran
  <2>2. /\ chain \in Seq(Published) /\ Len(chain) <= MaxEvents /\ Db \in Tables
        /\ Len(chain) \in Nat /\ DOMAIN chain = 1 .. Len(chain)
    BY ChainType, DbType
  <2>3. at \in 0 .. Len(chain)
    BY <2>2 DEF TypeOK
  <2>. QED
    BY <2>1, <2>2, <2>3
<1>4. Db' = d
  BY <1>2, RanDb
<1>5. done' = done \union {n}
  BY <1>1, <1>2
<1>6. lost \subseteq lost' \union {n} /\ lost \ {n} \subseteq lost'
      /\ (k # Len(Statements(e)) => n \in lost') /\ missed \ {n} \subseteq lost'
  BY <1>1, <1>2
<1>7. ASSUME NEW a \in Auctions, NEW m \in 0 .. n - 1, Clean(chain, lost', a, m)
      PROVE  StandsAt(chain, done, Db, a, m)
  <2>0. m \in Nat /\ m < n
    BY <1>3
  <2>1. \A i \in 1 .. m : chain[i].auction = a => i \notin lost
    BY <1>3, <1>6, <1>7 DEF Clean
  <2>2. CASE m \in 0 .. at
    BY <2>1, <2>2 DEF Clean, Stands
  <2>3. CASE at < m
    <3>1. at \in 0 .. at /\ Clean(chain, lost, a, at)
      BY <1>3, <2>1, <2>3 DEF Clean
    <3>2. StandsAt(chain, done, Db, a, at)
      BY <3>1 DEF Stands
    <3>3. ASSUME NEW i \in at + 1 .. m PROVE chain[i].auction # a
      <4>1. i \in DOMAIN chain /\ at < i /\ i < next /\ i \in 1 .. m
        BY <1>3, <2>0
      <4>2. i \in missed
        BY <1>1, <4>1 DEF PassedIsMissed, Passed
      <4>. QED
        BY <2>1, <4>1, <4>2
    <3>4. m \in at .. Len(chain)
      BY <1>3, <2>0, <2>3
    <3>. QED
      BY <1>3, <3>2, <3>3, <3>4, StandsQuiet
  <2>. QED
    BY <1>3, <2>0, <2>2, <2>3
<1>. HIDE DEF d
<1>8. ASSUME NEW a \in Auctions, NEW m \in 0 .. n, Clean(chain, lost', a, m)
      PROVE  StandsAt(chain, done \union {n}, d, a, m)
  <2>1. CASE m # n
    <3>1. m \in 0 .. n - 1
      BY <1>3, <2>1
    <3>2. StandsAt(chain, done, Db, a, m)
      BY <1>7, <1>8, <3>1
    <3>. QED
      BY <1>3, <3>1, <3>2, HandlerLeaves DEF d
  <2>2. CASE m = n
    <3>1. n - 1 \in 0 .. n - 1 /\ n - 1 \in 0 .. Len(chain) /\ n \in n - 1 .. Len(chain)
          /\ n - 1 \in Nat
      BY <1>3
    <3>2. Clean(chain, lost', a, n - 1)
      BY <1>3, <1>8, <2>2 DEF Clean
    <3>3. StandsAt(chain, done, Db, a, n - 1)
      BY <1>7, <3>1, <3>2
    <3>4. CASE k = Len(Statements(e))
      BY <1>3, <2>2, <3>3, <3>4, HandlerMoves DEF d
    <3>5. CASE k # Len(Statements(e))
      <4>1. e.auction # a
        BY <1>3, <1>6, <1>8, <2>2, <3>5 DEF Clean
      <4>2. StandsAt(chain, done \union {n}, d, a, n - 1)
        BY <1>3, <3>1, <3>3, HandlerLeaves DEF d
      <4>3. \A i \in (n - 1) + 1 .. n : chain[i].auction # a
        BY <1>3, <4>1
      <4>. HIDE DEF e
      <4>. QED
        BY <1>3, <2>2, <3>1, <4>2, <4>3, StandsQuiet
    <3>. QED
      BY <3>4, <3>5
  <2>. QED
    BY <2>1, <2>2
<1>. QED
  BY <1>1, <1>4, <1>5, <1>8 DEF Stands

(* The inductive invariant behind replay. *)
Replayed == IInv /\ TypeOK /\ Created /\ PassedIsMissed /\ Stands /\ Records

LEMMA ReplayedAlways == Spec => []Replayed
<1>1. Init => Replayed
  <2>1. Init => Created
    BY DEF Init, Created
  <2>. QED
    BY <2>1, IInvInit, TypeInit, PassedInit, StandsInit, RecordsInit DEF Replayed
<1>2. Replayed /\ [Next]_vars => Replayed'
  <2>. SUFFICES ASSUME Replayed, [Next]_vars PROVE Replayed'
    OBVIOUS
  <2>1. IInv /\ TypeOK /\ Created /\ PassedIsMissed /\ Stands /\ Records
    BY DEF Replayed
  <2>2. Stands'
    BY <2>1, NextSplits, StandsKept, StandsCrash, StandsProcess
  <2>. QED
    BY <2>1, <2>2, IInvNext, TypeStep, CreatedStep, PassedStep, RecordsStep DEF Replayed
<1>. QED
  BY <1>1, <1>2, PTL DEF Spec

-----------------------------------------------------------------------------
(* The events up to a ledger are the first ones. *)
LEMMA Counted ==
  ASSUME ChainOK, NEW l \in Nat
  PROVE  /\ CountUpTo(chain, l) \in 0 .. Len(chain)
         /\ \A i \in DOMAIN chain : chain[i].ledger <= l <=> i <= CountUpTo(chain, l)
<1>. DEFINE upto == {i \in DOMAIN chain : chain[i].ledger <= l}
            ends == {n \in 0 .. Len(chain) : \A i \in upto : i <= n}
<1>0. /\ DOMAIN chain = 1 .. Len(chain) /\ Len(chain) \in Nat
      /\ \A i \in DOMAIN chain : chain[i].ledger \in Nat
      /\ \A i, j \in DOMAIN chain : i <= j => chain[i].ledger <= chain[j].ledger
  BY Ledgers DEF ChainOK
<1>1. ends \in SUBSET Nat /\ Len(chain) \in ends
  BY <1>0
<1>2. PICK n \in ends : \A m \in ends : n <= m
  <2>. HIDE DEF ends
  <2>. QED
    BY <1>1, LeastNumber
<1>3. n \in 0 .. Len(chain) /\ \A i \in upto : i <= n
  OBVIOUS
<1>4. n # 0 => n \in upto
  <2>. SUFFICES ASSUME n # 0, n \notin upto PROVE FALSE
    OBVIOUS
  <2>1. n - 1 \in 0 .. Len(chain) /\ ~(n <= n - 1)
    BY <1>0, <1>3
  <2>2. \A i \in upto : i <= n - 1
    BY <1>0, <1>3
  <2>. QED
    BY <1>2, <2>1, <2>2
<1>5. \A i \in DOMAIN chain : i \in upto <=> i <= n
  BY <1>0, <1>3, <1>4
<1>6. upto = 1 .. n
  <2>. HIDE DEF upto, ends
  <2>1. \A i \in upto : i \in DOMAIN chain
    BY DEF upto
  <2>2. \A i \in upto : i \in 1 .. n
    BY <1>0, <1>3, <2>1
  <2>3. \A i \in 1 .. n : i \in DOMAIN chain
    BY <1>0, <1>3
  <2>4. \A i \in 1 .. n : i \in upto
    <3>. SUFFICES ASSUME NEW i \in 1 .. n PROVE i \in upto
      OBVIOUS
    <3>1. i <= n
      BY <1>3
    <3>. QED
      BY <1>5, <2>3, <3>1
  <2>. QED
    BY <2>2, <2>4
<1>7. Cardinality(1 .. n) = n
  BY <1>0, <1>3, FS_Interval
<1>8. CountUpTo(chain, l) = n
  <2>1. CountUpTo(chain, l) = Cardinality(upto)
    BY DEF CountUpTo
  <2>. QED
    BY <1>6, <1>7, <2>1
<1>. QED
  BY <1>3, <1>5, <1>8

(* A loop that has caught up with a stands at the place handled last, and no event of a
   lies between it and the ledger reached. *)
LEMMA CaughtUpStands ==
  ASSUME Replayed, NEW a \in Auctions, CaughtUp(a)
  PROVE  LET n == CountUpTo(chain, lastLedger)
         IN  /\ at \in 0 .. n /\ n \in 0 .. Len(chain)
             /\ \A i \in at + 1 .. n : chain[i].auction # a
             /\ StandsAt(chain, seen \union failed, Db, a, at)
             /\ \A q : Later(chain, seen \union failed, a, at, q) => q = at
<1>. DEFINE n == CountUpTo(chain, lastLedger)
            done == seen \union failed
<1>0. IInv /\ TypeOK /\ PassedIsMissed /\ Stands /\ Records
  BY DEF Replayed
<1>1. /\ ChainOK /\ lastLedger \in Nat /\ Len(chain) \in Nat
      /\ DOMAIN chain = 1 .. Len(chain) /\ at \in {0} \union seen
      /\ seen \subseteq DOMAIN chain
  BY <1>0, ChainType DEF IInv, LoopOK, Records, TypeOK
<1>2. n \in 0 .. Len(chain) /\ \A i \in DOMAIN chain : chain[i].ledger <= lastLedger <=> i <= n
  BY <1>1, Counted
<1>. HIDE DEF n
<1>3. pc = "idle" /\ (\A i \in seen : chain[i].ledger <= lastLedger)
      /\ \A i \in missed \union failed : chain[i].auction # a
  BY DEF CaughtUp
<1>4. at \in 0 .. n
  BY <1>1, <1>2, <1>3
<1>5. \A i \in DOMAIN chain : at < i /\ i <= n => i \in missed
  BY <1>0, <1>2, <1>3 DEF PassedIsMissed, Passed
<1>6. \A i \in at + 1 .. n : chain[i].auction # a
  BY <1>1, <1>2, <1>3, <1>4, <1>5
<1>7. StandsAt(chain, done, Db, a, at)
  <2>1. Clean(chain, missed \union failed, a, at)
    BY <1>3 DEF Clean
  <2>2. at \in 0 .. at
    BY <1>4
  <2>. QED
    BY <1>0, <2>1, <2>2 DEF Stands
<1>8. ASSUME NEW q, Later(chain, done, a, at, q), q # at PROVE FALSE
  <2>1. q \in seen \union failed /\ chain[q].auction = a /\ q \in at .. Len(chain)
    BY <1>8 DEF Later
  <2>2. q \in seen
    BY <1>3, <2>1
  <2>3. q \in at + 1 .. n
    BY <1>1, <1>2, <1>3, <1>4, <1>8, <2>1, <2>2
  <2>. QED
    BY <1>6, <2>1, <2>3
<1>. QED
  BY <1>2, <1>4, <1>6, <1>7, <1>8 DEF n

(* A row is its columns. *)
LEMMA SameRow ==
  ASSUME NEW x \in Rows \union {None}, NEW y \in Rows \union {None},
         \A f \in Columns : Value(x, f) = Value(y, f)
  PROVE  x = y
<1>1. /\ Value(x, "status") = Value(y, "status") /\ Value(x, "highest") = Value(y, "highest")
      /\ Value(x, "highest_bidder") = Value(y, "highest_bidder")
      /\ Value(x, "attested") = Value(y, "attested")
      /\ Value(x, "proceeds") = Value(y, "proceeds")
  BY DEF Columns
<1>2. CASE x = None \/ y = None
  BY <1>1, <1>2 DEF Value
<1>3. CASE x # None /\ y # None
  <2>1. /\ {x.status} = {y.status} /\ {x.highest} = {y.highest}
        /\ {x.highest_bidder} = {y.highest_bidder}
        /\ {x.attested} = {y.attested} /\ {x.proceeds} = {y.proceeds}
    BY <1>1, <1>3 DEF Value
  <2>2. /\ x.status = y.status /\ x.highest = y.highest
        /\ x.highest_bidder = y.highest_bidder
        /\ x.attested = y.attested /\ x.proceeds = y.proceeds
    BY <2>1, Zenon
  <2>3. x \in Rows /\ y \in Rows
    BY <1>3
  <2>. QED
    BY <2>2, <2>3 DEF Rows
<1>. QED
  BY <1>2, <1>3

(* Replay converges: whatever pages are read twice, whatever calls fail and however often
   the process dies between two statements of a handler, once the loop is back where it
   was and has handled every event of an auction since, the auction's row is what handling
   each event once would have left. *)
THEOREM RowsConvergeHolds == Spec => []RowsConverge
<1>1. Replayed => RowsConverge
  <2>. SUFFICES ASSUME Replayed, NEW a \in Auctions, CaughtUp(a)
                PROVE  auctions[a] = Expected(lastLedger).auctions[a]
    BY DEF RowsConverge
  <2>. DEFINE n == CountUpTo(chain, lastLedger)
              done == seen \union failed
  <2>1. /\ at \in 0 .. n /\ n \in 0 .. Len(chain)
        /\ \A i \in at + 1 .. n : chain[i].auction # a
        /\ StandsAt(chain, done, Db, a, at)
        /\ \A q : Later(chain, done, a, at, q) => q = at
    BY CaughtUpStands
  <2>2. TypeOK /\ Expected(lastLedger) = Ideal(chain)[n]
    BY DEF Replayed, Expected
  <2>. HIDE DEF n, done
  <2>3. /\ chain \in Seq(Published) /\ Len(chain) <= MaxEvents /\ Len(chain) \in Nat
        /\ at \in 0 .. Len(chain) /\ n \in at .. Len(chain)
    BY <2>1, <2>2, ChainType
  <2>4. \A f \in Columns : Value(auctions[a], f) = Value(Ideal(chain)[at].auctions[a], f)
    BY <2>1, <2>2, DbOf DEF StandsAt, RowStands
  <2>5. Ideal(chain)[n].auctions[a] = Ideal(chain)[at].auctions[a]
    BY <2>1, <2>3, IdealQuiet
  <2>6. auctions[a] \in Rows \union {None} /\ Ideal(chain)[at].auctions[a] \in Rows \union {None}
    <3>1. Ideal(chain)[at] \in Tables
      BY <2>3, IdealType
    <3>. QED
      BY <2>2, <3>1 DEF TypeOK, Tables
  <2>. QED
    BY <2>2, <2>4, <2>5, <2>6, SameRow
<1>. QED
  BY <1>1, ReplayedAlways, PTL

(* Nor does replay lose a bid: every row that handling each event once would leave is in
   the bids table. *)
THEOREM BidsCompleteHolds == Spec => []BidsComplete
<1>1. Replayed => BidsComplete
  <2>. SUFFICES ASSUME Replayed, NEW a \in Auctions, CaughtUp(a),
                       NEW r \in Expected(lastLedger).bids, r.auction = a
                PROVE  r \in bids
    BY DEF BidsComplete
  <2>. DEFINE n == CountUpTo(chain, lastLedger)
              done == seen \union failed
  <2>1. /\ at \in 0 .. n /\ n \in 0 .. Len(chain)
        /\ \A i \in at + 1 .. n : chain[i].auction # a
        /\ StandsAt(chain, done, Db, a, at)
        /\ \A q : Later(chain, done, a, at, q) => q = at
    BY CaughtUpStands
  <2>2. TypeOK /\ r \in Ideal(chain)[n].bids
    BY DEF Replayed, Expected
  <2>. HIDE DEF n, done
  <2>3. /\ chain \in Seq(Published) /\ Len(chain) <= MaxEvents /\ Len(chain) \in Nat
        /\ at \in Nat /\ n \in Nat /\ at <= n
    BY <2>1, <2>2, ChainType
  <2>4. PICK i \in 1 .. n : Topic(chain[i]) = "bid_placed" /\ r = BidAt(chain, i, n)
    BY <2>1, <2>2, <2>3, IdealBids
  <2>5. chain[i].auction = a
    BY <2>4 DEF BidAt
  <2>6. i \in 1 .. at /\ i \in Nat /\ i <= at
    BY <2>1, <2>3, <2>5
  <2>7. BidAt(chain, i, at) \in bids
    BY <2>1, <2>2, <2>4, <2>5, <2>6, DbOf DEF StandsAt, BidsStand
  <2>8. BidAt(chain, i, n) = BidAt(chain, i, at)
    <3>1. \A j \in at + 1 .. n : chain[j].auction # chain[i].auction
      BY <2>1, <2>5
    <3>. QED
      BY <2>3, <2>6, <3>1, BidQuiet
  <2>. QED
    BY <2>4, <2>7, <2>8
<1>. QED
  BY <1>1, ReplayedAlways, PTL
=============================================================================
