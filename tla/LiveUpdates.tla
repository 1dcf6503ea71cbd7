----------------------------- MODULE LiveUpdates -----------------------------
(***************************************************************************)
(* Live updates of the auction page: the WebSocket server                   *)
(* (backend/src/ws/socket_server.ts), the browser tab's one shared socket   *)
(* and its hook (frontend/src/hooks/useWebSocket.ts), and the effects by    *)
(* which the page (frontend/src/app/auctions/[id]/page.tsx) merges pushed   *)
(* events with the answers of its own requests.                             *)
(*                                                                         *)
(* The page learns of an auction over two channels that race: HTTP answers, *)
(* any number in flight and out of order, and the socket, in order but lost *)
(* with its connection.  Client and server notice a lost connection each in *)
(* its own time.  There is no clock: whether a nonce is still fresh, and    *)
(* when a stored one expires, is left open.                                 *)
(***************************************************************************)
EXTENDS Integers, Sequences, SequencesExt

CONSTANTS
  Auctions,               \* auction ids the visitor may open; 0 is one of the contract's
  Addresses,              \* accounts that authenticate
  Eventful,               \* bound: those that have events
  RECONNECTION_ATTEMPTS,  \* reconnectionAttempts: 10 in the code
  MaxConns,               \* bound: connections
  MaxMounts,              \* bound: times an auction page is opened
  MaxFetches,             \* bound: requests per opened page
  MaxBids,                \* bound: bids per auction
  MaxNonces,              \* bound: server nonces issued
  None

ASSUME BoundsAssumption ==
  /\ Auctions \subseteq Nat /\ Eventful \subseteq Auctions
  /\ RECONNECTION_ATTEMPTS \in Nat \ {0}
  /\ MaxConns \in Nat /\ MaxMounts \in Nat /\ MaxFetches \in Nat
  /\ MaxBids \in Nat /\ MaxNonces \in Nat
ASSUME NoneAssumption == None \notin Nat

Conns  == 1 .. MaxConns
Nonces == 1 .. MaxNonces

EventTypes == {"new_bid", "closed", "settled", "cancelled"}
Statuses == {"active", "closed", "settled", "cancelled"}
Rows     == [status : Statuses, highest : 0 .. MaxBids]
Requests == 1 .. MaxFetches

VARIABLES
  \* the backend
  row,          \* auction -> its row in the database
  alive,        \* connections the server holds
  rooms,        \* connection -> auctions whose room it is in
  bidderRooms,  \* connection -> addresses whose room it is in
  authenticatedSockets, \* connection -> addresses
  serverNonces, \* address -> the nonce it was issued last, or None
  \* the socket of the tab
  sharedSocket, \* getSocket was called
  conn,         \* the connection, or None
  conns,        \* connections made so far
  attempts,     \* failed attempts in a row
  up, down,     \* connection -> messages in flight
  buffer,       \* emitted while disconnected
  \* the page
  shown,        \* the auction of the mounted page, or None
  mounts, fetches,
  answers,      \* requests not answered yet, with the row read for each
  isConnected,
  view,         \* [auction, latestBid, auctionClosed, auctionSettled]
  \* history
  issued,       \* server nonces issued
  spent,        \* nonce -> authentications it gave
  blind,        \* the mounted page missed an event (see ViewCatchesUp)
  misled        \* it was told of another auction's cancellation

auth   == <<bidderRooms, authenticatedSockets, serverNonces, issued, spent>>
server == <<alive, rooms>>
socket == <<sharedSocket, conn, conns, attempts, up, down, buffer>>
page   == <<shown, mounts, fetches, answers, isConnected, view>>
history == <<blind, misled>>
vars   == <<row, auth, server, socket, page, history>>

-----------------------------------------------------------------------------
(* The hook. *)

(* `if (!auctionId) return`: the page of auction 0 has no live updates. *)
Live(a) == a # None /\ a # 0

Join(a)  == [type |-> "join", auction |-> a]
Leave(a) == [type |-> "leave", auction |-> a]

NoView == [auction |-> None, latestBid |-> None,
           auctionClosed |-> FALSE, auctionSettled |-> FALSE]

(* socket.emit: sent, or buffered while there is no connection. *)
Emit(msg) ==
  IF conn # None
  THEN up' = [up EXCEPT ![conn] = Append(@, msg)] /\ UNCHANGED buffer
  ELSE buffer' = Append(buffer, msg) /\ UNCHANGED up

(* An event of auction a is on its way to the tab. *)
Coming(a) == conn # None /\ \E i \in DOMAIN down[conn] : down[conn][i].auction = a

(* The page mounts; it joins at once when the socket is connected. *)
Mount(a) ==
  /\ shown = None /\ mounts < MaxMounts
  /\ shown' = a /\ mounts' = mounts + 1
  /\ sharedSocket' = (sharedSocket \/ Live(a))
  /\ isConnected' = (Live(a) /\ conn # None)
  /\ IF Live(a) /\ conn # None THEN Emit(Join(a)) ELSE UNCHANGED <<up, buffer>>
  /\ blind' = Coming(a)
  /\ UNCHANGED <<row, auth, server, conn, conns, attempts, down, fetches, answers, view, misled>>

(* The effect's cleanup; an answer that arrives later is ignored. *)
Unmount ==
  /\ shown # None
  /\ shown' = None /\ fetches' = 0 /\ answers' = {} /\ view' = NoView
  /\ isConnected' = FALSE /\ blind' = FALSE /\ misled' = FALSE
  /\ IF Live(shown) THEN Emit(Leave(shown)) ELSE UNCHANGED <<up, buffer>>
  /\ UNCHANGED <<row, auth, server, sharedSocket, conn, conns, attempts, down, mounts>>

BugOnConnect(c) == up' = [up EXCEPT ![c] = buffer]
BugJoinOnce(c) ==
  up' = [up EXCEPT ![c] =
           buffer \o (IF Live(shown) /\ conns = 0 THEN <<Join(shown)>> ELSE <<>>)]

(* The client first sends what it buffered, then runs onConnect if the hook listens. *)
OnConnect(c) ==
  up' = [up EXCEPT ![c] = buffer \o (IF Live(shown) THEN <<Join(shown)>> ELSE <<>>)]

BugTrying == sharedSocket /\ conn = None /\ attempts <= RECONNECTION_ATTEMPTS
Trying    == sharedSocket /\ conn = None /\ attempts < RECONNECTION_ATTEMPTS

Connect ==
  /\ Trying /\ conns < MaxConns
  /\ conn' = conns + 1 /\ conns' = conns + 1
  /\ attempts' = 0
  /\ alive' = alive \union {conns + 1}
  /\ OnConnect(conns + 1)
  /\ buffer' = <<>>
  /\ isConnected' = Live(shown)
  /\ UNCHANGED <<row, auth, rooms, sharedSocket, down, shown, mounts, fetches, answers,
                 view, history>>

ConnectFails ==
  /\ Trying
  /\ attempts' = attempts + 1
  /\ UNCHANGED <<row, auth, server, sharedSocket, conn, conns, up, down, buffer, page,
                 history>>

(* The page has asked for its auction or heard of it. *)
Asked == fetches > 0 \/ view # NoView

(* The client notices that the connection is gone; what was still to come is lost. *)
OnDisconnect ==
  /\ conn # None
  /\ conn' = None
  /\ down' = [down EXCEPT ![conn] = <<>>]
  /\ isConnected' = FALSE
  /\ blind' = (blind \/ (shown # None /\ Asked /\ Coming(shown)))
  /\ UNCHANGED <<row, auth, server, sharedSocket, conns, attempts, up, buffer, shown,
                 mounts, fetches, answers, view, misled>>

-----------------------------------------------------------------------------
(* The page. *)

(* On mount, and after each action of the user. *)
Fetch ==
  /\ shown # None /\ fetches < MaxFetches
  /\ fetches' = fetches + 1
  /\ answers' = answers \union {[n |-> fetches + 1, row |-> row[shown]]}
  /\ UNCHANGED <<row, auth, server, socket, shown, mounts, isConnected, view,
                 history>>

(* Answers arrive in any order, or as { success: false }. *)
Fetched(r) ==
  /\ r \in answers
  /\ view' = [view EXCEPT !.auction = r.row] \/ UNCHANGED view
  /\ answers' = answers \ {r}
  /\ UNCHANGED <<row, auth, server, socket, shown, mounts, fetches, isConnected,
                 history>>

BugMerged(v) ==
  IF v.auction = None THEN v
  ELSE [v EXCEPT !.auction =
    [status  |-> IF v.auctionClosed THEN "closed"
                 ELSE IF v.auctionSettled THEN "settled" ELSE @.status,
     highest |-> IF v.latestBid = None THEN @.highest ELSE v.latestBid]]

(* Apply bid updates, closed, settled, in this order. *)
Merged(v) ==
  IF v.auction = None THEN v
  ELSE [v EXCEPT !.auction =
    [status  |-> IF v.auctionSettled THEN "settled"
                 ELSE IF v.auctionClosed THEN "closed" ELSE @.status,
     highest |-> IF v.latestBid = None THEN @.highest ELSE v.latestBid]]

(* The effects run after every answer and event; each depends on the auction, which it
   replaces by a new object, so it sets itself off again and again.  The list of bids,
   into which each run puts the latest bid once more, is left out. *)
Effects ==
  /\ view.auction # None
  /\ view.latestBid # None \/ view.auctionClosed \/ view.auctionSettled
  /\ view' = Merged(view)
  /\ UNCHANGED <<row, auth, server, socket, shown, mounts, fetches, answers, isConnected,
                 history>>

(* An event of this type is kept already. *)
Replaces(e) ==
  \/ e.type = "new_bid" /\ view.latestBid # None
  \/ e.type = "closed" /\ view.auctionClosed
  \/ e.type = "settled" /\ view.auctionSettled

(* onNewBid, onClosed and onSettled keep the event in place of the one before, of
   whatever auction it is: the effects compare its auction with the page's.  onCancelled
   writes the page's own id. *)
OnEvent(e) ==
  LET mine == e.auction = shown IN
  /\ view' = CASE e.type = "new_bid" ->
                   [view EXCEPT !.latestBid = IF mine THEN e.amount ELSE None]
              [] e.type = "closed"    -> [view EXCEPT !.auctionClosed = mine]
              [] e.type = "settled"   -> [view EXCEPT !.auctionSettled = mine]
              [] e.type = "cancelled" -> [view EXCEPT !.auctionClosed = TRUE]
  /\ misled' = (misled \/ (e.type = "cancelled" /\ ~mine))
  /\ blind' = (blind \/ (~mine /\ Replaces(e)))

Deliver ==
  /\ conn # None /\ down[conn] # <<>>
  /\ IF Live(shown) THEN OnEvent(Head(down[conn])) ELSE UNCHANGED <<view, history>>
  /\ down' = [down EXCEPT ![conn] = Tail(@)]
  /\ UNCHANGED <<row, auth, server, sharedSocket, conn, conns, attempts, up, buffer,
                 shown, mounts, fetches, answers, isConnected>>

-----------------------------------------------------------------------------
(* The server: auction rooms. *)

Receive(c) ==
  /\ c \in alive /\ up[c] # <<>>
  /\ LET msg == Head(up[c]) IN
     rooms' = [rooms EXCEPT ![c] = IF msg.type = "join" THEN @ \union {msg.auction}
                                   ELSE @ \ {msg.auction}]
  /\ up' = [up EXCEPT ![c] = Tail(@)]
  /\ UNCHANGED <<row, auth, alive, sharedSocket, conn, conns, attempts, down, buffer,
                 page, history>>

(* io.to(room).emit: what goes to a connection its client left is lost. *)
Broadcast(a, type, amount) ==
  down' = IF conn \in alive /\ a \in rooms[conn]
          THEN [down EXCEPT ![conn] =
                  Append(@, [type |-> type, auction |-> a, amount |-> amount])]
          ELSE down

(* The indexer writes the row, then the event is pushed. *)
Handle(a, type) ==
  LET status  == row[a].status
      highest == row[a].highest IN
  /\ \/ /\ type = "new_bid" /\ status = "active" /\ highest < MaxBids
        /\ row' = [row EXCEPT ![a].highest = @ + 1]
     \/ /\ type = "closed" /\ status = "active"
        /\ row' = [row EXCEPT ![a].status = "closed"]
     \/ /\ type = "cancelled" /\ status = "active" /\ highest = 0
        /\ row' = [row EXCEPT ![a].status = "cancelled"]
     \/ /\ type = "settled" /\ status = "closed"
        /\ row' = [row EXCEPT ![a].status = "settled"]
  /\ Broadcast(a, type, row'[a].highest)
  /\ blind' = (blind \/ (a = shown /\ (Asked \/ Coming(a)) /\ down' = down))
  /\ UNCHANGED <<auth, server, sharedSocket, conn, conns, attempts, up, buffer, page,
                 misled>>

BugForget(cs) ==
  /\ alive' = alive \ cs
  /\ rooms' = [c \in Conns |-> IF c \in cs THEN {} ELSE rooms[c]]
  /\ up' = [c \in Conns |-> IF c \in cs THEN <<>> ELSE up[c]]
  /\ bidderRooms' = [c \in Conns |-> IF c \in cs THEN {} ELSE bidderRooms[c]]
  /\ UNCHANGED authenticatedSockets

(* socket.io empties the rooms of a connection; the disconnect handler forgets whom it
   authenticated. *)
Forget(cs) ==
  /\ alive' = alive \ cs
  /\ rooms' = [c \in Conns |-> IF c \in cs THEN {} ELSE rooms[c]]
  /\ up' = [c \in Conns |-> IF c \in cs THEN <<>> ELSE up[c]]
  /\ bidderRooms' = [c \in Conns |-> IF c \in cs THEN {} ELSE bidderRooms[c]]
  /\ authenticatedSockets' =
       [c \in Conns |-> IF c \in cs THEN {} ELSE authenticatedSockets[c]]

Disconnected(c) ==
  /\ c \in alive
  /\ Forget({c})
  /\ UNCHANGED <<row, serverNonces, issued, spent, sharedSocket, conn, conns, attempts,
                 down, buffer, page, history>>

(* All its state is in memory. *)
Restart ==
  /\ alive # {}
  /\ Forget(alive)
  /\ serverNonces' = [a \in Addresses |-> None]
  /\ UNCHANGED <<row, issued, spent, sharedSocket, conn, conns, attempts, down, buffer,
                 page, history>>

-----------------------------------------------------------------------------
(* The server: authentication.  Any connection it holds, of this tab or another, may send
   any of these, in any order. *)

RequestNonce(a) ==
  /\ alive # {} /\ issued < MaxNonces
  /\ issued' = issued + 1
  /\ serverNonces' = [serverNonces EXCEPT ![a] = issued + 1]
  /\ UNCHANGED <<row, bidderRooms, authenticatedSockets, spent, server, socket, page,
                 history>>

Stamp == 0     \* a nonce that is a client's timestamp

(* The stored nonce, when there is one, is the only one that counts. *)
Accepted(a, n, fresh) ==
  fresh /\ n = (IF serverNonces[a] # None THEN serverNonces[a] ELSE Stamp)

BugUseNonce(a, n, fresh) ==
  serverNonces' = IF serverNonces[a] # None /\ ~fresh
                  THEN [serverNonces EXCEPT ![a] = None] ELSE serverNonces

(* Deleted when it has expired, and when it matches, whatever the signature is. *)
UseNonce(a, n, fresh) ==
  serverNonces' = IF serverNonces[a] # None /\ (~fresh \/ n = serverNonces[a])
                  THEN [serverNonces EXCEPT ![a] = None] ELSE serverNonces

Authenticate(c, a, n, fresh, signed) ==
  /\ c \in alive
  /\ UseNonce(a, n, fresh)
  /\ IF Accepted(a, n, fresh) /\ signed
     THEN /\ authenticatedSockets' = [authenticatedSockets EXCEPT ![c] = @ \union {a}]
          /\ spent' = IF n = Stamp THEN spent ELSE [spent EXCEPT ![n] = @ + 1]
     ELSE UNCHANGED <<authenticatedSockets, spent>>
  /\ UNCHANGED <<row, bidderRooms, issued, server, socket, page, history>>

MayJoin(c, a) == a \in authenticatedSockets[c]

JoinBidder(c, a) ==
  /\ c \in alive /\ MayJoin(c, a)
  /\ bidderRooms' = [bidderRooms EXCEPT ![c] = @ \union {a}]
  /\ UNCHANGED <<row, authenticatedSockets, serverNonces, issued, spent, server, socket,
                 page, history>>

LeaveBidder(c, a) ==
  /\ c \in alive
  /\ bidderRooms' = [bidderRooms EXCEPT ![c] = @ \ {a}]
  /\ UNCHANGED <<row, authenticatedSockets, serverNonces, issued, spent, server, socket,
                 page, history>>

(* The timer drops expired nonces. *)
CleanNonces(a) ==
  /\ serverNonces[a] # None
  /\ serverNonces' = [serverNonces EXCEPT ![a] = None]
  /\ UNCHANGED <<row, bidderRooms, authenticatedSockets, issued, spent, server, socket,
                 page, history>>

-----------------------------------------------------------------------------

Init ==
  /\ row = [a \in Auctions |-> [status |-> "active", highest |-> 0]]
  /\ alive = {}
  /\ rooms = [c \in Conns |-> {}]
  /\ bidderRooms = [c \in Conns |-> {}]
  /\ authenticatedSockets = [c \in Conns |-> {}]
  /\ serverNonces = [a \in Addresses |-> None]
  /\ sharedSocket = FALSE /\ conn = None /\ conns = 0 /\ attempts = 0
  /\ up = [c \in Conns |-> <<>>] /\ down = [c \in Conns |-> <<>>]
  /\ buffer = <<>>
  /\ shown = None /\ mounts = 0 /\ fetches = 0 /\ answers = {}
  /\ isConnected = FALSE /\ view = NoView
  /\ issued = 0 /\ spent = [n \in Nonces |-> 0]
  /\ blind = FALSE /\ misled = FALSE

Page   == \/ \E a \in Auctions : Mount(a)
          \/ Unmount \/ Fetch \/ Effects
          \/ \E r \in answers : Fetched(r)
Socket == Connect \/ ConnectFails \/ OnDisconnect \/ Deliver
Server == \/ \E c \in Conns : Receive(c) \/ Disconnected(c)
          \/ \E a \in Eventful, type \in EventTypes : Handle(a, type)
          \/ Restart
Authentication ==
  \E a \in Addresses :
    \/ RequestNonce(a) \/ CleanNonces(a)
    \/ \E c \in alive :
         \/ JoinBidder(c, a) \/ LeaveBidder(c, a)
         \/ \E n \in Stamp .. issued, fresh, signed \in BOOLEAN :
              Authenticate(c, a, n, fresh, signed)

Next == Page \/ Socket \/ Server \/ Authentication

Spec == Init /\ [][Next]_vars

(* socket.io connects again, delivers, and notices a dead connection by its pings. *)
Fairness ==
  /\ WF_vars(Connect)
  /\ WF_vars(conn \notin alive /\ OnDisconnect)
  /\ \A c \in Conns : WF_vars(Receive(c))

FairSpec == Spec /\ Fairness

-----------------------------------------------------------------------------
(* Properties. *)

(* Type invariant. *)
TypeOK ==
  /\ row \in [Auctions -> Rows]
  /\ alive \subseteq Conns
  /\ rooms \in [Conns -> SUBSET Auctions]
  /\ bidderRooms \in [Conns -> SUBSET Addresses]
  /\ authenticatedSockets \in [Conns -> SUBSET Addresses]
  /\ serverNonces \in [Addresses -> Nonces \union {None}]
  /\ conn \in Conns \union {None} /\ conns \in 0 .. MaxConns
  /\ sharedSocket \in BOOLEAN /\ attempts \in 0 .. RECONNECTION_ATTEMPTS
  /\ up \in [Conns -> Seq([type : {"join", "leave"}, auction : Auctions])]
  /\ down \in [Conns -> Seq([type : EventTypes, auction : Auctions, amount : 0 .. MaxBids])]
  /\ buffer \in Seq({Leave(a) : a \in Auctions})
  /\ shown \in Auctions \union {None} /\ mounts \in 0 .. MaxMounts
  /\ fetches \in 0 .. MaxFetches
  /\ answers \subseteq [n : Requests, row : Rows]
  /\ isConnected \in BOOLEAN
  /\ view \in [auction : Rows \union {None}, latestBid : 0 .. MaxBids \union {None},
               auctionClosed : BOOLEAN, auctionSettled : BOOLEAN]
  /\ issued \in 0 .. MaxNonces /\ spent \in [Nonces -> Nat]
  /\ blind \in BOOLEAN /\ misled \in BOOLEAN

(* Joining, leaving, buffering and reconnecting compose: once the server has read what
   the tab sent, the tab is in the room of the auction it shows and in no other, and it
   says "Live" only then. *)
RoomsFollowPage ==
  conn \in alive /\ up[conn] = <<>> =>
    /\ rooms[conn] = (IF Live(shown) THEN {shown} ELSE {})
    /\ isConnected = Live(shown)

(* The status the page shows is the auction's; a cancelled one it may show as closed. *)
ShowsStatus ==
  \/ view.auction.status = row[shown].status
  \/ row[shown].status = "cancelled" /\ view.auction.status = "closed"

(* All answers have come, no event of its auction is coming, and the effects have run. *)
Quiet ==
  /\ Live(shown) /\ view.auction # None
  /\ answers = {} /\ ~Coming(shown) /\ view = Merged(view)

(* Once all is quiet the page shows the auction as it is, in whatever order the answers
   and the events came: a late answer does not undo a pushed event.  Excused is a page
   that is blind or misled.  It is blind when an event of its auction was not sent to its
   connection, or was lost with it, after it had asked for the auction or while an older
   event was still coming; when events of an earlier visit were still coming as it
   opened; and when an event of another auction took the place of one it had kept.  It is
   misled when it heard of the cancellation of another auction, which the page takes for
   its own: it may then show an auction as closed that is not.  A cancelled auction is
   shown as closed. *)
ViewCatchesUp ==
  Quiet /\ ~blind =>
    /\ view.auction.highest = row[shown].highest
    /\ ShowsStatus \/ (misled /\ view.auction.status = "closed")

(* Only a connection that authenticated as the bidder, and still stands, is in a
   bidder's room, and the server keeps no authentication of a connection that is gone. *)
BiddersAuthenticated ==
  \A c \in Conns :
    /\ bidderRooms[c] \subseteq authenticatedSockets[c]
    /\ authenticatedSockets[c] # {} => c \in alive

(* A server nonce authenticates once: when it has been used the address falls back to
   timestamps, and a later nonce replaces an earlier one. *)
ChallengeOnce == \A n \in Nonces : spent[n] <= 1

(* A page that stays open gets into its auction's room, after every connection it loses,
   unless the client is without a connection and has given up (or the model has run out
   of connections). *)
JoinsRoom ==
  \A a \in Auctions :
    Live(a) /\ shown = a ~>
      \/ shown # a
      \/ conn \in alive /\ a \in rooms[conn]
      \/ conn = None /\ (attempts = RECONNECTION_ATTEMPTS \/ conns = MaxConns)
=============================================================================
