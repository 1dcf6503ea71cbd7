-------------------------- MODULE LiveUpdatesProofs --------------------------
(***************************************************************************)
(* Proofs about LiveUpdates: its types, who may listen to a bidder's room,   *)
(* the single use of a nonce, the rooms of the tab, and the page that        *)
(* catches up with the database.                                             *)
(***************************************************************************)
EXTENDS LiveUpdates, SequenceTheorems, TLAPS

Messages == [type : {"join", "leave"}, auction : Auctions]
Events   == [type : EventTypes, auction : Auctions, amount : 0 .. MaxBids]
Leaves   == {Leave(a) : a \in Auctions}
Answers  == [n : Requests, row : Rows]
Views    == [auction : Rows \union {None}, latestBid : 0 .. MaxBids \union {None},
             auctionClosed : BOOLEAN, auctionSettled : BOOLEAN]

(* The type invariant, by the parts of the state. *)
AuthTyped ==
  /\ bidderRooms \in [Conns -> SUBSET Addresses]
  /\ authenticatedSockets \in [Conns -> SUBSET Addresses]
  /\ serverNonces \in [Addresses -> Nonces \union {None}]
  /\ issued \in 0 .. MaxNonces /\ spent \in [Nonces -> Nat]
ServerTyped == alive \subseteq Conns /\ rooms \in [Conns -> SUBSET Auctions]
SocketTyped ==
  /\ conn \in Conns \union {None} /\ conns \in 0 .. MaxConns
  /\ sharedSocket \in BOOLEAN /\ attempts \in 0 .. RECONNECTION_ATTEMPTS
  /\ up \in [Conns -> Seq(Messages)] /\ down \in [Conns -> Seq(Events)]
  /\ buffer \in Seq(Leaves)
PageTyped ==
  /\ shown \in Auctions \union {None} /\ mounts \in 0 .. MaxMounts
  /\ fetches \in 0 .. MaxFetches /\ answers \subseteq Answers
  /\ isConnected \in BOOLEAN /\ view \in Views
RowTyped == row \in [Auctions -> Rows]
HistoryTyped == blind \in BOOLEAN /\ misled \in BOOLEAN

LEMMA TypeParts ==
  TypeOK <=> /\ RowTyped /\ AuthTyped /\ ServerTyped /\ SocketTyped /\ PageTyped
             /\ HistoryTyped
BY DEF TypeOK, RowTyped, AuthTyped, ServerTyped, SocketTyped, PageTyped, HistoryTyped,
       Messages, Events, Leaves, Views, Answers

LEMMA TypePartsNext ==
  TypeOK' <=> /\ RowTyped' /\ AuthTyped' /\ ServerTyped' /\ SocketTyped' /\ PageTyped'
              /\ HistoryTyped'
BY TypeParts, PTL

(* What a step leaves alone keeps its type. *)
LEMMA TypeFrames ==
  ASSUME TypeOK
  PROVE  /\ UNCHANGED row => RowTyped'
         /\ UNCHANGED auth => AuthTyped'
         /\ UNCHANGED server => ServerTyped'
         /\ UNCHANGED socket => SocketTyped'
         /\ UNCHANGED page => PageTyped'
         /\ UNCHANGED history => HistoryTyped'
BY TypeParts DEF RowTyped, AuthTyped, ServerTyped, SocketTyped, PageTyped, HistoryTyped,
                 auth, server, socket, page, history

LEMMA BlindSources ==
  /\ Asked \in BOOLEAN
  /\ \A a : Coming(a) \in BOOLEAN
BY DEF Asked, Coming

LEMMA NoViewTyped == NoView \in Views
<1>. DEFINE A == Rows \union {None}
            B == 0 .. MaxBids \union {None}
<1>1. None \in A /\ None \in B
  OBVIOUS
<1>. HIDE DEF A, B
<1>2. NoView \in [auction : A, latestBid : B, auctionClosed : BOOLEAN, auctionSettled : BOOLEAN]
  BY <1>1 DEF NoView
<1>. QED
  BY <1>2 DEF Views, A, B

LEMMA TypeInit == Init => TypeOK
<1>. SUFFICES ASSUME Init PROVE TypeOK
  OBVIOUS
<1>1. <<>> \in Seq(Messages) /\ <<>> \in Seq(Events) /\ <<>> \in Seq(Leaves)
  BY EmptySeq
<1>2. /\ 0 \in 0 .. MaxConns /\ 0 \in 0 .. RECONNECTION_ATTEMPTS /\ 0 \in 0 .. MaxMounts
      /\ 0 \in 0 .. MaxFetches /\ 0 \in 0 .. MaxBids /\ 0 \in 0 .. MaxNonces
  BY BoundsAssumption
<1>3. RowTyped
  BY <1>2 DEF Init, RowTyped, Rows, Statuses
<1>4. AuthTyped
  BY <1>2 DEF Init, AuthTyped
<1>5. ServerTyped /\ HistoryTyped
  BY DEF Init, ServerTyped, HistoryTyped
<1>6. SocketTyped
  BY <1>1, <1>2 DEF Init, SocketTyped
<1>7. PageTyped
  BY <1>2, NoViewTyped DEF Init, PageTyped
<1>. QED
  BY <1>3, <1>4, <1>5, <1>6, <1>7, TypeParts

(* What the tab emits is a message in flight or, without a connection, a buffered leave. *)
LEMMA EmitType ==
  ASSUME TypeOK, NEW msg \in Messages, Emit(msg), conn # None \/ msg \in Leaves
  PROVE  /\ up' \in [Conns -> Seq(Messages)]
         /\ buffer' \in Seq(Leaves)
<1>1. CASE conn # None
  <2>1. conn \in Conns /\ up[conn] \in Seq(Messages)
    BY <1>1 DEF TypeOK, Messages
  <2>2. Append(up[conn], msg) \in Seq(Messages)
    BY <2>1, AppendProperties
  <2>. QED
    BY <1>1, <2>1, <2>2 DEF Emit, TypeOK, Messages, Leaves
<1>2. CASE conn = None
  <2>1. buffer \in Seq(Leaves)
    BY DEF TypeOK, Leaves
  <2>2. Append(buffer, msg) \in Seq(Leaves)
    BY <1>2, <2>1, AppendProperties
  <2>. QED
    BY <1>2, <2>2 DEF Emit, TypeOK, Messages
<1>. QED
  BY <1>1, <1>2

LEMMA MessagesTyped ==
  ASSUME NEW a \in Auctions
  PROVE  Join(a) \in Messages /\ Leave(a) \in Messages /\ Leave(a) \in Leaves
BY DEF Join, Leave, Messages, Leaves

LEMMA MergedTyped ==
  ASSUME NEW v \in Views
  PROVE  Merged(v) \in Views
BY DEF Merged, Views, Rows, Statuses

LEMMA TypePage ==
  ASSUME TypeOK, Page
  PROVE  TypeOK'
<1>1. ASSUME NEW a \in Auctions, Mount(a) PROVE TypeOK'
  <2>1. up' \in [Conns -> Seq(Messages)] /\ buffer' \in Seq(Leaves)
    BY <1>1, EmitType, MessagesTyped DEF Mount, TypeOK, Messages, Leaves
  <2>2. SocketTyped'
    BY <1>1, <2>1, TypeParts DEF Mount, SocketTyped, Live
  <2>3. PageTyped'
    BY <1>1, TypeParts, BoundsAssumption DEF Mount, PageTyped, Live
  <2>4. HistoryTyped'
    BY <1>1, BlindSources, TypeParts DEF Mount, HistoryTyped
  <2>. QED
    BY <1>1, <2>2, <2>3, <2>4, TypeFrames, TypePartsNext DEF Mount
<1>2. CASE Unmount
  <2>1. shown \in Auctions
    BY <1>2 DEF Unmount, TypeOK
  <2>2. up' \in [Conns -> Seq(Messages)] /\ buffer' \in Seq(Leaves)
    BY <1>2, <2>1, EmitType, MessagesTyped DEF Unmount, TypeOK, Messages, Leaves
  <2>3. SocketTyped'
    BY <1>2, <2>2, TypeParts DEF Unmount, SocketTyped
  <2>4. PageTyped'
    <3>1. view' \in Views
      BY <1>2, NoViewTyped DEF Unmount
    <3>2. 0 \in 0 .. MaxFetches
      BY BoundsAssumption
    <3>. QED
      BY <1>2, <3>1, <3>2, TypeParts DEF Unmount, PageTyped
  <2>5. HistoryTyped'
    BY <1>2 DEF Unmount, HistoryTyped
  <2>. QED
    BY <1>2, <2>3, <2>4, <2>5, TypeFrames, TypePartsNext DEF Unmount
<1>3. CASE Fetch
  <2>1. row[shown] \in Rows
    BY <1>3 DEF Fetch, TypeOK
  <2>2. fetches + 1 \in 0 .. MaxFetches /\ fetches + 1 \in Requests
    BY <1>3, BoundsAssumption DEF Fetch, TypeOK, Requests
  <2>3. PageTyped'
    BY <1>3, <2>1, <2>2, TypeParts DEF Fetch, PageTyped, Answers
  <2>. QED
    BY <1>3, <2>3, TypeFrames, TypePartsNext DEF Fetch
<1>4. ASSUME NEW r \in answers, Fetched(r) PROVE TypeOK'
  <2>1. r.row \in Rows /\ view \in Views
    BY TypeParts DEF PageTyped, Answers
  <2>2. view' \in Views
    BY <1>4, <2>1 DEF Fetched, Views
  <2>3. PageTyped'
    BY <1>4, <2>2, TypeParts DEF Fetched, PageTyped
  <2>. QED
    BY <1>4, <2>3, TypeFrames, TypePartsNext DEF Fetched
<1>5. CASE Effects
  <2>1. view' \in Views
    BY <1>5, MergedTyped, TypeParts DEF Effects, PageTyped
  <2>3. PageTyped'
    BY <1>5, <2>1, TypeParts DEF Effects, PageTyped
  <2>. QED
    BY <1>5, <2>3, TypeFrames, TypePartsNext DEF Effects
<1>. QED
  BY <1>1, <1>2, <1>3, <1>4, <1>5 DEF Page

LEMMA TypeSocket ==
  ASSUME TypeOK, Socket
  PROVE  TypeOK'
<1>1. CASE Connect
  <2>1. conns \in Nat /\ MaxConns \in Nat /\ conns + 1 \in Conns
    BY <1>1, BoundsAssumption DEF Connect, TypeOK, Conns
  <2>. DEFINE joins == IF Live(shown) THEN <<Join(shown)>> ELSE <<>>
  <2>2. joins \in Seq(Messages)
    <3>1. CASE Live(shown)
      <4>1. shown \in Auctions
        BY <3>1 DEF Live, TypeOK
      <4>. QED
        BY <3>1, <4>1, MessagesTyped
    <3>. QED
      BY <3>1
  <2>3. buffer \in Seq(Messages)
    <3>1. buffer \in Seq(Leaves) /\ Leaves \subseteq Messages
      BY MessagesTyped DEF TypeOK, Leaves
    <3>. QED
      BY <3>1, SeqMonotonic, Zenon
  <2>. HIDE DEF joins
  <2>4. buffer \o joins \in Seq(Messages)
    BY <2>2, <2>3, ConcatProperties
  <2>5. up' = [up EXCEPT ![conns + 1] = buffer \o joins]
    BY <1>1 DEF Connect, OnConnect, joins
  <2>6. <<>> \in Seq(Leaves)
    BY EmptySeq
  <2>7. Live(shown) \in BOOLEAN
    BY DEF Live
  <2>8. SocketTyped'
    BY <1>1, <2>1, <2>4, <2>5, <2>6, TypeParts, BoundsAssumption DEF Connect, SocketTyped
  <2>9. ServerTyped'
    BY <1>1, <2>1, TypeParts DEF Connect, ServerTyped
  <2>10. PageTyped'
    BY <1>1, <2>7, TypeParts DEF Connect, PageTyped
  <2>. QED
    BY <1>1, <2>8, <2>9, <2>10, TypeFrames, TypePartsNext DEF Connect
<1>2. CASE ConnectFails
  <2>1. SocketTyped'
    BY <1>2, TypeParts, BoundsAssumption DEF ConnectFails, Trying, SocketTyped
  <2>. QED
    BY <1>2, <2>1, TypeFrames, TypePartsNext DEF ConnectFails
<1>3. CASE OnDisconnect
  <2>1. <<>> \in Seq(Events)
    BY EmptySeq
  <2>2. SocketTyped'
    BY <1>3, <2>1, TypeParts DEF OnDisconnect, SocketTyped
  <2>3. PageTyped'
    BY <1>3, TypeParts DEF OnDisconnect, PageTyped
  <2>4. HistoryTyped'
    BY <1>3, BlindSources, TypeParts DEF OnDisconnect, HistoryTyped
  <2>. QED
    BY <1>3, <2>2, <2>3, <2>4, TypeFrames, TypePartsNext DEF OnDisconnect
<1>4. CASE Deliver
  <2>1. conn \in Conns /\ down[conn] \in Seq(Events) /\ down[conn] # <<>>
    BY <1>4 DEF Deliver, TypeOK, Events
  <2>2. Head(down[conn]) \in Events /\ Tail(down[conn]) \in Seq(Events)
    BY <2>1, HeadTailProperties
  <2>3. ASSUME NEW e \in Events, OnEvent(e)
        PROVE  view' \in Views /\ HistoryTyped'
    <3>1. /\ view \in Views
          /\ misled \in BOOLEAN /\ blind \in BOOLEAN
          /\ e.amount \in 0 .. MaxBids /\ e.type \in EventTypes
      BY TypeParts DEF PageTyped, HistoryTyped, Events
    <3>2. \A b \in BOOLEAN :
            /\ [view EXCEPT !.latestBid = e.amount] \in Views
            /\ [view EXCEPT !.latestBid = None] \in Views
            /\ [view EXCEPT !.auctionClosed = b] \in Views
            /\ [view EXCEPT !.auctionSettled = b] \in Views
      BY <3>1 DEF Views
    <3>3. (e.auction = shown) \in BOOLEAN
      OBVIOUS
    <3>4. view' \in Views
      BY <2>3, <3>1, <3>2, <3>3 DEF OnEvent, EventTypes
    <3>5. HistoryTyped'
      <4>1. Replaces(e) \in BOOLEAN
        BY <3>1 DEF Replaces, Views
      <4>. QED
        BY <2>3, <3>1, <4>1 DEF OnEvent, HistoryTyped
    <3>. QED
      BY <3>4, <3>5
  <2>4. view' \in Views /\ HistoryTyped'
    <3>1. CASE Live(shown)
      BY <1>4, <2>2, <2>3, <3>1 DEF Deliver
    <3>2. CASE ~Live(shown)
      BY <1>4, <3>2, TypeParts, TypeFrames DEF Deliver, PageTyped
    <3>. QED
      BY <3>1, <3>2
  <2>5. SocketTyped'
    BY <1>4, <2>1, <2>2, TypeParts DEF Deliver, SocketTyped
  <2>6. PageTyped'
    BY <1>4, <2>4, TypeParts DEF Deliver, PageTyped
  <2>. QED
    BY <1>4, <2>4, <2>5, <2>6, TypeFrames, TypePartsNext DEF Deliver
<1>. QED
  BY <1>1, <1>2, <1>3, <1>4 DEF Socket

LEMMA ForgetType ==
  ASSUME TypeOK, NEW cs, Forget(cs)
  PROVE  /\ ServerTyped'
         /\ up' \in [Conns -> Seq(Messages)]
         /\ bidderRooms' \in [Conns -> SUBSET Addresses]
         /\ authenticatedSockets' \in [Conns -> SUBSET Addresses]
<1>1. <<>> \in Seq(Messages)
  BY EmptySeq
<1>. QED
  BY <1>1, TypeParts DEF ServerTyped, SocketTyped, AuthTyped, Forget

LEMMA TypeServer ==
  ASSUME TypeOK, Server
  PROVE  TypeOK'
<1>1. ASSUME NEW c \in Conns, Receive(c) PROVE TypeOK'
  <2>1. up[c] \in Seq(Messages) /\ up[c] # <<>>
    BY <1>1 DEF Receive, TypeOK, Messages
  <2>2. Head(up[c]) \in Messages /\ Tail(up[c]) \in Seq(Messages)
    BY <2>1, HeadTailProperties
  <2>3. SocketTyped'
    BY <1>1, <2>2, TypeParts DEF Receive, SocketTyped
  <2>4. ServerTyped'
    BY <1>1, <2>2, TypeParts DEF Receive, ServerTyped, Messages
  <2>. QED
    BY <1>1, <2>3, <2>4, TypeFrames, TypePartsNext DEF Receive
<1>2. ASSUME NEW c \in Conns, Disconnected(c) PROVE TypeOK'
  <2>1. SocketTyped'
    BY <1>2, ForgetType, TypeParts DEF Disconnected, SocketTyped
  <2>2. AuthTyped'
    BY <1>2, ForgetType, TypeParts DEF Disconnected, AuthTyped
  <2>. QED
    BY <1>2, <2>1, <2>2, ForgetType, TypeFrames, TypePartsNext DEF Disconnected
<1>3. ASSUME NEW a \in Eventful, NEW type \in EventTypes, Handle(a, type) PROVE TypeOK'
  <2>1. a \in Auctions /\ row[a] \in Rows /\ MaxBids \in Nat
    BY BoundsAssumption DEF TypeOK
  <2>2. row' \in [Auctions -> Rows]
    <3>1. PICK r \in Rows : row' = [row EXCEPT ![a] = r]
      <4>1. CASE type = "new_bid" /\ row[a].highest < MaxBids
                 /\ row' = [row EXCEPT ![a].highest = @ + 1]
        <5>1. [row[a] EXCEPT !.highest = @ + 1] \in Rows
          BY <2>1, <4>1 DEF Rows
        <5>. QED
          BY <4>1, <5>1
      <4>2. ASSUME NEW s \in Statuses, row' = [row EXCEPT ![a].status = s]
            PROVE  \E r \in Rows : row' = [row EXCEPT ![a] = r]
        <5>1. [row[a] EXCEPT !.status = s] \in Rows
          BY <2>1 DEF Rows
        <5>. QED
          BY <4>2, <5>1
      <4>. QED
        BY <1>3, <4>1, <4>2 DEF Handle, Statuses
    <3>. QED
      BY <3>1 DEF TypeOK
  <2>3. down' \in [Conns -> Seq(Events)]
    <3>1. row'[a].highest \in 0 .. MaxBids
      BY <2>1, <2>2 DEF Rows
    <3>2. [type |-> type, auction |-> a, amount |-> row'[a].highest] \in Events
      BY <2>1, <3>1 DEF Events
    <3>3. \A c \in Conns : Append(down[c],
            [type |-> type, auction |-> a, amount |-> row'[a].highest]) \in Seq(Events)
      BY <3>2, AppendProperties DEF TypeOK, Events
    <3>. QED
      BY <1>3, <3>3 DEF Handle, Broadcast, TypeOK, Events
  <2>4. RowTyped' /\ HistoryTyped'
    BY <1>3, <2>2, BlindSources, TypeParts DEF Handle, RowTyped, HistoryTyped
  <2>5. SocketTyped'
    BY <1>3, <2>3, TypeParts DEF Handle, SocketTyped
  <2>. QED
    BY <1>3, <2>4, <2>5, TypeFrames, TypePartsNext DEF Handle
<1>4. CASE Restart
  <2>1. SocketTyped'
    BY <1>4, ForgetType, TypeParts DEF Restart, SocketTyped
  <2>2. AuthTyped'
    BY <1>4, ForgetType, TypeParts DEF Restart, AuthTyped
  <2>. QED
    BY <1>4, <2>1, <2>2, ForgetType, TypeFrames, TypePartsNext DEF Restart
<1>. QED
  BY <1>1, <1>2, <1>3, <1>4 DEF Server

LEMMA TypeAuthentication ==
  ASSUME TypeOK, Authentication
  PROVE  TypeOK'
<1>0. MaxNonces \in Nat /\ issued \in Nat /\ issued <= MaxNonces
  BY BoundsAssumption DEF TypeOK
<1>1. ASSUME NEW a \in Addresses, RequestNonce(a) PROVE TypeOK'
  <2>1. issued + 1 \in Nonces /\ issued + 1 \in 0 .. MaxNonces
    BY <1>0, <1>1 DEF RequestNonce, Nonces
  <2>2. AuthTyped'
    BY <1>1, <2>1, TypeParts DEF RequestNonce, AuthTyped
  <2>. QED
    BY <1>1, <2>2, TypeFrames, TypePartsNext DEF RequestNonce
<1>2. ASSUME NEW a \in Addresses, CleanNonces(a) PROVE TypeOK'
  <2>1. AuthTyped'
    BY <1>2, TypeParts DEF CleanNonces, AuthTyped
  <2>. QED
    BY <1>2, <2>1, TypeFrames, TypePartsNext DEF CleanNonces
<1>3. ASSUME NEW a \in Addresses, NEW c \in Conns, JoinBidder(c, a) \/ LeaveBidder(c, a)
      PROVE  TypeOK'
  <2>1. \E s \in SUBSET Addresses : bidderRooms' = [bidderRooms EXCEPT ![c] = s]
    <3>1. bidderRooms[c] \in SUBSET Addresses
      BY TypeParts DEF AuthTyped
    <3>2. CASE JoinBidder(c, a)
      BY <3>1, <3>2 DEF JoinBidder
    <3>3. CASE LeaveBidder(c, a)
      BY <3>1, <3>3 DEF LeaveBidder
    <3>. QED
      BY <1>3, <3>2, <3>3
  <2>2. AuthTyped'
    BY <1>3, <2>1, TypeParts DEF JoinBidder, LeaveBidder, AuthTyped
  <2>. QED
    BY <1>3, <2>2, TypeFrames, TypePartsNext DEF JoinBidder, LeaveBidder
<1>4. ASSUME NEW a \in Addresses, NEW c \in Conns, NEW n \in Stamp .. issued,
             NEW fresh \in BOOLEAN, NEW signed \in BOOLEAN,
             Authenticate(c, a, n, fresh, signed)
      PROVE  TypeOK'
  <2>1. serverNonces' \in [Addresses -> Nonces \union {None}]
    BY <1>4, TypeParts DEF Authenticate, UseNonce, AuthTyped
  <2>2. authenticatedSockets' \in [Conns -> SUBSET Addresses]
    <3>1. authenticatedSockets[c] \union {a} \in SUBSET Addresses
      BY TypeParts DEF AuthTyped
    <3>. QED
      BY <1>4, <3>1, TypeParts DEF Authenticate, AuthTyped
  <2>3. spent' \in [Nonces -> Nat]
    <3>1. n # Stamp => n \in Nonces
      BY <1>0 DEF Stamp, Nonces
    <3>. QED
      BY <1>4, <3>1, TypeParts DEF Authenticate, AuthTyped
  <2>4. AuthTyped'
    BY <1>4, <2>1, <2>2, <2>3, TypeParts DEF Authenticate, AuthTyped
  <2>. QED
    BY <1>4, <2>4, TypeFrames, TypePartsNext DEF Authenticate
<1>. QED
  <2>1. alive \subseteq Conns
    BY TypeParts DEF ServerTyped
  <2>. QED
    BY <1>1, <1>2, <1>3, <1>4, <2>1 DEF Authentication

LEMMA TypeStep == TypeOK /\ [Next]_vars => TypeOK'
<1>1. ASSUME TypeOK, UNCHANGED vars PROVE TypeOK'
  BY <1>1, TypeFrames, TypePartsNext DEF vars
<1>. QED
  BY <1>1, TypePage, TypeSocket, TypeServer, TypeAuthentication DEF Next

(* The tab and the server keep their shape, whatever connects, breaks or arrives late. *)
THEOREM LiveTypes == Spec => []TypeOK
BY TypeInit, TypeStep, PTL DEF Spec

-----------------------------------------------------------------------------
(* Who authenticated, and who may listen. *)

LEMMA BiddersStep ==
  ASSUME TypeOK, BiddersAuthenticated, [Next]_vars
  PROVE  BiddersAuthenticated'
<1>1. CASE UNCHANGED <<bidderRooms, authenticatedSockets, alive>>
  BY <1>1 DEF BiddersAuthenticated
<1>2. CASE Connect
  BY <1>2 DEF BiddersAuthenticated, Connect, auth
<1>3. ASSUME NEW cs, Forget(cs) PROVE BiddersAuthenticated'
  BY <1>3 DEF BiddersAuthenticated, Forget
<1>4. ASSUME NEW a \in Addresses, NEW c \in Conns, JoinBidder(c, a) PROVE BiddersAuthenticated'
  BY <1>4 DEF BiddersAuthenticated, JoinBidder, MayJoin, TypeOK, server
<1>5. ASSUME NEW a \in Addresses, NEW c \in Conns, LeaveBidder(c, a) PROVE BiddersAuthenticated'
  BY <1>5 DEF BiddersAuthenticated, LeaveBidder, TypeOK, server
<1>6. ASSUME NEW a \in Addresses, NEW c \in Conns, NEW n \in Stamp .. issued,
             NEW fresh \in BOOLEAN, NEW signed \in BOOLEAN,
             Authenticate(c, a, n, fresh, signed)
      PROVE  BiddersAuthenticated'
  BY <1>6 DEF BiddersAuthenticated, Authenticate, TypeOK, server
<1>7. CASE Page
  BY <1>1, <1>7 DEF Page, Mount, Unmount, Fetch, Fetched, Effects, auth, server
<1>8. CASE Socket
  BY <1>1, <1>2, <1>8 DEF Socket, ConnectFails, OnDisconnect, Deliver, auth, server
<1>9. CASE Server
  BY <1>1, <1>3, <1>9 DEF Server, Receive, Disconnected, Handle, Restart, auth, server
<1>10. CASE Authentication
  <2>1. alive \subseteq Conns
    BY DEF TypeOK
  <2>. QED
    BY <1>1, <1>4, <1>5, <1>6, <1>10, <2>1
       DEF Authentication, RequestNonce, CleanNonces, server
<1>11. CASE UNCHANGED vars
  BY <1>1, <1>11 DEF vars, auth, server
<1>. QED
  BY <1>7, <1>8, <1>9, <1>10, <1>11 DEF Next

(* Nobody is in a bidder's room unless the connection authenticated as that bidder and
   is still held. *)
THEOREM BiddersAuthenticatedHolds == Spec => []BiddersAuthenticated
<1>1. Init => BiddersAuthenticated
  BY DEF Init, BiddersAuthenticated
<1>. QED
  BY <1>1, LiveTypes, BiddersStep, PTL DEF Spec

(* The inductive invariant of the nonces: one still stored has authenticated nobody, was
   issued to one address only, and is one of those issued. *)
NonceInv ==
  /\ \A n \in Nonces : spent[n] <= 1 /\ (n > issued => spent[n] = 0)
  /\ \A a \in Addresses :
       serverNonces[a] # None => serverNonces[a] <= issued /\ spent[serverNonces[a]] = 0
  /\ \A a, b \in Addresses :
       serverNonces[a] # None /\ serverNonces[a] = serverNonces[b] => a = b

LEMMA NonceStep ==
  ASSUME TypeOK, NonceInv, [Next]_vars
  PROVE  NonceInv'
<1>0. /\ issued \in Nat /\ Nonces \subseteq Nat \ {0} /\ None \notin Nonces
      /\ serverNonces \in [Addresses -> Nonces \union {None}] /\ spent \in [Nonces -> Nat]
  BY BoundsAssumption, NoneAssumption DEF TypeOK, Nonces
<1>1. CASE UNCHANGED <<issued, serverNonces, spent>>
  BY <1>1 DEF NonceInv
<1>2. ASSUME NEW a \in Addresses, RequestNonce(a) PROVE NonceInv'
  <2>1. /\ issued' = issued + 1 /\ spent' = spent
        /\ serverNonces' = [serverNonces EXCEPT ![a] = issued + 1]
    BY <1>2 DEF RequestNonce
  <2>2. issued + 1 \in Nonces
    BY <1>0, <1>2, BoundsAssumption DEF RequestNonce, Nonces
  <2>3. /\ \A b \in Addresses : serverNonces[b] # None => serverNonces[b] < issued + 1
        /\ spent[issued + 1] = 0
    <3>1. issued + 1 > issued
      BY <1>0
    <3>2. spent[issued + 1] = 0
      BY <2>2, <3>1 DEF NonceInv
    <3>3. ASSUME NEW b \in Addresses, serverNonces[b] # None
          PROVE  serverNonces[b] < issued + 1
      <4>1. serverNonces[b] \in Nat /\ serverNonces[b] <= issued
        BY <1>0, <3>3 DEF NonceInv
      <4>. QED
        BY <1>0, <4>1
    <3>. QED
      BY <3>2, <3>3
  <2>4. \A b \in Addresses :
           serverNonces'[b] = IF b = a THEN issued + 1 ELSE serverNonces[b]
    BY <1>0, <2>1
  <2>5. \A n \in Nonces : spent[n] <= 1 /\ (n > issued + 1 => spent[n] = 0)
    BY <1>0 DEF NonceInv
  <2>6. \A b \in Addresses :
           serverNonces'[b] # None => serverNonces'[b] <= issued + 1 /\ spent[serverNonces'[b]] = 0
    <3>. SUFFICES ASSUME NEW b \in Addresses, serverNonces'[b] # None
                  PROVE  serverNonces'[b] <= issued + 1 /\ spent[serverNonces'[b]] = 0
      OBVIOUS
    <3>1. CASE b = a
      BY <1>0, <2>3, <2>4, <3>1
    <3>2. CASE b # a
      <4>1. serverNonces'[b] = serverNonces[b] /\ serverNonces[b] \in Nat
        BY <1>0, <2>4, <3>2
      <4>2. serverNonces[b] <= issued /\ spent[serverNonces[b]] = 0
        BY <4>1 DEF NonceInv
      <4>. QED
        BY <1>0, <4>1, <4>2
    <3>. QED
      BY <3>1, <3>2
  <2>7. \A b, c \in Addresses :
           serverNonces'[b] # None /\ serverNonces'[b] = serverNonces'[c] => b = c
    BY <1>0, <2>2, <2>3, <2>4 DEF NonceInv
  <2>. QED
    BY <2>1, <2>5, <2>6, <2>7 DEF NonceInv
<1>3. ASSUME NEW S, serverNonces' = [a \in Addresses |-> IF a \in S THEN None ELSE serverNonces[a]],
             UNCHANGED <<issued, spent>>
      PROVE  NonceInv'
  BY <1>0, <1>3 DEF NonceInv
<1>4. ASSUME NEW a \in Addresses, CleanNonces(a) PROVE NonceInv'
  BY <1>0, <1>4 DEF NonceInv, CleanNonces
<1>5. ASSUME NEW a \in Addresses, NEW c \in Conns, NEW n \in Stamp .. issued,
             NEW fresh \in BOOLEAN, NEW signed \in BOOLEAN,
             Authenticate(c, a, n, fresh, signed)
      PROVE  NonceInv'
  <2>1. issued' = issued /\ UseNonce(a, n, fresh)
    BY <1>5 DEF Authenticate
  <2>2. CASE spent' = spent
    BY <1>0, <2>1, <2>2 DEF NonceInv, UseNonce
  <2>3. CASE spent' # spent
    <3>1. Accepted(a, n, fresh) /\ n # Stamp /\ spent' = [spent EXCEPT ![n] = @ + 1]
      BY <1>5, <2>3 DEF Authenticate
    <3>2. fresh /\ serverNonces[a] # None /\ n = serverNonces[a]
      BY <3>1 DEF Accepted
    <3>3. serverNonces' = [serverNonces EXCEPT ![a] = None]
      BY <2>1, <3>2 DEF UseNonce
    <3>4. n \in Nonces /\ spent[n] = 0 /\ n <= issued
      BY <1>0, <3>2 DEF NonceInv
    <3>. QED
      BY <1>0, <2>1, <3>1, <3>2, <3>3, <3>4 DEF NonceInv
  <2>. QED
    BY <2>2, <2>3
<1>6. CASE Page
  BY <1>1, <1>6 DEF Page, Mount, Unmount, Fetch, Fetched, Effects, auth
<1>7. CASE Socket
  BY <1>1, <1>7 DEF Socket, Connect, ConnectFails, OnDisconnect, Deliver, auth
<1>8. CASE Server
  <2>1. CASE Restart
    BY <1>3, <2>1 DEF Restart
  <2>. QED
    BY <1>1, <1>8, <2>1 DEF Server, Receive, Disconnected, Handle, auth
<1>9. CASE Authentication
  <2>1. alive \subseteq Conns
    BY DEF TypeOK
  <2>. QED
    BY <1>1, <1>2, <1>4, <1>5, <1>9, <2>1 DEF Authentication, JoinBidder, LeaveBidder
<1>10. CASE UNCHANGED vars
  BY <1>1, <1>10 DEF vars, auth
<1>. QED
  BY <1>6, <1>7, <1>8, <1>9, <1>10 DEF Next

(* A server nonce gives one authentication, over every interleaving of requests, expiry,
   joins and restarts. *)
THEOREM ChallengeOnceHolds == Spec => []ChallengeOnce
<1>1. Init => NonceInv
  BY DEF Init, NonceInv
<1>2. NonceInv => ChallengeOnce
  BY DEF NonceInv, ChallengeOnce
<1>. QED
  BY <1>1, <1>2, LiveTypes, NonceStep, PTL DEF Spec

-----------------------------------------------------------------------------
(* The rooms of the tab. *)

(* The tab, now in the rooms S, will be in that of a once the server has read q. *)
Ends(q, a, S) ==
  \/ \E i \in DOMAIN q : q[i] = Join(a) /\ \A j \in DOMAIN q : j > i => q[j] # Leave(a)
  \/ a \in S /\ \A j \in DOMAIN q : q[j] # Leave(a)

(* Connections are numbered in the order they are made; nothing is known of a later one. *)
ConnsInv ==
  /\ \A c \in alive : c <= conns
  /\ conn # None => conn <= conns
  /\ \A c \in Conns : c > conns => rooms[c] = {} /\ down[c] = <<>>

RoomsInv ==
  /\ conn # None => isConnected = Live(shown)
  /\ conn \in alive =>
       \A a \in Auctions :
         Ends(up[conn], a, rooms[conn]) <=> Live(shown) /\ a = shown


LEMMA EndsEmpty ==
  ASSUME NEW a, NEW S
  PROVE  Ends(<<>>, a, S) <=> a \in S
BY DEF Ends

LEMMA EndsLeaves ==
  ASSUME NEW q \in Seq(Leaves), NEW a
  PROVE  ~Ends(q, a, {})
<1>1. \A i \in DOMAIN q : q[i] \in Leaves
  BY ElementOfSeq, LenProperties
<1>. QED
  BY <1>1 DEF Ends, Leaves, Join, Leave

LEMMA EndsJoin ==
  ASSUME NEW q \in Seq(Messages), NEW a \in Auctions, NEW b \in Auctions, NEW S
  PROVE  Ends(Append(q, Join(a)), b, S) <=> b = a \/ Ends(q, b, S)
<1>. DEFINE p == Append(q, Join(a))
            n == Len(q) + 1
<1>1. /\ n \in DOMAIN p /\ p[n] = Join(a) /\ DOMAIN p = 1 .. n
      /\ DOMAIN q = 1 .. (n - 1) /\ n \in Nat
      /\ \A i \in DOMAIN q : p[i] = q[i]
  BY AppendProperties, LenProperties, MessagesTyped
<1>. HIDE DEF p, n
<1>2. p[n] # Leave(b)
  BY <1>1 DEF Join, Leave
<1>3. p[n] = Join(b) <=> b = a
  BY <1>1 DEF Join
<1>4. ASSUME NEW i \in DOMAIN q
      PROVE  (\A j \in DOMAIN p : j > i => p[j] # Leave(b))
               <=> (\A j \in DOMAIN q : j > i => q[j] # Leave(b))
  BY <1>1, <1>2
<1>5. (\A j \in DOMAIN p : p[j] # Leave(b)) <=> (\A j \in DOMAIN q : q[j] # Leave(b))
  BY <1>1, <1>2
<1>6. (\E i \in DOMAIN p : p[i] = Join(b) /\ \A j \in DOMAIN p : j > i => p[j] # Leave(b))
        <=> \/ b = a
            \/ \E i \in DOMAIN q : q[i] = Join(b) /\ \A j \in DOMAIN q : j > i => q[j] # Leave(b)
  <2>1. \A j \in DOMAIN p : ~(j > n)
    BY <1>1
  <2>2. DOMAIN p = DOMAIN q \union {n}
    BY <1>1
  <2>. QED
    BY <1>1, <1>3, <1>4, <2>1, <2>2
<1>. QED
  BY <1>5, <1>6 DEF Ends, p

LEMMA EndsLeave ==
  ASSUME NEW q \in Seq(Messages), NEW a \in Auctions, NEW b \in Auctions, NEW S
  PROVE  Ends(Append(q, Leave(a)), b, S) <=> b # a /\ Ends(q, b, S)
<1>. DEFINE p == Append(q, Leave(a))
            n == Len(q) + 1
<1>1. /\ n \in DOMAIN p /\ p[n] = Leave(a) /\ DOMAIN p = 1 .. n
      /\ DOMAIN q = 1 .. (n - 1) /\ n \in Nat
      /\ \A i \in DOMAIN q : p[i] = q[i]
  BY AppendProperties, LenProperties, MessagesTyped
<1>. HIDE DEF p, n
<1>2. p[n] # Join(b)
  BY <1>1 DEF Join, Leave
<1>3. p[n] = Leave(b) <=> b = a
  BY <1>1 DEF Leave
<1>4. ASSUME NEW i \in DOMAIN q
      PROVE  (\A j \in DOMAIN p : j > i => p[j] # Leave(b))
               <=> b # a /\ (\A j \in DOMAIN q : j > i => q[j] # Leave(b))
  BY <1>1, <1>3
<1>5. (\A j \in DOMAIN p : p[j] # Leave(b)) <=> b # a /\ (\A j \in DOMAIN q : q[j] # Leave(b))
  BY <1>1, <1>3
<1>6. (\E i \in DOMAIN p : p[i] = Join(b) /\ \A j \in DOMAIN p : j > i => p[j] # Leave(b))
        <=> /\ b # a
            /\ \E i \in DOMAIN q : q[i] = Join(b) /\ \A j \in DOMAIN q : j > i => q[j] # Leave(b)
  <2>1. DOMAIN p = DOMAIN q \union {n}
    BY <1>1
  <2>. QED
    BY <1>1, <1>2, <1>4, <2>1
<1>. QED
  BY <1>5, <1>6 DEF Ends, p

(* What the server does with the first message. *)
After(msg, S) == IF msg.type = "join" THEN S \union {msg.auction} ELSE S \ {msg.auction}

LEMMA EndsHead ==
  ASSUME NEW q \in Seq(Messages), q # <<>>, NEW a \in Auctions, NEW S
  PROVE  Ends(q, a, S) <=> Ends(Tail(q), a, After(Head(q), S))
<1>. DEFINE t == Tail(q)
            n == Len(q)
<1>1. /\ n \in Nat \ {0} /\ DOMAIN q = 1 .. n /\ DOMAIN t = 1 .. (n - 1)
      /\ \A i \in DOMAIN t : t[i] = q[i + 1]
      /\ Head(q) = q[1] /\ q[1] \in Messages /\ 1 \in DOMAIN q
  BY HeadTailProperties, LenProperties, EmptySeq, ElementOfSeq
<1>. HIDE DEF t, n
<1>2. \A i \in DOMAIN q : i # 1 => i - 1 \in DOMAIN t /\ q[i] = t[i - 1]
  BY <1>1
<1>3. \A i \in DOMAIN t : i + 1 \in DOMAIN q /\ i + 1 # 1 /\ t[i] = q[i + 1]
  BY <1>1
<1>4. \/ q[1] = Join(a) /\ q[1].type = "join" /\ q[1].auction = a
      \/ q[1] = Leave(a) /\ q[1].type # "join" /\ q[1].auction = a
      \/ q[1] # Join(a) /\ q[1] # Leave(a) /\ q[1].auction # a
  BY <1>1 DEF Messages, Join, Leave
<1>5. Join(a) # Leave(a)
  BY DEF Join, Leave
<1>6. (\A j \in DOMAIN q : j > 1 => q[j] # Leave(a)) <=> (\A j \in DOMAIN t : t[j] # Leave(a))
  BY <1>1, <1>2, <1>3
<1>7. (\A j \in DOMAIN q : q[j] # Leave(a))
        <=> q[1] # Leave(a) /\ (\A j \in DOMAIN t : t[j] # Leave(a))
  BY <1>1, <1>2, <1>3
<1>8. (\E i \in DOMAIN q : i # 1 /\ q[i] = Join(a) /\ \A j \in DOMAIN q : j > i => q[j] # Leave(a))
        <=> \E i \in DOMAIN t : t[i] = Join(a) /\ \A j \in DOMAIN t : j > i => t[j] # Leave(a)
  <2>1. ASSUME NEW i \in DOMAIN q, i # 1, q[i] = Join(a),
               \A j \in DOMAIN q : j > i => q[j] # Leave(a)
        PROVE  \E k \in DOMAIN t : t[k] = Join(a) /\ \A j \in DOMAIN t : j > k => t[j] # Leave(a)
    <3>1. \A j \in DOMAIN t : j > i - 1 => t[j] # Leave(a)
      BY <1>1, <1>3, <2>1
    <3>. QED
      BY <1>2, <2>1, <3>1
  <2>2. ASSUME NEW k \in DOMAIN t, t[k] = Join(a),
               \A j \in DOMAIN t : j > k => t[j] # Leave(a)
        PROVE  \E i \in DOMAIN q :
                 i # 1 /\ q[i] = Join(a) /\ \A j \in DOMAIN q : j > i => q[j] # Leave(a)
    <3>1. \A j \in DOMAIN q : j > k + 1 => q[j] # Leave(a)
      BY <1>1, <1>2, <2>2
    <3>. QED
      BY <1>3, <2>2, <3>1
  <2>. QED
    BY <2>1, <2>2
<1>9. Ends(q, a, S) <=>
        \/ \E i \in DOMAIN t : t[i] = Join(a) /\ \A j \in DOMAIN t : j > i => t[j] # Leave(a)
        \/ q[1] = Join(a) /\ \A j \in DOMAIN t : t[j] # Leave(a)
        \/ a \in S /\ q[1] # Leave(a) /\ \A j \in DOMAIN t : t[j] # Leave(a)
  <2>1. (\E i \in DOMAIN q : q[i] = Join(a) /\ \A j \in DOMAIN q : j > i => q[j] # Leave(a))
          <=> \/ \E i \in DOMAIN q :
                   i # 1 /\ q[i] = Join(a) /\ \A j \in DOMAIN q : j > i => q[j] # Leave(a)
              \/ q[1] = Join(a) /\ \A j \in DOMAIN q : j > 1 => q[j] # Leave(a)
    BY <1>1
  <2>. QED
    BY <1>6, <1>7, <1>8, <2>1 DEF Ends
<1>10. a \in After(q[1], S) <=> q[1] = Join(a) \/ (a \in S /\ q[1] # Leave(a))
  BY <1>4, <1>5 DEF After
<1>. QED
  BY <1>1, <1>9, <1>10 DEF Ends, t

LEMMA ConnParts ==
  ASSUME TypeOK
  PROVE  /\ conns \in Nat /\ None \notin Conns /\ \A c \in Conns : c \in Nat
         /\ alive \subseteq Conns /\ None \notin alive
         /\ \A c \in alive : up[c] \in Seq(Messages) /\ down[c] \in Seq(Events)
<1>1. None \notin Conns /\ \A c \in Conns : c \in Nat
  BY BoundsAssumption, NoneAssumption DEF Conns
<1>2. conns \in Nat /\ alive \subseteq Conns
  BY BoundsAssumption DEF TypeOK
<1>3. up \in [Conns -> Seq(Messages)] /\ down \in [Conns -> Seq(Events)]
  BY TypeParts DEF SocketTyped
<1>. QED
  BY <1>1, <1>2, <1>3

LEMMA ConnsStep ==
  ASSUME TypeOK, ConnsInv, [Next]_vars
  PROVE  ConnsInv'
<1>0. /\ conns \in Nat /\ None \notin Conns /\ \A c \in Conns : c \in Nat
      /\ alive \subseteq Conns
  BY ConnParts
<1>1. CASE UNCHANGED <<conns, conn, rooms, down, alive>>
  BY <1>1 DEF ConnsInv
<1>2. CASE Connect
  BY <1>0, <1>2 DEF Connect, ConnsInv
<1>3. CASE OnDisconnect
  <2>1. \A c \in Conns : down'[c] = IF c = conn THEN <<>> ELSE down[c]
    BY <1>3 DEF OnDisconnect, TypeOK
  <2>. QED
    BY <1>0, <1>3, <2>1 DEF OnDisconnect, ConnsInv, server
<1>4. CASE Deliver
  <2>1. \A c \in Conns : c # conn => down'[c] = down[c]
    BY <1>4 DEF Deliver, TypeOK
  <2>2. ~(conn > conns)
    BY <1>0, <1>4 DEF ConnsInv, Deliver, TypeOK
  <2>. QED
    BY <1>0, <1>4, <2>1, <2>2 DEF Deliver, ConnsInv, server
<1>5. ASSUME NEW c \in Conns, Receive(c) PROVE ConnsInv'
  <2>1. ~(c > conns)
    BY <1>0, <1>5 DEF ConnsInv, Receive
  <2>2. \A d \in Conns : d # c => rooms'[d] = rooms[d]
    BY <1>5 DEF Receive, TypeOK
  <2>. QED
    BY <1>0, <1>5, <2>1, <2>2 DEF Receive, ConnsInv
<1>6. ASSUME NEW cs, Forget(cs), UNCHANGED <<conns, conn, down>> PROVE ConnsInv'
  BY <1>6 DEF Forget, ConnsInv
<1>7. ASSUME NEW a \in Eventful, NEW type \in EventTypes, Handle(a, type) PROVE ConnsInv'
  <2>1. conn \in alive => ~(conn > conns)
    BY <1>0 DEF ConnsInv
  <2>2. \A c \in Conns : c # conn \/ conn \notin alive => down'[c] = down[c]
    BY <1>7 DEF Handle, Broadcast, TypeOK
  <2>. QED
    BY <1>0, <1>7, <2>1, <2>2 DEF Handle, ConnsInv, server
<1>8. CASE Page
  BY <1>1, <1>8 DEF Page, Mount, Unmount, Fetch, Fetched, Effects, server, socket
<1>9. CASE Socket
  BY <1>1, <1>2, <1>3, <1>4, <1>9 DEF Socket, ConnectFails, server
<1>10. CASE Server
  BY <1>5, <1>6, <1>7, <1>10 DEF Server, Disconnected, Restart
<1>11. CASE Authentication
  BY <1>1, <1>11 DEF Authentication, RequestNonce, CleanNonces, JoinBidder, LeaveBidder,
                     Authenticate, server, socket
<1>12. CASE UNCHANGED vars
  BY <1>1, <1>12 DEF vars, server, socket
<1>. QED
  BY <1>8, <1>9, <1>10, <1>11, <1>12 DEF Next

LEMMA RoomsKept ==
  ASSUME RoomsInv, UNCHANGED <<conn, shown, isConnected>>,
         conn \in alive' => conn \in alive /\ up'[conn] = up[conn] /\ rooms'[conn] = rooms[conn]
  PROVE  RoomsInv'
BY DEF RoomsInv

LEMMA RoomsMount ==
  ASSUME TypeOK, RoomsInv, NEW a \in Auctions, Mount(a)
  PROVE  RoomsInv'
<1>1. /\ shown = None /\ shown' = a /\ conn' = conn /\ alive' = alive /\ rooms' = rooms
      /\ isConnected' = (Live(a) /\ conn # None) /\ a # None
  BY NoneAssumption, BoundsAssumption DEF Mount, server
<1>2. ASSUME conn \in alive, NEW b \in Auctions
      PROVE  Ends(up'[conn], b, rooms'[conn]) <=> Live(shown') /\ b = shown'
  <2>1. conn \in Conns /\ up[conn] \in Seq(Messages) /\ conn # None
    BY <1>2, ConnParts
  <2>2. ~Ends(up[conn], b, rooms[conn])
    BY <1>1, <1>2 DEF RoomsInv, Live
  <2>3. CASE Live(a)
    <3>1. up'[conn] = Append(up[conn], Join(a))
      BY <2>1, <2>3 DEF Mount, Emit, TypeOK
    <3>. QED
      BY <1>1, <2>1, <2>2, <2>3, <3>1, EndsJoin
  <2>4. CASE ~Live(a)
    BY <1>1, <2>2, <2>4 DEF Mount
  <2>. QED
    BY <2>3, <2>4
<1>3. conn' # None => isConnected' = Live(shown')
  BY <1>1 DEF Live
<1>. QED
  BY <1>1, <1>2, <1>3 DEF RoomsInv

LEMMA RoomsUnmount ==
  ASSUME TypeOK, RoomsInv, Unmount
  PROVE  RoomsInv'
<1>1. /\ shown \in Auctions /\ shown' = None /\ conn' = conn /\ alive' = alive
      /\ rooms' = rooms /\ isConnected' = FALSE /\ ~Live(None)
  BY DEF Unmount, server, TypeOK, Live
<1>2. ASSUME conn \in alive, NEW b \in Auctions
      PROVE  ~Ends(up'[conn], b, rooms'[conn])
  <2>1. conn \in Conns /\ up[conn] \in Seq(Messages) /\ conn # None
    BY <1>2, ConnParts
  <2>2. Ends(up[conn], b, rooms[conn]) <=> Live(shown) /\ b = shown
    BY <1>2 DEF RoomsInv
  <2>3. CASE Live(shown)
    <3>1. up'[conn] = Append(up[conn], Leave(shown))
      BY <2>1, <2>3 DEF Unmount, Emit, TypeOK
    <3>. QED
      BY <1>1, <2>1, <2>2, <3>1, EndsLeave
  <2>4. CASE ~Live(shown)
    BY <1>1, <2>2, <2>4 DEF Unmount
  <2>. QED
    BY <2>3, <2>4
<1>3. isConnected' = Live(shown') /\ ~Live(shown')
  BY <1>1 DEF Live
<1>. QED
  BY <1>1, <1>2, <1>3 DEF RoomsInv

LEMMA RoomsConnect ==
  ASSUME TypeOK, ConnsInv, RoomsInv, Connect
  PROVE  RoomsInv'
<1>1. /\ conn' = conns + 1 /\ shown' = shown /\ rooms' = rooms /\ isConnected' = Live(shown)
      /\ conns + 1 \in Conns /\ conns + 1 > conns
  BY BoundsAssumption DEF Connect, TypeOK, Conns
<1>2. rooms[conns + 1] = {}
  BY <1>1 DEF ConnsInv
<1>. DEFINE joins == IF Live(shown) THEN <<Join(shown)>> ELSE <<>>
<1>3. up'[conns + 1] = buffer \o joins
  BY <1>1 DEF Connect, OnConnect, TypeOK
<1>4. buffer \in Seq(Leaves) /\ buffer \in Seq(Messages)
  <2>1. buffer \in Seq(Leaves) /\ Leaves \subseteq Messages
    BY MessagesTyped DEF TypeOK, Leaves
  <2>. QED
    BY <2>1, SeqMonotonic, Zenon
<1>5. ASSUME NEW b \in Auctions
      PROVE  Ends(up'[conns + 1], b, {}) <=> Live(shown) /\ b = shown
  <2>1. ~Ends(buffer, b, {})
    BY <1>4, EndsLeaves
  <2>2. CASE Live(shown)
    <3>1. shown \in Auctions /\ Join(shown) \in Messages
      BY <2>2, MessagesTyped DEF Live, TypeOK
    <3>2. buffer \o joins = Append(buffer, Join(shown))
      BY <1>4, <2>2, <3>1
    <3>3. Ends(Append(buffer, Join(shown)), b, {}) <=> b = shown \/ Ends(buffer, b, {})
      BY <1>4, <3>1, EndsJoin
    <3>. QED
      BY <1>3, <2>1, <2>2, <3>2, <3>3
  <2>3. CASE ~Live(shown)
    <3>1. buffer \o joins = buffer
      BY <1>4, <2>3
    <3>. QED
      BY <1>3, <2>1, <2>3, <3>1
  <2>. QED
    BY <2>2, <2>3
<1>. HIDE DEF joins
<1>. QED
  BY <1>1, <1>2, <1>5 DEF RoomsInv

LEMMA RoomsReceive ==
  ASSUME TypeOK, RoomsInv, NEW c \in Conns, Receive(c)
  PROVE  RoomsInv'
<1>1. UNCHANGED <<conn, shown, isConnected, alive>> /\ up[c] \in Seq(Messages) /\ up[c] # <<>>
  BY DEF Receive, page, TypeOK, Messages
<1>2. CASE c # conn
  BY <1>1, <1>2, RoomsKept DEF Receive, TypeOK
<1>3. CASE c = conn
  <2>1. /\ up'[c] = Tail(up[c])
        /\ rooms'[c] = IF Head(up[c]).type = "join" THEN rooms[c] \union {Head(up[c]).auction}
                       ELSE rooms[c] \ {Head(up[c]).auction}
    BY DEF Receive, TypeOK
  <2>2. ASSUME NEW b \in Auctions
        PROVE  Ends(up'[c], b, rooms'[c]) <=> Ends(up[c], b, rooms[c])
    <3>1. rooms'[c] = After(Head(up[c]), rooms[c])
      BY <2>1 DEF After
    <3>2. Ends(up[c], b, rooms[c])
            <=> Ends(Tail(up[c]), b, After(Head(up[c]), rooms[c]))
      BY <1>1, EndsHead
    <3>. QED
      BY <2>1, <3>1, <3>2
  <2>. QED
    BY <1>1, <1>3, <2>2 DEF RoomsInv
<1>. QED
  BY <1>2, <1>3

LEMMA RoomsStep ==
  ASSUME TypeOK, ConnsInv, RoomsInv, [Next]_vars
  PROVE  RoomsInv'
<1>0. None \notin Conns /\ alive \subseteq Conns
  BY NoneAssumption DEF TypeOK, Conns
<1>1. CASE UNCHANGED <<conn, shown, isConnected, alive, up, rooms>>
  BY <1>1, RoomsKept
<1>2. CASE Page
  BY <1>1, <1>2, RoomsMount, RoomsUnmount
     DEF Page, Fetch, Fetched, Effects, server, socket
<1>3. CASE OnDisconnect
  BY <1>0, <1>3 DEF OnDisconnect, RoomsInv, server
<1>4. CASE Socket
  BY <1>1, <1>3, <1>4, RoomsConnect DEF Socket, ConnectFails, Deliver, server, page
<1>5. ASSUME NEW cs, Forget(cs), UNCHANGED <<conn, shown, isConnected>> PROVE RoomsInv'
  <2>1. conn \in alive' => conn \in alive /\ conn \in Conns /\ conn \notin cs
    BY <1>0, <1>5 DEF Forget
  <2>2. conn \in alive' => up'[conn] = up[conn] /\ rooms'[conn] = rooms[conn]
    BY <1>5, <2>1 DEF Forget
  <2>. QED
    BY <1>5, <2>1, <2>2, RoomsKept
<1>6. CASE Server
  BY <1>1, <1>5, <1>6, RoomsReceive DEF Server, Disconnected, Restart, Handle, server, page
<1>7. CASE Authentication
  BY <1>1, <1>7 DEF Authentication, RequestNonce, CleanNonces, JoinBidder, LeaveBidder,
                    Authenticate, server, socket, page
<1>8. CASE UNCHANGED vars
  BY <1>1, <1>8 DEF vars, server, socket, page
<1>. QED
  BY <1>2, <1>4, <1>6, <1>7, <1>8 DEF Next

LEMMA RoomsFollow ==
  ASSUME TypeOK, RoomsInv
  PROVE  RoomsFollowPage
<1>. SUFFICES ASSUME conn \in alive, up[conn] = <<>>
              PROVE  /\ rooms[conn] = (IF Live(shown) THEN {shown} ELSE {})
                     /\ isConnected = Live(shown)
  BY DEF RoomsFollowPage
<1>1. conn \in Conns /\ conn # None /\ rooms[conn] \subseteq Auctions
  BY ConnParts DEF TypeOK
<1>2. \A a \in Auctions : a \in rooms[conn] <=> Live(shown) /\ a = shown
  <2>1. \A a \in Auctions : Ends(<<>>, a, rooms[conn]) <=> a \in rooms[conn]
    BY EndsEmpty
  <2>. QED
    BY <2>1 DEF RoomsInv
<1>3. Live(shown) => shown \in Auctions
  BY DEF Live, TypeOK
<1>. QED
  BY <1>1, <1>2, <1>3 DEF RoomsInv

LEMMA RoomsInit == Init => ConnsInv /\ RoomsInv
BY DEF Init, ConnsInv, RoomsInv

(* Once the server has read what the tab sent, the tab is in the room of the auction it
   shows and in no other, over any number of mounts, reconnections and restarts. *)
THEOREM RoomsFollowPageHolds == Spec => []RoomsFollowPage
<1>1. Spec => [](TypeOK /\ ConnsInv /\ RoomsInv)
  BY LiveTypes, RoomsInit, ConnsStep, RoomsStep, PTL DEF Spec
<1>. QED
  BY <1>1, RoomsFollow, PTL

-----------------------------------------------------------------------------
(* The view catches up with the row. *)

(* What is pushed, q, and the answers under way, ans, bring the view v of auction a to the
   row r.  Only the events of a count. *)
Has(q, a, types) == \E i \in DOMAIN q : q[i].auction = a /\ q[i].type \in types
NoBid(q, a) == ~Has(q, a, {"new_bid"})
LastBidIs(q, a, h) ==
  \A i \in DOMAIN q :
    /\ q[i].auction = a /\ q[i].type = "new_bid"
    /\ \A j \in DOMAIN q : j > i => ~(q[j].auction = a /\ q[j].type = "new_bid")
    => q[i].amount = h
KnowsClosed(q, v, a)  == v.auctionClosed \/ Has(q, a, {"closed", "cancelled"})
KnowsSettled(q, v, a) == v.auctionSettled \/ Has(q, a, {"settled"})

BidTracked(q, v, ans, r, a) ==
  /\ LastBidIs(q, a, r.highest)
  /\ NoBid(q, a) /\ v.latestBid # None => v.latestBid = r.highest
  /\ NoBid(q, a) /\ v.latestBid = None =>
       /\ \A x \in ans : x.row.highest = r.highest
       /\ v.auction # None => v.auction.highest = r.highest

(* A misled page keeps the cancellation it heard; of the rest it still knows "settled". *)
StatusTracked(q, v, ans, r, a, m) ==
  /\ KnowsSettled(q, v, a) => r.status = "settled"
  /\ m => v.auctionClosed
  /\ ~m =>
       /\ KnowsClosed(q, v, a) => r.status # "active"
       /\ KnowsClosed(q, v, a) /\ r.status = "settled" => KnowsSettled(q, v, a)
       /\ ~KnowsClosed(q, v, a) /\ ~KnowsSettled(q, v, a) =>
            /\ \A x \in ans : x.row.status = r.status
            /\ v.auction # None => v.auction.status = r.status

Tracks(q, v, ans, r, a, m) ==
  /\ BidTracked(q, v, ans, r, a)
  /\ StatusTracked(q, v, ans, r, a, m)

(* What is still to come to the tab. *)
Queue == IF conn = None THEN <<>> ELSE down[conn]

ViewInv ==
  /\ fetches = 0 => answers = {} /\ view.auction = None
  /\ shown = None => fetches = 0 /\ view = NoView /\ misled = FALSE
  /\ Live(shown) /\ ~blind => Tracks(Queue, view, answers, row[shown], shown, misled)

(* Without an event of a, the queue tells the page of a nothing. *)
NoneOf(q, a) == \A i \in DOMAIN q : q[i].auction # a

LEMMA QueueEmpty ==
  ASSUME NEW q, NEW a, NoneOf(q, a)
  PROVE  (\A types : ~Has(q, a, types)) /\ (\A h : LastBidIs(q, a, h))
BY DEF Has, LastBidIs, NoneOf

LEMMA ComingIs ==
  ASSUME NEW a
  PROVE  /\ ~Coming(a) <=> NoneOf(Queue, a)
         /\ NoneOf(<<>>, a)
BY DEF Coming, NoneOf, Queue

LEMMA AppendAt ==
  ASSUME NEW q \in Seq(Events), NEW e \in Events
  PROVE  LET p == Append(q, e)
             n == Len(q) + 1
         IN  /\ n \in Nat /\ DOMAIN p = 1 .. n /\ DOMAIN q = 1 .. (n - 1) /\ p[n] = e
             /\ DOMAIN p = DOMAIN q \union {n} /\ n \notin DOMAIN q
             /\ \A i \in DOMAIN q : p[i] = q[i] /\ n > i /\ ~(i > n)
             /\ ~(n > n)
<1>. DEFINE p == Append(q, e)
            n == Len(q) + 1
<1>1. /\ n \in Nat /\ DOMAIN p = 1 .. n /\ DOMAIN q = 1 .. (n - 1) /\ p[n] = e
      /\ \A i \in DOMAIN q : p[i] = q[i]
  BY AppendProperties, LenProperties
<1>. HIDE DEF p, n
<1>2. /\ DOMAIN p = DOMAIN q \union {n} /\ n \notin DOMAIN q
      /\ \A i \in DOMAIN q : n > i /\ ~(i > n)
      /\ ~(n > n)
  <2>1. n > 0 /\ 1 .. n = (1 .. (n - 1)) \union {n} /\ n \notin 1 .. (n - 1)
    <3>1. n > 0
      BY LenProperties DEF n
    <3>. QED
      BY <1>1, <3>1
  <2>2. \A i \in 1 .. (n - 1) : n > i /\ ~(i > n)
    BY <1>1
  <2>. QED
    BY <1>1, <2>1, <2>2
<1>. QED
  BY <1>1, <1>2 DEF p, n

LEMMA HasAppend ==
  ASSUME NEW q \in Seq(Events), NEW e \in Events, NEW a, NEW types
  PROVE  Has(Append(q, e), a, types) <=> Has(q, a, types) \/ (e.auction = a /\ e.type \in types)
BY AppendAt DEF Has

LEMMA LastBidAppend ==
  ASSUME NEW q \in Seq(Events), NEW e \in Events, NEW a, NEW h,
         IF e.auction = a /\ e.type = "new_bid" THEN e.amount = h ELSE LastBidIs(q, a, h)
  PROVE  LastBidIs(Append(q, e), a, h)
<1>. DEFINE p == Append(q, e)
            n == Len(q) + 1
            Bid(x) == x.auction = a /\ x.type = "new_bid"
<1>1. /\ DOMAIN p = DOMAIN q \union {n} /\ p[n] = e
      /\ \A i \in DOMAIN q : p[i] = q[i] /\ n > i
  BY AppendAt
<1>. HIDE DEF p, n
<1>2. ASSUME NEW i \in DOMAIN p, Bid(p[i]), \A j \in DOMAIN p : j > i => ~Bid(p[j])
      PROVE  p[i].amount = h
  <2>1. CASE i = n
    BY <1>1, <1>2, <2>1
  <2>2. CASE i \in DOMAIN q
    <3>1. ~Bid(e)
      BY <1>1, <1>2, <2>2
    <3>2. Bid(q[i]) /\ \A j \in DOMAIN q : j > i => ~Bid(q[j])
      BY <1>1, <1>2, <2>2
    <3>. QED
      BY <1>1, <2>2, <3>1, <3>2 DEF LastBidIs
  <2>. QED
    BY <1>1, <2>1, <2>2
<1>. QED
  BY <1>2 DEF LastBidIs, p

LEMMA TailAt ==
  ASSUME NEW q \in Seq(Events), q # <<>>
  PROVE  /\ 1 \in DOMAIN q /\ q[1] = Head(q) /\ Head(q) \in Events
         /\ Tail(q) \in Seq(Events)
         /\ \A i \in DOMAIN q : i \in Nat /\ (i = 1 \/ (i - 1 \in DOMAIN Tail(q) /\ i > 1))
         /\ \A i \in DOMAIN Tail(q) :
              i \in Nat /\ i + 1 \in DOMAIN q /\ i + 1 > 1 /\ Tail(q)[i] = q[i + 1]
<1>. DEFINE t == Tail(q)
            n == Len(q)
<1>1. /\ n \in Nat \ {0} /\ DOMAIN q = 1 .. n /\ DOMAIN t = 1 .. (n - 1)
      /\ \A i \in DOMAIN t : t[i] = q[i + 1]
      /\ Head(q) = q[1] /\ q[1] \in Events /\ t \in Seq(Events)
  BY HeadTailProperties, LenProperties, EmptySeq, ElementOfSeq
<1>. HIDE DEF t, n
<1>. QED
  BY <1>1 DEF t

LEMMA HasTail ==
  ASSUME NEW q \in Seq(Events), q # <<>>, NEW a, NEW types
  PROVE  Has(q, a, types)
           <=> (Head(q).auction = a /\ Head(q).type \in types) \/ Has(Tail(q), a, types)
<1>. DEFINE Fits(x) == x.auction = a /\ x.type \in types
<1>1. ASSUME Has(q, a, types) PROVE Fits(Head(q)) \/ Has(Tail(q), a, types)
  <2>1. PICK i \in DOMAIN q : Fits(q[i])
    BY <1>1 DEF Has
  <2>2. CASE i # 1
    <3>1. i - 1 \in DOMAIN Tail(q) /\ i \in Nat /\ (i - 1) + 1 = i
      BY <2>2, TailAt
    <3>2. Tail(q)[i - 1] = q[i]
      BY <3>1, TailAt
    <3>. QED
      BY <2>1, <3>1, <3>2 DEF Has
  <2>. QED
    BY <2>1, <2>2, TailAt
<1>2. ASSUME Fits(Head(q)) \/ Has(Tail(q), a, types) PROVE Has(q, a, types)
  BY <1>2, TailAt DEF Has
<1>. QED
  BY <1>1, <1>2

LEMMA LastBidTail ==
  ASSUME NEW q \in Seq(Events), q # <<>>, NEW a, NEW h, LastBidIs(q, a, h)
  PROVE  /\ LastBidIs(Tail(q), a, h)
         /\ Head(q).auction = a /\ Head(q).type = "new_bid" /\ NoBid(Tail(q), a)
              => Head(q).amount = h
<1>. DEFINE t == Tail(q)
            Bid(x) == x.auction = a /\ x.type = "new_bid"
<1>1. ASSUME NEW i \in DOMAIN t, NEW j \in DOMAIN q, j > i + 1
      PROVE  j - 1 \in DOMAIN t /\ j - 1 > i /\ t[j - 1] = q[j]
  <2>1. i \in Nat /\ j \in Nat /\ j # 1
    BY <1>1, TailAt
  <2>2. j - 1 \in DOMAIN t /\ j - 1 > i /\ (j - 1) + 1 = j
    BY <1>1, <2>1, TailAt
  <2>. QED
    BY <2>2, TailAt
<1>2. LastBidIs(t, a, h)
  <2>. SUFFICES ASSUME NEW i \in DOMAIN t, Bid(t[i]), \A j \in DOMAIN t : j > i => ~Bid(t[j])
                PROVE  t[i].amount = h
    BY DEF LastBidIs
  <2>1. i + 1 \in DOMAIN q /\ q[i + 1] = t[i]
    BY TailAt
  <2>2. \A j \in DOMAIN q : j > i + 1 => ~Bid(q[j])
    BY <1>1
  <2>. QED
    BY <2>1, <2>2 DEF LastBidIs
<1>3. ASSUME Bid(Head(q)), NoBid(t, a) PROVE Head(q).amount = h
  <2>1. ASSUME NEW j \in DOMAIN q, j > 1 PROVE ~Bid(q[j])
    <3>1. j \in Nat /\ j - 1 \in DOMAIN t /\ (j - 1) + 1 = j
      BY <2>1, TailAt
    <3>2. t[j - 1] = q[j]
      BY <3>1, TailAt
    <3>. QED
      BY <1>3, <3>1, <3>2 DEF NoBid, Has
  <2>. QED
    BY <1>3, <2>1, TailAt DEF LastBidIs
<1>. QED
  BY <1>2, <1>3

(* A page that has asked for nothing and heard nothing is right about any row. *)
LEMMA TracksStart ==
  ASSUME NEW q, NEW r, NEW a, NoneOf(q, a)
  PROVE  Tracks(q, NoView, {}, r, a, FALSE)
BY QueueEmpty DEF Tracks, BidTracked, StatusTracked, NoView, KnowsClosed, KnowsSettled, NoBid

(* The events of another auction do not count. *)
LEMMA TracksQueue ==
  ASSUME NEW q, NEW p, NEW v, NEW ans, NEW r, NEW a, NEW m,
         Tracks(q, v, ans, r, a, m),
         \A types : Has(p, a, types) <=> Has(q, a, types),
         LastBidIs(p, a, r.highest)
  PROVE  Tracks(p, v, ans, r, a, m)
BY DEF Tracks, BidTracked, StatusTracked, KnowsClosed, KnowsSettled, NoBid

(* An answer read now is the row. *)
LEMMA TracksFetch ==
  ASSUME NEW q, NEW v, NEW ans, NEW n, NEW r, NEW a, NEW m, Tracks(q, v, ans, r, a, m)
  PROVE  Tracks(q, v, ans \union {[n |-> n, row |-> r]}, r, a, m)
BY DEF Tracks, BidTracked, StatusTracked

LEMMA TracksDrop ==
  ASSUME NEW q, NEW v, NEW ans, NEW x, NEW r, NEW a, NEW m, Tracks(q, v, ans, r, a, m)
  PROVE  Tracks(q, v, ans \ {x}, r, a, m)
BY DEF Tracks, BidTracked, StatusTracked

LEMMA TracksAnswer ==
  ASSUME NEW q, NEW v \in Views, NEW ans, NEW x \in ans, NEW r, NEW a, NEW m,
         Tracks(q, v, ans, r, a, m)
  PROVE  Tracks(q, [v EXCEPT !.auction = x.row], ans, r, a, m)
<1>. DEFINE w == [v EXCEPT !.auction = x.row]
<1>1. /\ w.auction = x.row /\ w.latestBid = v.latestBid
      /\ w.auctionClosed = v.auctionClosed /\ w.auctionSettled = v.auctionSettled
  BY DEF Views
<1>. HIDE DEF w
<1>2. BidTracked(q, w, ans, r, a)
  BY <1>1 DEF Tracks, BidTracked
<1>3. StatusTracked(q, w, ans, r, a, m)
  BY <1>1 DEF Tracks, StatusTracked, KnowsClosed, KnowsSettled
<1>. QED
  BY <1>2, <1>3 DEF Tracks, w

(* The effects change the auction only, where the view has heard something of it. *)
LEMMA MergedShape ==
  ASSUME NEW v \in Views, v.auction # None
  PROVE  /\ Merged(v).latestBid = v.latestBid
         /\ Merged(v).auctionClosed = v.auctionClosed
         /\ Merged(v).auctionSettled = v.auctionSettled
         /\ Merged(v).auction.highest
              = IF v.latestBid = None THEN v.auction.highest ELSE v.latestBid
         /\ Merged(v).auction.status
              = IF v.auctionSettled THEN "settled"
                ELSE IF v.auctionClosed THEN "closed" ELSE v.auction.status
BY DEF Merged, Views

LEMMA TracksMerged ==
  ASSUME NEW q, NEW v \in Views, v.auction # None, NEW ans, NEW r, NEW a, NEW m,
         Tracks(q, v, ans, r, a, m)
  PROVE  Tracks(q, Merged(v), ans, r, a, m)
<1>. DEFINE w == Merged(v)
<1>1. /\ w.latestBid = v.latestBid
      /\ w.auctionClosed = v.auctionClosed /\ w.auctionSettled = v.auctionSettled
      /\ v.latestBid = None => w.auction.highest = v.auction.highest
      /\ ~v.auctionClosed /\ ~v.auctionSettled => w.auction.status = v.auction.status
  BY MergedShape
<1>. HIDE DEF w
<1>2. BidTracked(q, w, ans, r, a)
  BY <1>1 DEF Tracks, BidTracked
<1>3. StatusTracked(q, w, ans, r, a, m)
  BY <1>1 DEF Tracks, StatusTracked, KnowsClosed, KnowsSettled
<1>. QED
  BY <1>2, <1>3 DEF Tracks, w

(* What an event does to the page, as OnEvent has it: a page that is not blind afterwards
   keeps what it had heard. *)
LEMMA Hears ==
  ASSUME TypeOK, NEW e \in Events, OnEvent(e), ~blind'
  PROVE  LET mine == e.auction = shown IN
         /\ ~blind
         /\ view'.auction = view.auction
         /\ view'.latestBid = IF mine /\ e.type = "new_bid" THEN e.amount ELSE view.latestBid
         /\ view'.auctionClosed
              <=> view.auctionClosed \/ (mine /\ e.type = "closed") \/ e.type = "cancelled"
         /\ view'.auctionSettled <=> view.auctionSettled \/ (mine /\ e.type = "settled")
         /\ misled' <=> misled \/ (~mine /\ e.type = "cancelled")
         /\ e.amount # None
<1>0. /\ e.amount # None /\ e.type \in EventTypes
      /\ view \in Views /\ blind \in BOOLEAN /\ misled \in BOOLEAN
      /\ view.auctionClosed \in BOOLEAN /\ view.auctionSettled \in BOOLEAN
  BY NoneAssumption, BoundsAssumption, TypeParts
     DEF PageTyped, HistoryTyped, Events, Views
<1>1. ~blind /\ (e.auction # shown => ~Replaces(e))
  BY <1>0 DEF OnEvent
<1>2. misled' <=> misled \/ (e.auction # shown /\ e.type = "cancelled")
  BY <1>0 DEF OnEvent
<1>3. CASE e.type = "new_bid"
  BY <1>0, <1>1, <1>2, <1>3 DEF OnEvent, Replaces, Views
<1>4. CASE e.type = "closed"
  BY <1>0, <1>1, <1>2, <1>4 DEF OnEvent, Replaces, Views
<1>5. CASE e.type = "settled"
  BY <1>0, <1>1, <1>2, <1>5 DEF OnEvent, Replaces, Views
<1>6. CASE e.type = "cancelled"
  BY <1>0, <1>1, <1>2, <1>6 DEF OnEvent, Views
<1>. QED
  BY <1>0, <1>3, <1>4, <1>5, <1>6 DEF EventTypes

LEMMA TracksDeliver ==
  ASSUME NEW q \in Seq(Events), q # <<>>, NEW v, NEW w, NEW ans, NEW r, NEW a,
         NEW m \in BOOLEAN, NEW m2 \in BOOLEAN,
         Tracks(q, v, ans, r, a, m),
         w.auction = v.auction,
         w.latestBid = IF Head(q).auction = a /\ Head(q).type = "new_bid"
                       THEN Head(q).amount ELSE v.latestBid,
         w.auctionClosed <=> \/ v.auctionClosed
                             \/ Head(q).auction = a /\ Head(q).type = "closed"
                             \/ Head(q).type = "cancelled",
         w.auctionSettled <=> v.auctionSettled
                                \/ (Head(q).auction = a /\ Head(q).type = "settled"),
         m2 <=> m \/ (Head(q).auction # a /\ Head(q).type = "cancelled"),
         Head(q).amount # None
  PROVE  Tracks(Tail(q), w, ans, r, a, m2)
<1>. DEFINE e == Head(q)
            t == Tail(q)
            Mine(types) == e.auction = a /\ e.type \in types
<1>1. /\ \A types : Has(q, a, types) <=> Mine(types) \/ Has(t, a, types)
      /\ NoBid(q, a) <=> ~Mine({"new_bid"}) /\ NoBid(t, a)
      /\ LastBidIs(t, a, r.highest)
      /\ Mine({"new_bid"}) /\ NoBid(t, a) => e.amount = r.highest
  BY HasTail, LastBidTail DEF NoBid, Tracks, BidTracked
<1>2. /\ w.latestBid = IF Mine({"new_bid"}) THEN e.amount ELSE v.latestBid
      /\ w.auctionSettled <=> v.auctionSettled \/ Mine({"settled"})
      /\ ~m2 => ~m /\ (w.auctionClosed <=> v.auctionClosed \/ Mine({"closed", "cancelled"}))
      /\ m2 => w.auctionClosed \/ m
      /\ v.auctionClosed => w.auctionClosed
      /\ e.amount # None
  OBVIOUS
<1>. HIDE DEF e, t, Mine
<1>3. BidTracked(t, w, ans, r, a)
  <2>1. NoBid(t, a) /\ w.latestBid # None => w.latestBid = r.highest
    BY <1>1, <1>2 DEF Tracks, BidTracked
  <2>2. ASSUME NoBid(t, a), w.latestBid = None
        PROVE  /\ \A x \in ans : x.row.highest = r.highest
               /\ w.auction # None => w.auction.highest = r.highest
    <3>1. NoBid(q, a) /\ v.latestBid = None
      BY <1>1, <1>2, <2>2
    <3>. QED
      BY <3>1 DEF Tracks, BidTracked
  <2>. QED
    BY <1>1, <2>1, <2>2 DEF BidTracked
<1>4. StatusTracked(t, w, ans, r, a, m2)
  <2>1. KnowsSettled(t, w, a) <=> KnowsSettled(q, v, a)
    BY <1>1, <1>2 DEF KnowsSettled
  <2>2. ~m2 => (KnowsClosed(t, w, a) <=> KnowsClosed(q, v, a))
    BY <1>1, <1>2 DEF KnowsClosed
  <2>3. m2 => w.auctionClosed
    BY <1>2 DEF Tracks, StatusTracked
  <2>. QED
    BY <1>2, <2>1, <2>2, <2>3 DEF Tracks, StatusTracked
<1>. QED
  BY <1>3, <1>4 DEF Tracks, t

(* What an event of the auction does to its row. *)
Moved(r, type, s) ==
  \/ type = "new_bid" /\ r.status = "active" /\ s = [r EXCEPT !.highest = @ + 1]
  \/ type = "closed" /\ r.status = "active" /\ s = [r EXCEPT !.status = "closed"]
  \/ type = "cancelled" /\ r.status = "active" /\ s = [r EXCEPT !.status = "cancelled"]
  \/ type = "settled" /\ r.status = "closed" /\ s = [r EXCEPT !.status = "settled"]

LEMMA TracksHandle ==
  ASSUME NEW q \in Seq(Events), NEW v, NEW ans, NEW r \in Rows, NEW a, NEW m,
         Tracks(q, v, ans, r, a, m),
         NEW e \in Events, NEW s \in Rows, Moved(r, e.type, s),
         e.auction = a, e.amount = s.highest
  PROVE  Tracks(Append(q, e), v, ans, s, a, m)
<1>. DEFINE p == Append(q, e)
<1>1. /\ NoBid(p, a) <=> e.type # "new_bid" /\ NoBid(q, a)
      /\ \A types : Has(p, a, types) <=> Has(q, a, types) \/ e.type \in types
      /\ (IF e.type = "new_bid" THEN e.amount = s.highest ELSE LastBidIs(q, a, s.highest))
          => LastBidIs(p, a, s.highest)
  BY HasAppend, LastBidAppend DEF NoBid
<1>. HIDE DEF p
<1>2. e.type # "new_bid" => s.highest = r.highest
  BY DEF Moved, Rows
<1>3. BidTracked(p, v, ans, s, a)
  <2>1. LastBidIs(p, a, s.highest)
    BY <1>1, <1>2 DEF Tracks, BidTracked
  <2>. QED
    BY <1>1, <1>2, <2>1 DEF Tracks, BidTracked
<1>4. StatusTracked(p, v, ans, s, a, m)
  <2>1. /\ KnowsClosed(p, v, a) <=> KnowsClosed(q, v, a) \/ e.type \in {"closed", "cancelled"}
        /\ KnowsSettled(p, v, a) <=> KnowsSettled(q, v, a) \/ e.type = "settled"
    BY <1>1 DEF KnowsClosed, KnowsSettled
  <2>2. CASE e.type = "new_bid"
    <3>1. s.status = r.status
      BY <2>2 DEF Moved, Rows
    <3>. QED
      BY <2>1, <2>2, <3>1 DEF Tracks, StatusTracked
  <2>3. CASE e.type \in {"closed", "cancelled"}
    <3>1. r.status = "active" /\ s.status = e.type
      BY <2>3 DEF Moved, Rows
    <3>. QED
      BY <2>1, <2>3, <3>1 DEF Tracks, StatusTracked
  <2>4. CASE e.type = "settled"
    <3>1. s.status = "settled"
      BY <2>4 DEF Moved, Rows
    <3>. QED
      BY <2>1, <2>4, <3>1 DEF Tracks, StatusTracked
  <2>. QED
    BY <2>2, <2>3, <2>4 DEF Events, EventTypes
<1>. QED
  BY <1>3, <1>4 DEF Tracks, p

(* Nothing left to hear or to wait for, and the effects have run: the view is the row. *)
LEMMA TracksShows ==
  ASSUME NEW q, NEW v \in Views, NEW r \in Rows, NEW a, NEW m \in BOOLEAN,
         NoneOf(q, a), Tracks(q, v, {}, r, a, m), v.auction # None, v = Merged(v)
  PROVE  /\ v.auction.highest = r.highest
         /\ \/ v.auction.status = r.status
            \/ r.status = "cancelled" /\ v.auction.status = "closed"
            \/ m /\ v.auction.status = "closed"
<1>0. /\ NoBid(q, a)
      /\ KnowsClosed(q, v, a) <=> v.auctionClosed
      /\ KnowsSettled(q, v, a) <=> v.auctionSettled
      /\ v.auctionClosed \in BOOLEAN /\ v.auctionSettled \in BOOLEAN
  BY QueueEmpty DEF NoBid, KnowsClosed, KnowsSettled, Views
<1>1. /\ v.auction.highest = IF v.latestBid = None THEN v.auction.highest ELSE v.latestBid
      /\ v.auction.status = IF v.auctionSettled THEN "settled"
                            ELSE IF v.auctionClosed THEN "closed" ELSE v.auction.status
  BY MergedShape
<1>2. v.auction.highest = r.highest
  BY <1>0, <1>1 DEF Tracks, BidTracked
<1>3. CASE v.auctionSettled
  BY <1>0, <1>1, <1>2, <1>3 DEF Tracks, StatusTracked
<1>4. CASE ~v.auctionSettled /\ v.auctionClosed
  BY <1>0, <1>1, <1>2, <1>4 DEF Tracks, StatusTracked, Rows, Statuses
<1>5. CASE ~v.auctionSettled /\ ~v.auctionClosed
  BY <1>0, <1>2, <1>5 DEF Tracks, StatusTracked
<1>. QED
  BY <1>0, <1>3, <1>4, <1>5

LEMMA ViewTyped ==
  ASSUME TypeOK
  PROVE  /\ view \in Views /\ answers \subseteq Answers /\ fetches \in Nat
         /\ misled \in BOOLEAN /\ blind \in BOOLEAN
         /\ Live(shown) => shown \in Auctions /\ shown # None /\ row[shown] \in Rows
         /\ ~Live(None)
         /\ row \in [Auctions -> Rows]
         /\ Queue \in Seq(Events)
<1>1. fetches \in Nat
  BY BoundsAssumption DEF TypeOK
<1>2. /\ view \in Views /\ answers \subseteq Answers /\ row \in [Auctions -> Rows]
      /\ misled \in BOOLEAN /\ blind \in BOOLEAN
  BY TypeParts DEF PageTyped, RowTyped, HistoryTyped
<1>3. Live(shown) => shown \in Auctions /\ shown # None
  BY TypeParts DEF PageTyped, Live
<1>4. Queue \in Seq(Events)
  <2>1. <<>> \in Seq(Events)
    BY EmptySeq
  <2>. QED
    BY <2>1, TypeParts DEF Queue, SocketTyped
<1>. QED
  BY <1>1, <1>2, <1>3, <1>4 DEF Live

LEMMA ViewMount ==
  ASSUME TypeOK, ViewInv, NEW a \in Auctions, Mount(a)
  PROVE  ViewInv'
<1>1. /\ shown' = a /\ UNCHANGED <<fetches, answers, view, conn, down, row, misled>>
      /\ fetches = 0 /\ view = NoView /\ answers = {} /\ misled = FALSE
      /\ blind' = Coming(a) /\ a # None /\ view.auction = None
  BY NoneAssumption, BoundsAssumption DEF Mount, ViewInv
<1>2. Queue' = Queue
  BY <1>1 DEF Queue
<1>3. ASSUME ~blind' PROVE Tracks(Queue, NoView, {}, row[a], a, FALSE)
  BY <1>1, <1>3, ComingIs, TracksStart
<1>. QED
  BY <1>1, <1>2, <1>3 DEF ViewInv

LEMMA ViewUnmount ==
  ASSUME Unmount
  PROVE  ViewInv'
<1>1. shown' = None /\ fetches' = 0 /\ answers' = {} /\ view' = NoView /\ misled' = FALSE
  BY DEF Unmount
<1>2. ~Live(None) /\ NoView.auction = None
  BY DEF Live, NoView
<1>. QED
  BY <1>1, <1>2 DEF ViewInv

LEMMA ViewFetch ==
  ASSUME TypeOK, ViewInv, Fetch
  PROVE  ViewInv'
<1>1. /\ UNCHANGED <<shown, view, row, conn, down, blind, misled>> /\ shown # None
      /\ answers' = answers \union {[n |-> fetches + 1, row |-> row[shown]]}
      /\ fetches' # 0
  BY ViewTyped DEF Fetch, socket, history
<1>2. Queue' = Queue
  BY <1>1 DEF Queue
<1>. QED
  BY <1>1, <1>2, TracksFetch DEF ViewInv

LEMMA ViewFetched ==
  ASSUME TypeOK, ViewInv, NEW r \in answers, Fetched(r)
  PROVE  ViewInv'
<1>1. /\ UNCHANGED <<shown, fetches, row, conn, down, blind, misled>>
      /\ answers' = answers \ {r}
      /\ view' = [view EXCEPT !.auction = r.row] \/ view' = view
      /\ fetches # 0 /\ shown # None
  BY DEF Fetched, socket, history, ViewInv
<1>2. Queue' = Queue
  BY <1>1 DEF Queue
<1>3. ASSUME Live(shown), ~blind
      PROVE  Tracks(Queue, view', answers', row[shown], shown, misled)
  <2>1. Tracks(Queue, view', answers, row[shown], shown, misled)
    BY <1>1, <1>3, TracksAnswer, ViewTyped DEF ViewInv
  <2>. QED
    BY <1>1, <2>1, TracksDrop
<1>. QED
  BY <1>1, <1>2, <1>3 DEF ViewInv

LEMMA ViewEffects ==
  ASSUME TypeOK, ViewInv, Effects
  PROVE  ViewInv'
<1>1. /\ UNCHANGED <<shown, fetches, answers, row, conn, down, blind, misled>>
      /\ view.auction # None /\ view' = Merged(view)
      /\ fetches # 0 /\ view # NoView /\ shown # None
  BY DEF Effects, socket, history, ViewInv, NoView
<1>2. Queue' = Queue
  BY <1>1 DEF Queue
<1>3. ASSUME Live(shown), ~blind
      PROVE  Tracks(Queue, view', answers, row[shown], shown, misled)
  BY <1>1, <1>3, TracksMerged, ViewTyped DEF ViewInv
<1>. QED
  BY <1>1, <1>2, <1>3 DEF ViewInv

(* What the page missed cannot be of its auction, or it knows nothing yet. *)
LEMMA ViewMissed ==
  ASSUME TypeOK, ViewInv, Live(shown), ~blind, ~Asked, NEW q, NoneOf(q, shown), NEW r
  PROVE  Tracks(q, view, answers, r, shown, misled)
<1>1. view = NoView /\ fetches = 0 /\ answers = {}
  BY ViewTyped DEF Asked, ViewInv
<1>2. misled = FALSE
  BY <1>1, ViewTyped DEF ViewInv, Tracks, StatusTracked, NoView
<1>. QED
  BY <1>1, <1>2, TracksStart

LEMMA ViewConnect ==
  ASSUME TypeOK, ConnsInv, ViewInv, Connect
  PROVE  ViewInv'
<1>1. /\ UNCHANGED <<shown, fetches, answers, view, row, down, blind, misled>>
      /\ conn = None /\ conn' = conns + 1 /\ conns + 1 \in Conns /\ conns + 1 > conns
  BY BoundsAssumption DEF Connect, Trying, TypeOK, Conns, history
<1>2. Queue' = <<>> /\ Queue = <<>>
  BY <1>1, ConnParts DEF ConnsInv, Queue
<1>. QED
  BY <1>1, <1>2 DEF ViewInv

LEMMA ViewOnDisconnect ==
  ASSUME TypeOK, ViewInv, OnDisconnect
  PROVE  ViewInv'
<1>1. /\ UNCHANGED <<shown, fetches, answers, view, row, misled>> /\ conn' = None
      /\ blind' = (blind \/ (shown # None /\ Asked /\ Coming(shown)))
  BY DEF OnDisconnect
<1>2. Queue' = <<>>
  BY <1>1 DEF Queue
<1>3. ASSUME Live(shown), ~blind'
      PROVE  Tracks(<<>>, view, answers, row[shown], shown, misled)
  <2>1. ~blind /\ shown # None /\ (~Asked \/ ~Coming(shown))
    BY <1>1, <1>3, ViewTyped, BlindSources
  <2>2. CASE ~Asked
    BY <1>3, <2>1, <2>2, ViewMissed, ComingIs
  <2>3. CASE ~Coming(shown)
    <3>1. NoneOf(Queue, shown) /\ NoneOf(<<>>, shown)
      BY <2>3, ComingIs
    <3>2. Tracks(Queue, view, answers, row[shown], shown, misled)
      BY <1>3, <2>1 DEF ViewInv
    <3>. QED
      BY <3>1, <3>2, QueueEmpty, TracksQueue
  <2>. QED
    BY <2>1, <2>2, <2>3
<1>. QED
  BY <1>1, <1>2, <1>3 DEF ViewInv

LEMMA ViewDeliver ==
  ASSUME TypeOK, TypeOK', ViewInv, Deliver
  PROVE  ViewInv'
<1>. DEFINE e == Head(down[conn])
<1>1. /\ UNCHANGED <<shown, fetches, answers, row, conn>>
      /\ conn # None /\ conn \in Conns /\ down[conn] # <<>> /\ down[conn] \in Seq(Events)
      /\ down'[conn] = Tail(down[conn])
      /\ IF Live(shown) THEN OnEvent(e) ELSE UNCHANGED <<view, history>>
  BY DEF Deliver, TypeOK, Events
<1>2. Queue = down[conn] /\ Queue' = Tail(down[conn])
  BY <1>1 DEF Queue
<1>3. e \in Events
  BY <1>1, TailAt
<1>4. Live(shown) => view'.auction = view.auction
  BY <1>1, <1>3, ViewTyped DEF OnEvent, Views, Events, EventTypes
<1>5. ASSUME Live(shown), ~blind'
      PROVE  Tracks(Queue', view', answers, row[shown], shown, misled')
  <2>1. OnEvent(e) /\ misled \in BOOLEAN /\ misled' \in BOOLEAN
    BY <1>1, <1>5, ViewTyped DEF TypeOK
  <2>2. LET mine == e.auction = shown IN
        /\ ~blind
        /\ view'.auction = view.auction
        /\ view'.latestBid = IF mine /\ e.type = "new_bid" THEN e.amount ELSE view.latestBid
        /\ view'.auctionClosed
             <=> view.auctionClosed \/ (mine /\ e.type = "closed") \/ e.type = "cancelled"
        /\ view'.auctionSettled <=> view.auctionSettled \/ (mine /\ e.type = "settled")
        /\ misled' <=> misled \/ (~mine /\ e.type = "cancelled")
        /\ e.amount # None
    BY <1>3, <1>5, <2>1, Hears
  <2>3. Tracks(down[conn], view, answers, row[shown], shown, misled)
    BY <1>2, <1>5, <2>2 DEF ViewInv
  <2>. QED
    BY <1>1, <1>2, <2>1, <2>2, <2>3, TracksDeliver
<1>6. CASE Live(shown)
  <2>1. fetches' = 0 => answers' = {} /\ view'.auction = None
    BY <1>1, <1>4, <1>6 DEF ViewInv
  <2>2. shown' # None
    BY <1>1, <1>6, ViewTyped
  <2>. QED
    BY <1>1, <1>5, <1>6, <2>1, <2>2 DEF ViewInv
<1>7. CASE ~Live(shown)
  BY <1>1, <1>7 DEF ViewInv, history
<1>. QED
  BY <1>6, <1>7

LEMMA ViewHandle ==
  ASSUME TypeOK, TypeOK', ViewInv, NEW a \in Eventful, NEW type \in EventTypes,
         Handle(a, type)
  PROVE  ViewInv'
<1>1. /\ UNCHANGED <<shown, fetches, answers, view, conn, misled>> /\ a \in Auctions
      /\ blind' = (blind \/ (a = shown /\ (Asked \/ Coming(a)) /\ down' = down))
  BY BoundsAssumption DEF Handle, page
<1>. DEFINE s == row'[a]
            e == [type |-> type, auction |-> a, amount |-> s.highest]
<1>2. row' = [row EXCEPT ![a] = s] /\ Moved(row[a], type, s) /\ s \in Rows
  <2>1. row \in [Auctions -> Rows] /\ row[a] \in Rows
    BY <1>1, ViewTyped
  <2>2. PICK x : row' = [row EXCEPT ![a] = x] /\ Moved(row[a], type, x)
    BY DEF Handle, Moved
  <2>3. s = x
    BY <1>1, <2>1, <2>2
  <2>4. s \in Rows
    BY <1>1 DEF TypeOK
  <2>. QED
    BY <2>2, <2>3, <2>4
<1>3. e \in Events
  BY <1>1, <1>2 DEF Events, Rows
<1>4. \/ down' = down
      \/ /\ conn \in Conns /\ conn # None
         /\ down' = [down EXCEPT ![conn] = Append(@, e)]
  BY ConnParts DEF Handle, Broadcast
<1>5. (down' = down /\ Queue' = Queue) \/ (Queue' = Append(Queue, e) /\ down' # down)
  <2>1. CASE down' = down
    BY <1>1, <2>1 DEF Queue
  <2>2. CASE down' # down
    BY <1>1, <1>4, <2>2 DEF Queue, TypeOK
  <2>. QED
    BY <2>1, <2>2
<1>. HIDE DEF s
<1>6. ASSUME Live(shown), ~blind'
      PROVE  Tracks(Queue', view, answers, row'[shown], shown, misled)
  <2>1. ~blind /\ Tracks(Queue, view, answers, row[shown], shown, misled)
    BY <1>1, <1>6, ViewTyped DEF ViewInv
  <2>2. shown \in Auctions /\ row[shown] \in Rows /\ Queue \in Seq(Events)
    BY <1>6, ViewTyped
  <2>3. CASE a = shown
    <3>1. row'[shown] = s
      BY <2>3 DEF s
    <3>2. CASE Queue' = Append(Queue, e) /\ down' # down
      <4>1. e.type = type /\ e.auction = shown /\ e.amount = s.highest
        BY <2>3
      <4>. HIDE DEF e
      <4>. QED
        BY <1>2, <1>3, <2>1, <2>2, <2>3, <3>1, <3>2, <4>1, TracksHandle
    <3>3. CASE down' = down
      <4>1. ~Asked /\ ~Coming(shown) /\ Queue' = Queue
        BY <1>1, <1>6, <2>3, <3>3, BlindSources DEF Queue
      <4>2. NoneOf(Queue, shown)
        BY <4>1, ComingIs
      <4>3. Tracks(Queue, view, answers, s, shown, misled)
        BY <1>6, <2>1, <4>1, <4>2, ViewMissed
      <4>. QED
        BY <3>1, <4>1, <4>3
    <3>. QED
      BY <1>5, <3>2, <3>3
  <2>4. CASE a # shown
    <3>1. row'[shown] = row[shown]
      BY <1>2, <2>2, <2>4, ViewTyped
    <3>2. CASE Queue' = Append(Queue, e)
      <4>1. e.auction # shown
        BY <2>4
      <4>. HIDE DEF e
      <4>2. \A types : Has(Append(Queue, e), shown, types) <=> Has(Queue, shown, types)
        BY <1>3, <2>2, <4>1, HasAppend
      <4>3. LastBidIs(Append(Queue, e), shown, row[shown].highest)
        BY <1>3, <2>1, <2>2, <4>1, LastBidAppend DEF Tracks, BidTracked
      <4>. QED
        BY <2>1, <3>1, <3>2, <4>2, <4>3, TracksQueue
    <3>. QED
      BY <1>5, <2>1, <3>1, <3>2
  <2>. QED
    BY <2>3, <2>4
<1>. QED
  BY <1>1, <1>6 DEF ViewInv

LEMMA ViewFrame ==
  ASSUME ViewInv, UNCHANGED <<shown, fetches, answers, view, row, conn, down, history>>
  PROVE  ViewInv'
<1>1. Queue' = Queue
  BY DEF Queue
<1>. QED
  BY <1>1 DEF ViewInv, history

LEMMA ViewStep ==
  ASSUME TypeOK, TypeOK', ConnsInv, ViewInv, [Next]_vars
  PROVE  ViewInv'
<1>1. CASE Page
  BY <1>1, ViewMount, ViewUnmount, ViewFetch, ViewFetched, ViewEffects DEF Page
<1>2. CASE ConnectFails
  BY <1>2, ViewFrame DEF ConnectFails, page
<1>3. CASE Socket
  BY <1>2, <1>3, ViewConnect, ViewOnDisconnect, ViewDeliver DEF Socket
<1>4. ASSUME NEW c \in Conns, Receive(c) \/ Disconnected(c) PROVE ViewInv'
  BY <1>4, ViewFrame DEF Receive, Disconnected, page
<1>5. CASE Restart
  BY <1>5, ViewFrame DEF Restart, page
<1>6. CASE Server
  BY <1>4, <1>5, <1>6, ViewHandle DEF Server
<1>7. CASE Authentication
  BY <1>7, ViewFrame DEF Authentication, RequestNonce, CleanNonces, JoinBidder, LeaveBidder,
                         Authenticate, server, socket, page
<1>8. CASE UNCHANGED vars
  BY <1>8, ViewFrame DEF vars, socket, page
<1>. QED
  BY <1>1, <1>3, <1>6, <1>7, <1>8 DEF Next

LEMMA ViewInit == Init => ViewInv
BY DEF Init, ViewInv, NoView, Live

(* Once its answers have come and no event of its auction is coming, a page shows its
   auction as it is, in whatever order they came.  Excused is a page that is blind: an
   event of its auction was not sent to it, or was lost with its connection, after it had
   asked for the auction or while an older event was coming; or events of an earlier
   visit were coming when it opened; or another auction's event took the place of one it
   kept.  And one misled by another auction's cancellation may show "closed". *)
THEOREM ViewCatchesUpHolds == Spec => []ViewCatchesUp
<1>1. Spec => []TypeOK
  BY LiveTypes
<1>2. Spec => []ConnsInv
  BY <1>1, RoomsInit, ConnsStep, PTL DEF Spec
<1>3. Spec => []ViewInv
  BY <1>1, <1>2, ViewInit, ViewStep, PTL DEF Spec
<1>4. TypeOK /\ ViewInv => ViewCatchesUp
  <2>. SUFFICES ASSUME TypeOK, ViewInv, Quiet, ~blind
                PROVE  /\ view.auction.highest = row[shown].highest
                       /\ ShowsStatus \/ (misled /\ view.auction.status = "closed")
    BY DEF ViewCatchesUp
  <2>1. Tracks(Queue, view, {}, row[shown], shown, misled) /\ NoneOf(Queue, shown)
    BY ComingIs DEF ViewInv, Quiet
  <2>. QED
    BY <2>1, TracksShows, ViewTyped DEF Quiet, ShowsStatus
<1>. QED
  BY <1>1, <1>3, <1>4, PTL
=============================================================================
