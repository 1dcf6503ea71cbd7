---------------------------- MODULE MCLiveUpdates ----------------------------
(* Model values for LiveUpdates, and what the run leaves out. *)
EXTENDS LiveUpdates

CONSTANTS g1, g2

(* Nobody has used a socket to authenticate. *)
Anonymous == issued = 0 /\ \A c \in Conns : authenticatedSockets[c] = {}

(* The page has not asked for its auction, and no auction had an event. *)
Unheard == fetches = 0 /\ \A a \in Auctions : row[a].status = "active" /\ row[a].highest = 0

(* Events of auction a so far. *)
Events(a) ==
  row[a].highest + (CASE row[a].status = "active"  -> 0
                      [] row[a].status = "settled" -> 2
                      [] OTHER -> 1)

(* A connection breaks, at the server or at a client that did not have to notice. *)
Breaks == alive \ alive' # {} \/ (conn \in alive /\ conn' = None)

(* Each of three parts of the system is explored while the others rest: three visits, to
   pages with a room and without; two visits with requests and three events; and
   authentication on the sockets of one visit.  The first page with a room is that of
   auction 1, for 1 and 2 are alike.  No action that fairness is about is held back. *)
Apart ==
  /\ shown' # shown => /\ Anonymous
                       /\ Unheard \/ shown' = None \/ (mounts < 2 /\ shown' # 0)
                       /\ shown' = 2 => mounts > 0
  /\ attempts' > attempts => Anonymous /\ Unheard
  /\ fetches' > fetches => Anonymous /\ mounts <= 2 /\ (fetches = 0 \/ conns <= 1)
  /\ row' # row => /\ Anonymous /\ mounts <= 2
                   /\ Events(1) + Events(2) < (IF conns <= 1 THEN 3 ELSE 2)
  /\ Breaks => fetches <= 1 /\ Events(1) + Events(2) <= 2
  /\ auth' # auth => Unheard /\ mounts = 1 /\ shown = 1 /\ attempts = 0

Explored == Init /\ [][Next /\ Apart]_vars

FairlyExplored == Explored /\ Fairness
=============================================================================
