-------------------------------- MODULE Sale --------------------------------
(***************************************************************************)
(* What an auction promises its bidders, whatever its format: it is open    *)
(* until it is sold once, to one winner at one price that the winner has    *)
(* paid in, or is void; the seller is paid once; what a bidder pays in      *)
(* stays his until he takes it out, except the price of what he won.        *)
(***************************************************************************)
EXTENDS Integers

CONSTANTS Sales, Buyers, None

VARIABLES phase, winner, price, paid_in

vars == <<phase, winner, price, paid_in>>

Phases == {"NotListed", "Open", "Sold", "Paid", "Void"}

Init ==
  /\ phase = [s \in Sales |-> "NotListed"]
  /\ winner = [s \in Sales |-> None]
  /\ price = [s \in Sales |-> 0]
  /\ paid_in = [s \in Sales |-> [b \in Buyers |-> 0]]

(* phase[s] goes from one to another of these; nothing else about s changes. *)
Move(s, from, to) ==
  /\ phase[s] = from
  /\ phase' = [phase EXCEPT ![s] = to]

Pays(s, b, amount) == paid_in' = [paid_in EXCEPT ![s][b] = @ + amount]

Award(s, b, amount) ==
  /\ winner' = [winner EXCEPT ![s] = b]
  /\ price' = [price EXCEPT ![s] = amount]

List(s) == Move(s, "NotListed", "Open") /\ UNCHANGED <<winner, price, paid_in>>

PayIn(s, b) ==
  /\ phase[s] = "Open"
  /\ paid_in'[s][b] >= paid_in[s][b]
  /\ Pays(s, b, paid_in'[s][b] - paid_in[s][b])
  /\ UNCHANGED <<phase, winner, price>>

(* The winner leaves the price in; nobody takes out more than he paid. *)
TakeOut(s, b) ==
  /\ phase[s] # "NotListed"
  /\ paid_in'[s][b] < paid_in[s][b]
  /\ paid_in'[s][b] >= IF winner[s] = b THEN price[s] ELSE 0
  /\ Pays(s, b, paid_in'[s][b] - paid_in[s][b])
  /\ UNCHANGED <<phase, winner, price>>

(* Sold to a bidder who has the price in. *)
Sell(s, b) ==
  /\ Move(s, "Open", "Sold")
  /\ price'[s] <= paid_in[s][b]
  /\ Award(s, b, price'[s])
  /\ UNCHANGED paid_in

(* Sold on the spot to one who pays the price. *)
Buy(s, b) ==
  /\ Move(s, "Open", "Sold")
  /\ price'[s] >= 0
  /\ Award(s, b, price'[s])
  /\ Pays(s, b, price'[s])

Annul(s)     == Move(s, "Open", "Void") /\ UNCHANGED <<winner, price, paid_in>>
PaySeller(s) == Move(s, "Sold", "Paid") /\ UNCHANGED <<winner, price, paid_in>>

Next ==
  \E s \in Sales :
    \/ List(s) \/ Annul(s) \/ PaySeller(s)
    \/ \E b \in Buyers : PayIn(s, b) \/ TakeOut(s, b) \/ Sell(s, b) \/ Buy(s, b)

Spec == Init /\ [][Next]_vars
=============================================================================
