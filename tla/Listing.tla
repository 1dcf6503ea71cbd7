------------------------------- MODULE Listing -------------------------------
(***************************************************************************)
(* A seller's create page and a custodian's portal together: auctions the   *)
(* one lists appear, some time later, in the list of the other, and         *)
(* attestations reach the contract for auctions that exist.                 *)
(***************************************************************************)
EXTENDS CreatePage, CustodianPortal

ASSUME ItemsAreAuctions == 1 .. MaxListings \subseteq Items

vars == <<stored, createVars, portalVars>>

Init == stored = {} /\ InitCreate /\ InitPortal

(* The auctions the backend has indexed; it may not know of an attestation yet.  Bound:
   the portal is opened once something was submitted. *)
Load == listings > 0 /\ \E rows \in SUBSET (DOMAIN listed) : LoadPending(rows)

(* The contract has an auction of that number, physical or not. *)
Record(t) == \E accepted \in {FALSE, t.item \in DOMAIN listed} : Recorded(t, accepted)

NextPortal ==
  \/ Load
  \/ \E doc \in Certificates : ChooseFile(doc)
  \/ \E j \in jobs : Hashed(j) \/ \E ok \in BOOLEAN : Pinned(j, ok)
  \/ RemoveFile
  \/ \E item \in Items : Attest(item)
  \/ \E t \in sent : Record(t) \/ \E success \in BOOLEAN : Attested(t, success)

Next ==
  \/ NextCreate /\ UNCHANGED portalVars
  \/ NextPortal /\ UNCHANGED createVars

Spec == Init /\ [][Next]_vars

(* Type invariant. *)
TypeOK ==
  /\ stored \subseteq Images \union Json \union Certificates
  /\ TypeOKCreate /\ TypeOKPortal
=============================================================================
