------------------------------- MODULE Uploads -------------------------------
(***************************************************************************)
(* The upload proxies of the two web applications                           *)
(* (frontend and custodian-portal, src/app/api/ipfs/upload/route.ts) in     *)
(* front of Pinata.  A request may fail before the document is stored (rate *)
(* limit, no JWT, bad form, type, size, Pinata), or after, when only the    *)
(* answer is lost.                                                          *)
(***************************************************************************)
EXTENDS Integers, FiniteSets

CONSTANT None

VARIABLE stored     \* documents on IPFS

POST(doc, ok) ==
  \/ ok /\ stored' = stored \union {doc}
  \/ ~ok /\ stored' \in {stored, stored \union {doc}}

BugSucceeds(ok) == TRUE

(* uploadFile, uploadMetadata, uploadToPinata: throw unless response.ok. *)
Succeeds(ok) == ok
=============================================================================
