--------------------------- MODULE CustodianPortal ---------------------------
(***************************************************************************)
(* The custodian's portal (custodian-portal/src/app/page.tsx): a certificate *)
(* is hashed, uploaded, and its hash attested on chain.  One certificate is  *)
(* held for the whole list of pending items.  The invocation itself is that  *)
(* of AuctionPage; here it may take effect or not, be reported or not.       *)
(***************************************************************************)
EXTENDS Uploads

CONSTANTS
  Certificates,
  Items,        \* auction ids
  DemoItems,    \* ids the portal shows when the backend has none: 101 and 102
  MaxFiles,     \* bound: files chosen
  MaxAttests,   \* bound: attestations sent
  MaxLoads      \* bound: times the list is loaded

ASSUME ItemsAssumption == DemoItems \subseteq Items
ASSUME PortalBounds == MaxFiles \in Nat /\ MaxAttests \in Nat /\ MaxLoads \in Nat

VARIABLES
  pendingAttestations,    \* ids
  completedAttestations,  \* ids
  uploadedFile, docHash,  \* the certificate each stems from, or None
  jobs,                   \* handleFileUpload runs: [n, doc, pc]
  attestingId,
  sent,                   \* attest_physical_item invocations: [n, item, hash, pc]
  files, attests, loads,
  attestation_hash,       \* the contract: item -> certificate, or None
  overlapped              \* two files were being processed at once

portalVars == <<pendingAttestations, completedAttestations, uploadedFile, docHash, jobs,
                attestingId, sent, files, attests, loads, attestation_hash, overlapped>>

InitPortal ==
  /\ pendingAttestations = {} /\ completedAttestations = {}
  /\ uploadedFile = None /\ docHash = None
  /\ jobs = {} /\ attestingId = None /\ sent = {}
  /\ files = 0 /\ attests = 0 /\ loads = 0
  /\ attestation_hash = [i \in Items |-> None]
  /\ overlapped = FALSE

(* fetchPendingAttestations, when the wallet connects: rows is the backend's answer.  It
   ignores item_type, and lags.  A failure leaves the list. *)
LoadPending(rows) ==
  /\ loads < MaxLoads
  /\ loads' = loads + 1
  /\ pendingAttestations' = IF rows = {} THEN DemoItems ELSE rows
  /\ UNCHANGED <<completedAttestations, uploadedFile, docHash, jobs, attestingId, sent,
                 files, attests, attestation_hash, overlapped, stored>>

Holding(file, hash) == uploadedFile' = file /\ docHash' = hash

(* handleFileUpload.  Every pending item has an input while no file is held. *)
ChooseFile(doc) ==
  /\ pendingAttestations # {} /\ uploadedFile = None
  /\ files < MaxFiles
  /\ files' = files + 1
  /\ Holding(None, None)
  /\ jobs' = jobs \union {[n |-> files + 1, doc |-> doc, pc |-> "hash"]}
  /\ overlapped' = (overlapped \/ jobs # {})
  /\ UNCHANGED <<pendingAttestations, completedAttestations, attestingId, sent, attests,
                 loads, attestation_hash, stored>>

(* computeDocumentHash has been awaited. *)
Hashed(j) ==
  /\ j \in jobs /\ j.pc = "hash"
  /\ \/ /\ docHash' = j.doc
        /\ jobs' = (jobs \ {j}) \union {[j EXCEPT !.pc = "upload"]}
     \/ jobs' = jobs \ {j} /\ UNCHANGED docHash
  /\ UNCHANGED <<pendingAttestations, completedAttestations, uploadedFile, attestingId,
                 sent, files, attests, loads, attestation_hash, overlapped, stored>>

(* uploadToPinata has been awaited. *)
Pinned(j, ok) ==
  /\ j \in jobs /\ j.pc = "upload"
  /\ POST(j.doc, ok)
  /\ uploadedFile' = IF Succeeds(ok) THEN j.doc ELSE uploadedFile
  /\ jobs' = jobs \ {j}
  /\ UNCHANGED <<pendingAttestations, completedAttestations, docHash, attestingId, sent,
                 files, attests, loads, attestation_hash, overlapped>>

RemoveFile ==
  /\ uploadedFile # None
  /\ Holding(None, None)
  /\ UNCHANGED <<pendingAttestations, completedAttestations, jobs, attestingId, sent,
                 files, attests, loads, attestation_hash, overlapped, stored>>

BugReady == docHash # None
Ready    == uploadedFile # None /\ docHash # None

Attest(item) ==
  /\ item \in pendingAttestations /\ attestingId # item
  /\ Ready
  /\ attests < MaxAttests
  /\ attests' = attests + 1
  /\ attestingId' = item
  /\ sent' = sent \union {[n |-> attests + 1, item |-> item, hash |-> docHash, awaited |-> TRUE]}
  /\ UNCHANGED <<pendingAttestations, completedAttestations, uploadedFile, docHash, jobs,
                 files, loads, attestation_hash, overlapped, stored>>

(* The contract takes the transaction, now or after the portal stopped waiting: a
   second attestation overwrites the first. *)
Recorded(t, accepted) ==
  /\ t \in sent
  /\ attestation_hash' = IF accepted THEN [attestation_hash EXCEPT ![t.item] = t.hash]
                         ELSE attestation_hash
  /\ sent' = IF t.awaited THEN sent ELSE sent \ {t}
  /\ UNCHANGED <<pendingAttestations, completedAttestations, uploadedFile, docHash, jobs,
                 attestingId, files, attests, loads, overlapped, stored>>

(* invokeContract returns, or throws. *)
Attested(t, success) ==
  /\ t \in sent /\ t.awaited
  /\ sent' = (sent \ {t}) \union {[t EXCEPT !.awaited = FALSE]}
  /\ IF success
     THEN /\ completedAttestations' = completedAttestations \union {t.item}
          /\ pendingAttestations' = pendingAttestations \ {t.item}
          /\ Holding(None, None)
     ELSE UNCHANGED <<completedAttestations, pendingAttestations, uploadedFile, docHash>>
  /\ attestingId' = None
  /\ UNCHANGED <<jobs, files, attests, loads, attestation_hash, overlapped, stored>>

-----------------------------------------------------------------------------

TypeOKPortal ==
  /\ pendingAttestations \subseteq Items /\ completedAttestations \subseteq Items
  /\ uploadedFile \in Certificates \union {None} /\ docHash \in Certificates \union {None}
  /\ jobs \subseteq [n : 1 .. MaxFiles, doc : Certificates, pc : {"hash", "upload"}]
  /\ attestingId \in Items \union {None}
  /\ sent \subseteq [n : 1 .. MaxAttests, item : Items, hash : Certificates,
                     awaited : BOOLEAN]
  /\ files \in 0 .. MaxFiles /\ attests \in 0 .. MaxAttests /\ loads \in 0 .. MaxLoads
  /\ attestation_hash \in [Items -> Certificates \union {None}]
  /\ overlapped \in BOOLEAN

(* "The portal computes a verifiable SHA-256 hash committed directly onto the Stellar
   blockchain": a hash on chain is that of a certificate that can be fetched from IPFS.
   It is so while one file is processed at a time, although uploads fail, transactions
   land late, and all items share the held certificate.  It is not when a second file is
   chosen while the first is processed: the hash of the one that fails to upload may be
   held with the other. *)
HashVerifiable == \A i \in Items : attestation_hash[i] # None => attestation_hash[i] \in stored
AttestedIsStored == ~overlapped => HashVerifiable
=============================================================================
