---------------------------- MODULE ListingProofs ----------------------------
(***************************************************************************)
(* The create page and the custodian's portal, for any documents, number of *)
(* uploads, visits and attestations: what an auction's metadata names and   *)
(* what an attestation hashes can be fetched from IPFS.                     *)
(***************************************************************************)
EXTENDS Listing, FiniteSetTheorems, TLAPS

(* The create page. *)

(* An upload carries the kind of document its handler expects, and was begun by a widget
   of this visit or an earlier one. *)
UploadsOK ==
  \A u \in running :
    /\ u.kind = "image" => u.doc \in Images
    /\ u.kind = "metadata" => u.doc \in Json
    /\ u.visit <= visit /\ u.mount <= mount

(* One metadata upload per widget and one submission per visit. *)
OneEach ==
  /\ \A u, w \in running :
       u.kind = "metadata" /\ w.kind = "metadata" /\ u.visit = w.visit /\ u.mount = w.mount
       => u = w
  /\ \A s \in submissions : s.visit <= visit
  /\ \A s, t \in submissions : s.visit = t.visit => s = t

(* The auctions listed and those on their way were all submitted. *)
Submissions ==
  /\ IsFiniteSet(submissions)
  /\ \A s \in submissions : s.n <= listings
  /\ Len(listed) + Cardinality(submissions) <= listings

ImageStored(doc) == doc.image # None => doc.image \in stored
Fetchable(doc)   == doc \in stored /\ ImageStored(doc)

(* Nothing is named before it is stored. *)
NamedIsStored ==
  /\ imageCidUri # None => imageCidUri \in stored
  /\ metadataUri # None => Fetchable(metadataUri)
  /\ \A u \in running : u.kind = "metadata" => ImageStored(u.doc)
  /\ \A s \in submissions : Fetchable(s.uri)
  /\ \A i \in DOMAIN listed : Fetchable(listed[i])

CreateTypes ==
  /\ step \in 1 .. 3
  /\ imageCidUri \in Images \union {None} /\ metadataUri \in Json \union {None}
  /\ visit \in 1 .. MaxVisits /\ mount \in 0 .. MaxVisits
  /\ running \subseteq [kind : {"image", "metadata"}, doc : Images \union Json,
                        n : 1 .. MaxUploads, visit : 1 .. MaxVisits, mount : 1 .. MaxVisits]
  /\ uploads \in 0 .. MaxUploads /\ listings \in 0 .. MaxListings
  /\ submissions \subseteq [n : 1 .. MaxListings, uri : Json, visit : 1 .. MaxVisits]
  /\ listed \in Seq(Json)
  /\ step = 3 => mount # 0

CreateInv == CreateTypes /\ UploadsOK /\ OneEach /\ Submissions /\ NamedIsStored

LEMMA CreateInit == Init => CreateInv
<1>. SUFFICES ASSUME Init PROVE CreateInv
  OBVIOUS
<1>1. InitCreate
  BY DEF Init
<1>2. listed = << >> /\ Len(listed) = 0 /\ DOMAIN listed = {} /\ listed \in Seq(Json)
  BY <1>1 DEF InitCreate
<1>3. Submissions
  BY <1>1, <1>2, FS_EmptySet DEF InitCreate, Submissions
<1>4. CreateTypes
  <2>1. 1 \in 1 .. MaxVisits /\ 0 \in 0 .. MaxVisits
    BY CreateBounds
  <2>2. 0 \in 0 .. MaxUploads /\ 0 \in 0 .. MaxListings /\ 1 \in 1 .. 3
    BY CreateBounds
  <2>. QED
    BY <1>1, <1>2, <2>1, <2>2 DEF InitCreate, CreateTypes
<1>. QED
  BY <1>1, <1>2, <1>3, <1>4
  DEF InitCreate, CreateInv, UploadsOK, OneEach, NamedIsStored

(* Documents are never removed from IPFS. *)
LEMMA StoredGrows ==
  ASSUME [Next]_vars
  PROVE  stored \subseteq stored'
BY DEF Next, NextCreate, NextPortal, vars, Go, Leave, UploadImage, UploadMetadata, Uploaded,
       Submit, Submitted, POST, Load, LoadPending, ChooseFile, Hashed, Pinned, RemoveFile,
       Attest, Record, Recorded, Attested

(* A step of the portal. *)
LEMMA CreateKept ==
  ASSUME CreateInv, stored \subseteq stored', UNCHANGED createVars
  PROVE  CreateInv'
<1>1. UNCHANGED <<step, imageCidUri, metadataUri, visit, mount, running, uploads,
                  submissions, listings, listed>>
  BY DEF createVars, form
<1>2. CreateTypes'
  BY <1>1 DEF CreateInv, CreateTypes
<1>3. UploadsOK' /\ OneEach' /\ Submissions'
  BY <1>1 DEF CreateInv, UploadsOK, OneEach, Submissions
<1>4. NamedIsStored'
  BY <1>1 DEF CreateInv, NamedIsStored, Fetchable, ImageStored
<1>. QED
  BY <1>2, <1>3, <1>4 DEF CreateInv

LEMMA CreateGo ==
  ASSUME CreateInv, NEW s \in 1 .. 3, Go(s)
  PROVE  CreateInv'
<1>1. UNCHANGED <<imageCidUri, metadataUri, visit, running, uploads, submissions,
                  listings, listed, stored>>
      /\ step' = s /\ mount' = (IF s = 3 THEN mount + 1 ELSE mount)
      /\ (s = 3 => mount < MaxVisits)
  BY DEF Go
<1>2. CreateTypes'
  BY <1>1, CreateBounds DEF CreateInv, CreateTypes
<1>3. OneEach' /\ Submissions'
  BY <1>1 DEF CreateInv, OneEach, Submissions
<1>4. UploadsOK'
  BY <1>1 DEF CreateInv, CreateTypes, UploadsOK
<1>5. NamedIsStored'
  BY <1>1 DEF CreateInv, NamedIsStored, Fetchable, ImageStored
<1>. QED
  BY <1>2, <1>3, <1>4, <1>5 DEF CreateInv

(* A new visit has no upload and no submission of its own. *)
LEMMA CreateLeave ==
  ASSUME CreateInv, Leave
  PROVE  CreateInv'
<1>1. /\ visit < MaxVisits /\ visit' = visit + 1
      /\ step' = 1 /\ imageCidUri' = None /\ metadataUri' = None
      /\ UNCHANGED <<mount, running, uploads, submissions, listings, listed, stored>>
  BY DEF Leave
<1>2. CreateTypes'
  <2>1. visit' \in 1 .. MaxVisits
    BY <1>1, CreateBounds DEF CreateInv, CreateTypes
  <2>. QED
    BY <1>1, <2>1 DEF CreateInv, CreateTypes
<1>3. UploadsOK' /\ OneEach' /\ Submissions'
  BY <1>1 DEF CreateInv, CreateTypes, UploadsOK, OneEach, Submissions
<1>4. NamedIsStored'
  BY <1>1 DEF CreateInv, NamedIsStored, Fetchable, ImageStored
<1>. QED
  BY <1>2, <1>3, <1>4 DEF CreateInv

(* A new upload. *)
LEMMA CreateUpload ==
  ASSUME CreateInv, NEW kind \in {"image", "metadata"}, NEW doc, Upload(kind, doc),
         UNCHANGED <<form, submissions, listings, listed, stored>>,
         kind = "image" => doc \in Images,
         kind = "metadata" => WidgetFree /\ doc \in Json /\ doc.image = imageCidUri
  PROVE  CreateInv'
<1>. DEFINE new == [kind |-> kind, doc |-> doc, n |-> uploads + 1, visit |-> visit,
                    mount |-> mount]
<1>1. /\ UNCHANGED <<step, imageCidUri, metadataUri, visit, mount, submissions,
                     listings, listed, stored>>
      /\ step = 3 /\ uploads < MaxUploads /\ uploads' = uploads + 1
      /\ running' = running \union {new}
  BY DEF Upload, form
<1>2. CreateTypes'
  <2>1. new \in [kind : {"image", "metadata"}, doc : Images \union Json,
                 n : 1 .. MaxUploads, visit : 1 .. MaxVisits, mount : 1 .. MaxVisits]
    BY <1>1, CreateBounds DEF CreateInv, CreateTypes
  <2>. QED
    BY <1>1, <2>1, CreateBounds DEF CreateInv, CreateTypes
<1>3. UploadsOK'
  BY <1>1 DEF CreateInv, CreateTypes, UploadsOK
<1>4. OneEach'
  <2>1. kind = "metadata" =>
          \A u \in running :
            ~(u.kind = "metadata" /\ u.visit = visit /\ u.mount = mount)
    BY DEF WidgetFree, MetadataRunning, OnPage
  <2>2. \A u, w \in running' :
          u.kind = "metadata" /\ w.kind = "metadata" /\ u.visit = w.visit
          /\ u.mount = w.mount => u = w
    BY <1>1, <2>1 DEF CreateInv, OneEach
  <2>. QED
    BY <1>1, <2>2 DEF CreateInv, OneEach
<1>5. Submissions'
  BY <1>1 DEF CreateInv, Submissions
<1>6. NamedIsStored'
  <2>1. kind = "metadata" => ImageStored(doc)
    BY DEF CreateInv, NamedIsStored, ImageStored
  <2>. QED
    BY <1>1, <2>1 DEF CreateInv, NamedIsStored, Fetchable, ImageStored
<1>. QED
  BY <1>2, <1>3, <1>4, <1>5, <1>6 DEF CreateInv

(* An upload ends. *)
LEMMA CreateUploaded ==
  ASSUME CreateInv, NEW u \in running, NEW ok \in BOOLEAN, Uploaded(u, ok)
  PROVE  CreateInv'
<1>. DEFINE done(kind) == Succeeds(ok) /\ OnPage(u) /\ u.kind = kind
<1>1. /\ UNCHANGED <<step, visit, mount, uploads, submissions, listings, listed>>
      /\ running' = running \ {u}
      /\ imageCidUri' = (IF done("image") THEN u.doc ELSE imageCidUri)
      /\ metadataUri' = (IF done("metadata") THEN u.doc ELSE metadataUri)
  BY DEF Uploaded
<1>2. stored \subseteq stored' /\ (Succeeds(ok) => u.doc \in stored')
  BY DEF Uploaded, POST, Succeeds
<1>3. /\ done("image") => u.doc \in Images /\ ~done("metadata")
      /\ done("metadata") => u.doc \in Json
  BY DEF CreateInv, UploadsOK
<1>4. CreateTypes'
  <2>1. /\ imageCidUri' \in Images \union {None} /\ metadataUri' \in Json \union {None}
        /\ running' \subseteq running
    BY <1>1, <1>3 DEF CreateInv, CreateTypes
  <2>. QED
    BY <1>1, <2>1 DEF CreateInv, CreateTypes
<1>5. UploadsOK' /\ OneEach'
  BY <1>1 DEF CreateInv, UploadsOK, OneEach
<1>6. Submissions'
  BY <1>1 DEF CreateInv, Submissions
<1>7. NamedIsStored'
  <2>1. imageCidUri' # None => imageCidUri' \in stored'
    BY <1>1, <1>2 DEF CreateInv, NamedIsStored
  <2>2. metadataUri' # None => Fetchable(metadataUri)'
    BY <1>1, <1>2 DEF CreateInv, NamedIsStored, Fetchable, ImageStored
  <2>3. /\ \A w \in running' : w.kind = "metadata" => ImageStored(w.doc)'
        /\ \A s \in submissions' : Fetchable(s.uri)'
        /\ \A i \in DOMAIN listed' : Fetchable(listed[i])'
    BY <1>1, <1>2 DEF CreateInv, NamedIsStored, Fetchable, ImageStored
  <2>. QED
    BY <2>1, <2>2, <2>3 DEF NamedIsStored
<1>. QED
  BY <1>4, <1>5, <1>6, <1>7 DEF CreateInv

LEMMA CreateSubmit ==
  ASSUME CreateInv, Submit
  PROVE  CreateInv'
<1>. DEFINE new == [n |-> listings + 1, uri |-> metadataUri, visit |-> visit]
<1>1. /\ UNCHANGED <<step, imageCidUri, metadataUri, visit, mount, running, uploads,
                     listed, stored>>
      /\ metadataUri # None /\ \A s \in submissions : s.visit # visit
      /\ listings < MaxListings /\ listings' = listings + 1
      /\ submissions' = submissions \union {new}
  BY DEF Submit, MaySubmit, submitting, OnPage, form
<1>2. /\ listings \in Nat /\ MaxListings \in Nat /\ new.n = listings + 1
      /\ new \in [n : 1 .. MaxListings, uri : Json, visit : 1 .. MaxVisits]
  BY <1>1, CreateBounds DEF CreateInv, CreateTypes
<1>3. CreateTypes'
  BY <1>1, <1>2 DEF CreateInv, CreateTypes
<1>4. UploadsOK'
  BY <1>1 DEF CreateInv, UploadsOK
<1>5. OneEach'
  <2>1. visit \in Nat
    BY CreateBounds DEF CreateInv, CreateTypes
  <2>. QED
    BY <1>1, <2>1 DEF CreateInv, OneEach
<1>6. Submissions'
  <2>1. /\ IsFiniteSet(submissions) /\ Len(listed) + Cardinality(submissions) <= listings
        /\ \A s \in submissions : s.n <= listings
    BY DEF CreateInv, Submissions
  <2>2. new \notin submissions
    BY <1>2, <2>1
  <2>3. /\ IsFiniteSet(submissions') /\ Cardinality(submissions') = Cardinality(submissions) + 1
        /\ Cardinality(submissions) \in Nat
    BY <1>1, <2>1, <2>2, FS_AddElement, FS_CardinalityType
  <2>4. Len(listed) \in Nat /\ listed' = listed
    BY <1>1 DEF CreateInv, CreateTypes
  <2>5. \A s \in submissions' : s.n <= listings'
    <3>. SUFFICES ASSUME NEW s \in submissions' PROVE s.n <= listings'
      OBVIOUS
    <3>1. CASE s \in submissions
      <4>1. s.n \in Nat /\ s.n <= listings
        BY <2>1, <3>1 DEF CreateInv, CreateTypes
      <4>. QED
        BY <1>1, <1>2, <4>1
    <3>2. CASE s = new
      BY <1>1, <1>2, <3>2
    <3>. QED
      BY <1>1, <3>1, <3>2
  <2>6. Len(listed') + Cardinality(submissions') <= listings'
    BY <1>1, <1>2, <2>1, <2>3, <2>4
  <2>. QED
    BY <2>3, <2>5, <2>6 DEF Submissions
<1>7. NamedIsStored'
  BY <1>1 DEF CreateInv, NamedIsStored, Fetchable, ImageStored
<1>. QED
  BY <1>3, <1>4, <1>5, <1>6, <1>7 DEF CreateInv

LEMMA CreateSubmitted ==
  ASSUME CreateInv, NEW s \in submissions, Submitted(s)
  PROVE  CreateInv'
<1>1. /\ UNCHANGED <<step, imageCidUri, metadataUri, visit, mount, running, uploads,
                     listings, stored>>
      /\ submissions' = submissions \ {s}
      /\ listed' = listed \/ listed' = Append(listed, s.uri)
  BY DEF Submitted, form
<1>2. s.uri \in Json /\ Fetchable(s.uri) /\ listed \in Seq(Json)
  BY DEF CreateInv, CreateTypes, NamedIsStored
<1>3. /\ listed' \in Seq(Json) /\ Len(listed') \in Nat /\ Len(listed') <= Len(listed) + 1
      /\ Len(listed) \in Nat
      /\ \A i \in DOMAIN listed' : Fetchable(listed'[i])
  <2>1. CASE listed' = listed
    BY <1>2, <2>1 DEF CreateInv, NamedIsStored
  <2>2. CASE listed' = Append(listed, s.uri)
    <3>1. \A i \in DOMAIN listed' : \/ i \in DOMAIN listed /\ listed'[i] = listed[i]
                                    \/ listed'[i] = s.uri
      BY <1>2, <2>2
    <3>2. \A i \in DOMAIN listed' : Fetchable(listed'[i])
      BY <1>2, <3>1 DEF CreateInv, NamedIsStored
    <3>. QED
      BY <1>2, <2>2, <3>2
  <2>. QED
    BY <1>1, <2>1, <2>2
<1>4. CreateTypes'
  BY <1>1, <1>3 DEF CreateInv, CreateTypes
<1>5. UploadsOK' /\ OneEach'
  BY <1>1 DEF CreateInv, UploadsOK, OneEach
<1>6. Submissions'
  <2>1. /\ IsFiniteSet(submissions) /\ Len(listed) + Cardinality(submissions) <= listings
        /\ \A t \in submissions : t.n <= listings
    BY DEF CreateInv, Submissions
  <2>2. /\ IsFiniteSet(submissions') /\ Cardinality(submissions') = Cardinality(submissions) - 1
        /\ Cardinality(submissions) \in Nat
    BY <1>1, <2>1, FS_RemoveElement, FS_CardinalityType
  <2>3. listings \in Nat /\ listings' = listings
    BY <1>1, CreateBounds DEF CreateInv, CreateTypes
  <2>. QED
    BY <1>1, <1>3, <2>1, <2>2, <2>3 DEF Submissions
<1>7. NamedIsStored'
  BY <1>1, <1>3 DEF CreateInv, NamedIsStored, Fetchable, ImageStored
<1>. QED
  BY <1>4, <1>5, <1>6, <1>7 DEF CreateInv

LEMMA CreateNext == CreateInv /\ [Next]_vars => CreateInv'
<1>. SUFFICES ASSUME CreateInv, [Next]_vars PROVE CreateInv'
  OBVIOUS
<1>1. CASE UNCHANGED createVars
  BY <1>1, CreateKept, StoredGrows
<1>2. CASE NextCreate
  <2>1. ASSUME NEW s \in 1 .. 3, Go(s) PROVE CreateInv'
    BY <2>1, CreateGo
  <2>2. CASE Leave
    BY <2>2, CreateLeave
  <2>3. ASSUME NEW image \in Images, UploadImage(image) PROVE CreateInv'
    BY <2>3, CreateUpload DEF UploadImage
  <2>4. CASE UploadMetadata
    <3>. DEFINE doc == [n |-> uploads + 1, image |-> imageCidUri]
    <3>1. WidgetFree /\ Upload("metadata", doc) /\ uploads < MaxUploads
          /\ UNCHANGED <<form, submissions, listings, listed, stored>>
      BY <2>4 DEF UploadMetadata, Upload
    <3>2. doc \in Json /\ doc.image = imageCidUri
      BY <3>1, CreateBounds DEF CreateInv, CreateTypes, Json
    <3>. HIDE DEF doc
    <3>. QED
      BY <3>1, <3>2, CreateUpload
  <2>5. ASSUME NEW u \in running, NEW ok \in BOOLEAN, Uploaded(u, ok) PROVE CreateInv'
    BY <2>5, CreateUploaded
  <2>6. CASE Submit
    BY <2>6, CreateSubmit
  <2>7. ASSUME NEW s \in submissions, Submitted(s) PROVE CreateInv'
    BY <2>7, CreateSubmitted
  <2>. QED
    BY <1>2, <2>1, <2>2, <2>3, <2>4, <2>5, <2>6, <2>7 DEF NextCreate
<1>. QED
  BY <1>1, <1>2 DEF Next, vars

-----------------------------------------------------------------------------
(* Whatever uploads fail, overtake each other or outlive their page, and however many: an
   auction's metadata is on IPFS, and so is the image it names. *)
THEOREM ListedIsStoredHolds == Spec => []ListedIsStored
<1>1. CreateInv => ListedIsStored
  BY DEF CreateInv, NamedIsStored, Fetchable, ImageStored, ListedIsStored
<1>. QED
  BY <1>1, CreateInit, CreateNext, PTL DEF Spec

-----------------------------------------------------------------------------
(* The custodian's portal. *)

(* While one file is processed at a time, none is held meanwhile; the hash on display is
   then that of the file on its way, or of the file held. *)
OneFile ==
  ~overlapped =>
    /\ \A j, k \in jobs : j = k
    /\ \A j \in jobs : /\ uploadedFile = None
                       /\ docHash # None => j.pc = "upload" /\ docHash = j.doc
    /\ uploadedFile # None => uploadedFile \in stored
    /\ uploadedFile # None /\ docHash # None => docHash = uploadedFile

(* Nothing is attested, or about to be, before it is stored. *)
SentIsStored ==
  ~overlapped => \A t \in sent : t.hash # None => t.hash \in stored

PortalInv == TypeOKPortal /\ OneFile /\ SentIsStored /\ AttestedIsStored

LEMMA PortalInit == Init => PortalInv
<1>. SUFFICES ASSUME Init PROVE PortalInv
  OBVIOUS
<1>1. InitPortal
  BY DEF Init
<1>2. TypeOKPortal
  <2>1. 0 \in 0 .. MaxFiles /\ 0 \in 0 .. MaxAttests /\ 0 \in 0 .. MaxLoads
    BY PortalBounds
  <2>2. overlapped \in BOOLEAN
    BY <1>1, Zenon DEF InitPortal
  <2>. QED
    BY <1>1, <2>1, <2>2 DEF InitPortal, TypeOKPortal
<1>. QED
  BY <1>1, <1>2 DEF InitPortal, PortalInv, OneFile, SentIsStored, AttestedIsStored, HashVerifiable

(* The steps that touch no certificate: the list is loaded, the contract records an
   attestation, or the seller's page takes a step. *)
LEMMA PortalKept ==
  ASSUME PortalInv, TypeOKPortal', stored \subseteq stored', overlapped' = overlapped,
         UNCHANGED <<uploadedFile, docHash, jobs>>, sent' \subseteq sent,
         \A i \in Items : \/ attestation_hash'[i] = attestation_hash[i]
                          \/ \E t \in sent : attestation_hash'[i] = t.hash
  PROVE  PortalInv'
<1>1. OneFile'
  BY DEF PortalInv, OneFile
<1>2. SentIsStored'
  BY DEF PortalInv, SentIsStored
<1>3. AttestedIsStored'
  BY DEF PortalInv, SentIsStored, AttestedIsStored, HashVerifiable
<1>. QED
  BY <1>1, <1>2, <1>3 DEF PortalInv

LEMMA PortalLoad ==
  ASSUME PortalInv, CreateInv, Load
  PROVE  PortalInv'
<1>1. PICK rows \in SUBSET (DOMAIN listed) : LoadPending(rows)
  BY DEF Load
<1>2. rows \subseteq Items
  <2>1. /\ Len(listed) \in Nat /\ DOMAIN listed = 1 .. Len(listed)
        /\ listings \in 0 .. MaxListings
        /\ Len(listed) + Cardinality(submissions) <= listings /\ IsFiniteSet(submissions)
    BY DEF CreateInv, CreateTypes, Submissions
  <2>2. Cardinality(submissions) \in Nat
    BY <2>1, FS_CardinalityType
  <2>3. Len(listed) <= MaxListings
    BY <2>1, <2>2, CreateBounds
  <2>4. DOMAIN listed \subseteq 1 .. MaxListings
    BY <2>1, <2>3, CreateBounds
  <2>. QED
    BY <1>1, <2>4, ItemsAreAuctions
<1>3. /\ loads < MaxLoads /\ loads' = loads + 1
      /\ pendingAttestations' = IF rows = {} THEN DemoItems ELSE rows
  BY <1>1 DEF LoadPending
<1>4. UNCHANGED <<completedAttestations, uploadedFile, docHash, jobs, attestingId, sent,
                  files, attests, attestation_hash, overlapped, stored>>
  BY <1>1 DEF LoadPending
<1>5. TypeOKPortal'
  BY <1>2, <1>3, <1>4, ItemsAssumption, PortalBounds DEF PortalInv, TypeOKPortal
<1>. QED
  BY <1>4, <1>5, PortalKept

LEMMA PortalChoose ==
  ASSUME PortalInv, NEW doc \in Certificates, ChooseFile(doc)
  PROVE  PortalInv'
<1>1. /\ uploadedFile' = None /\ docHash' = None
      /\ files < MaxFiles /\ files' = files + 1
      /\ jobs' = jobs \union {[n |-> files + 1, doc |-> doc, pc |-> "hash"]}
      /\ overlapped' = (overlapped \/ jobs # {})
  BY DEF ChooseFile, Holding
<1>2. UNCHANGED <<pendingAttestations, completedAttestations, attestingId, sent, attests,
                  loads, attestation_hash, stored>>
  BY DEF ChooseFile
<1>3. TypeOKPortal'
  <2>1. overlapped' \in BOOLEAN
    BY <1>1, Zenon DEF PortalInv, TypeOKPortal
  <2>2. /\ files' \in 0 .. MaxFiles
        /\ jobs' \subseteq [n : 1 .. MaxFiles, doc : Certificates, pc : {"hash", "upload"}]
    BY <1>1, PortalBounds DEF PortalInv, TypeOKPortal
  <2>. QED
    BY <1>1, <1>2, <2>1, <2>2 DEF PortalInv, TypeOKPortal
<1>4. OneFile'
  BY <1>1, <1>2 DEF PortalInv, OneFile
<1>. QED
  BY <1>1, <1>2, <1>3, <1>4 DEF PortalInv, SentIsStored, AttestedIsStored, HashVerifiable

LEMMA PortalHashed ==
  ASSUME PortalInv, NEW j \in jobs, Hashed(j)
  PROVE  PortalInv'
<1>. DEFINE later == [j EXCEPT !.pc = "upload"]
<1>1. \/ docHash' = j.doc /\ jobs' = (jobs \ {j}) \union {later}
      \/ docHash' = docHash /\ jobs' = jobs \ {j}
  BY DEF Hashed
<1>2. UNCHANGED <<pendingAttestations, completedAttestations, uploadedFile, attestingId,
                  sent, files, attests, loads, attestation_hash, overlapped, stored>>
  BY DEF Hashed
<1>3. /\ j \in [n : 1 .. MaxFiles, doc : Certificates, pc : {"hash", "upload"}]
      /\ later \in [n : 1 .. MaxFiles, doc : Certificates, pc : {"hash", "upload"}]
      /\ later.doc = j.doc /\ later.pc = "upload"
  BY DEF PortalInv, TypeOKPortal
<1>. HIDE DEF later
<1>4. TypeOKPortal'
  BY <1>1, <1>2, <1>3 DEF PortalInv, TypeOKPortal
<1>5. OneFile'
  BY <1>1, <1>2, <1>3 DEF PortalInv, OneFile
<1>. QED
  BY <1>2, <1>4, <1>5 DEF PortalInv, SentIsStored, AttestedIsStored, HashVerifiable

LEMMA PortalPinned ==
  ASSUME PortalInv, NEW j \in jobs, NEW ok \in BOOLEAN, Pinned(j, ok)
  PROVE  PortalInv'
<1>1. /\ j.pc = "upload" /\ jobs' = jobs \ {j}
      /\ uploadedFile' = (IF ok THEN j.doc ELSE uploadedFile)
      /\ stored \subseteq stored' /\ (ok => j.doc \in stored')
  BY DEF Pinned, POST, Succeeds
<1>2. UNCHANGED <<pendingAttestations, completedAttestations, docHash, attestingId, sent,
                  files, attests, loads, attestation_hash, overlapped>>
  BY DEF Pinned
<1>3. TypeOKPortal'
  BY <1>1, <1>2 DEF PortalInv, TypeOKPortal
<1>4. OneFile'
  BY <1>1, <1>2 DEF PortalInv, OneFile
<1>. QED
  BY <1>1, <1>2, <1>3, <1>4 DEF PortalInv, SentIsStored, AttestedIsStored, HashVerifiable

LEMMA PortalRemove ==
  ASSUME PortalInv, RemoveFile
  PROVE  PortalInv'
<1>1. uploadedFile' = None /\ docHash' = None
  BY DEF RemoveFile, Holding
<1>2. UNCHANGED <<pendingAttestations, completedAttestations, jobs, attestingId, sent,
                  files, attests, loads, attestation_hash, overlapped, stored>>
  BY DEF RemoveFile
<1>3. TypeOKPortal'
  BY <1>1, <1>2 DEF PortalInv, TypeOKPortal
<1>. QED
  BY <1>1, <1>2, <1>3 DEF PortalInv, OneFile, SentIsStored, AttestedIsStored, HashVerifiable

LEMMA PortalAttest ==
  ASSUME PortalInv, NEW item \in Items, Attest(item)
  PROVE  PortalInv'
<1>. DEFINE new == [n |-> attests + 1, item |-> item, hash |-> docHash, awaited |-> TRUE]
<1>1. /\ uploadedFile # None /\ docHash # None
      /\ attests < MaxAttests /\ attests' = attests + 1
      /\ attestingId' = item /\ sent' = sent \union {new}
  BY DEF Attest, Ready
<1>2. UNCHANGED <<pendingAttestations, completedAttestations, uploadedFile, docHash, jobs,
                  files, loads, attestation_hash, overlapped, stored>>
  BY DEF Attest
<1>3. new \in [n : 1 .. MaxAttests, item : Items, hash : Certificates, awaited : BOOLEAN]
  BY <1>1, PortalBounds DEF PortalInv, TypeOKPortal
<1>4. new.hash = docHash
  OBVIOUS
<1>. HIDE DEF new
<1>5. TypeOKPortal'
  BY <1>1, <1>2, <1>3, PortalBounds DEF PortalInv, TypeOKPortal
<1>6. SentIsStored'
  BY <1>1, <1>2, <1>4 DEF PortalInv, OneFile, SentIsStored
<1>. QED
  BY <1>2, <1>5, <1>6 DEF PortalInv, OneFile, AttestedIsStored, HashVerifiable

LEMMA PortalRecord ==
  ASSUME PortalInv, NEW t \in sent, Record(t), stored' = stored
  PROVE  PortalInv'
<1>1. PICK accepted \in {FALSE, t.item \in DOMAIN listed} : Recorded(t, accepted)
  BY DEF Record
<1>2. /\ attestation_hash' = (IF accepted THEN [attestation_hash EXCEPT ![t.item] = t.hash]
                              ELSE attestation_hash)
      /\ sent' = IF t.awaited THEN sent ELSE sent \ {t}
  BY <1>1 DEF Recorded
<1>3. UNCHANGED <<pendingAttestations, completedAttestations, uploadedFile, docHash, jobs,
                  attestingId, files, attests, loads, overlapped, stored>>
  BY <1>1 DEF Recorded
<1>4. t.item \in Items /\ t.hash \in Certificates
  BY DEF PortalInv, TypeOKPortal
<1>5. TypeOKPortal'
  <2>1. attestation_hash' \in [Items -> Certificates \union {None}] /\ sent' \subseteq sent
    BY <1>2, <1>4 DEF PortalInv, TypeOKPortal
  <2>. QED
    BY <1>3, <2>1 DEF PortalInv, TypeOKPortal
<1>6. \A i \in Items : attestation_hash'[i] \in {attestation_hash[i], t.hash}
  BY <1>2, <1>4 DEF PortalInv, TypeOKPortal
<1>. QED
  BY <1>2, <1>3, <1>5, <1>6, PortalKept

LEMMA PortalAttested ==
  ASSUME PortalInv, NEW t \in sent, NEW success \in BOOLEAN, Attested(t, success)
  PROVE  PortalInv'
<1>. DEFINE told == [t EXCEPT !.awaited = FALSE]
<1>1. sent' = (sent \ {t}) \union {told} /\ attestingId' = None
  BY DEF Attested
<1>2. \/ /\ uploadedFile' = None /\ docHash' = None
         /\ completedAttestations' = completedAttestations \union {t.item}
         /\ pendingAttestations' = pendingAttestations \ {t.item}
      \/ UNCHANGED <<completedAttestations, pendingAttestations, uploadedFile, docHash>>
  BY DEF Attested, Holding
<1>3. UNCHANGED <<jobs, files, attests, loads, attestation_hash, overlapped, stored>>
  BY DEF Attested
<1>4. /\ told \in [n : 1 .. MaxAttests, item : Items, hash : Certificates, awaited : BOOLEAN]
      /\ told.hash = t.hash /\ t.item \in Items
  BY DEF PortalInv, TypeOKPortal
<1>. HIDE DEF told
<1>5. TypeOKPortal'
  BY <1>1, <1>2, <1>3, <1>4 DEF PortalInv, TypeOKPortal
<1>6. OneFile'
  BY <1>2, <1>3 DEF PortalInv, OneFile
<1>7. SentIsStored'
  BY <1>1, <1>3, <1>4 DEF PortalInv, SentIsStored
<1>. QED
  BY <1>3, <1>5, <1>6, <1>7 DEF PortalInv, AttestedIsStored, HashVerifiable

LEMMA PortalNext == CreateInv /\ PortalInv /\ [Next]_vars => PortalInv'
<1>. SUFFICES ASSUME CreateInv, PortalInv, [Next]_vars PROVE PortalInv'
  OBVIOUS
<1>1. CASE UNCHANGED portalVars
  <2>1. UNCHANGED <<pendingAttestations, completedAttestations, uploadedFile, docHash, jobs,
                    attestingId, sent, files, attests, loads, attestation_hash, overlapped>>
    BY <1>1 DEF portalVars
  <2>2. TypeOKPortal'
    BY <2>1 DEF PortalInv, TypeOKPortal
  <2>. QED
    BY <2>1, <2>2, StoredGrows, PortalKept
<1>2. CASE NextPortal
  <2>1. CASE Load
    BY <2>1, PortalLoad
  <2>2. ASSUME NEW doc \in Certificates, ChooseFile(doc) PROVE PortalInv'
    BY <2>2, PortalChoose
  <2>3. ASSUME NEW j \in jobs, Hashed(j) PROVE PortalInv'
    BY <2>3, PortalHashed
  <2>4. ASSUME NEW j \in jobs, NEW ok \in BOOLEAN, Pinned(j, ok) PROVE PortalInv'
    BY <2>4, PortalPinned
  <2>5. CASE RemoveFile
    BY <2>5, PortalRemove
  <2>6. ASSUME NEW item \in Items, Attest(item) PROVE PortalInv'
    BY <2>6, PortalAttest
  <2>7. ASSUME NEW t \in sent, Record(t) PROVE PortalInv'
    <3>1. stored' = stored
      BY <2>7 DEF Record, Recorded
    <3>. QED
      BY <2>7, <3>1, PortalRecord
  <2>8. ASSUME NEW t \in sent, NEW success \in BOOLEAN, Attested(t, success) PROVE PortalInv'
    BY <2>8, PortalAttested
  <2>. QED
    BY <1>2, <2>1, <2>2, <2>3, <2>4, <2>5, <2>6, <2>7, <2>8 DEF NextPortal
<1>. QED
  BY <1>1, <1>2 DEF Next, vars

LEMMA ListingInv == Spec => [](CreateInv /\ PortalInv)
<1>1. Init => CreateInv /\ PortalInv
  BY CreateInit, PortalInit
<1>2. CreateInv /\ PortalInv /\ [Next]_vars => (CreateInv /\ PortalInv)'
  BY CreateNext, PortalNext
<1>. QED
  BY <1>1, <1>2, PTL DEF Spec

(* Whatever uploads fail and transactions land late, for any number of files and
   attestations: a hash on chain is that of a certificate that can be fetched from IPFS,
   unless two files were being processed at once. *)
THEOREM AttestedIsStoredHolds == Spec => []AttestedIsStored
<1>1. PortalInv => AttestedIsStored
  BY DEF PortalInv
<1>. QED
  BY <1>1, ListingInv, PTL

-----------------------------------------------------------------------------
(* Types. *)

LEMMA AtMostOne ==
  ASSUME NEW S, \A x, y \in S : x = y
  PROVE  Cardinality(S) <= 1
<1>1. CASE S = {}
  BY <1>1, FS_EmptySet
<1>2. ASSUME NEW x \in S PROVE Cardinality(S) <= 1
  <2>1. S = {x}
    BY <1>2
  <2>. QED
    BY <2>1, FS_Singleton
<1>. QED
  BY <1>1, <1>2

LEMMA CreateTyped ==
  ASSUME CreateInv
  PROVE  TypeOKCreate
<1>1. Cardinality({s \in submissions : OnPage(s)}) <= 1
  <2>1. \A s, t \in {r \in submissions : OnPage(r)} : s = t
    BY DEF CreateInv, OneEach, OnPage
  <2>. QED
    BY <2>1, AtMostOne
<1>2. Cardinality({u \in MetadataRunning : u.mount = mount}) <= 1
  <2>1. \A u, w \in {r \in MetadataRunning : r.mount = mount} : u = w
    BY DEF CreateInv, OneEach, OnPage, MetadataRunning
  <2>. QED
    BY <2>1, AtMostOne
<1>. QED
  BY <1>1, <1>2 DEF CreateInv, CreateTypes, TypeOKCreate

StoredOK == stored \subseteq Images \union Json \union Certificates

LEMMA StoredNext ==
  ASSUME CreateInv, PortalInv, StoredOK, [Next]_vars
  PROVE  StoredOK'
<1>1. stored' = stored \/ (\E doc \in Images \union Json \union Certificates :
                             stored' = stored \union {doc})
  <2>1. ASSUME NEW u \in running, NEW ok \in BOOLEAN, Uploaded(u, ok)
        PROVE  stored' = stored \/ stored' = stored \union {u.doc}
    BY <2>1 DEF Uploaded, POST
  <2>2. ASSUME NEW j \in jobs, NEW ok \in BOOLEAN, Pinned(j, ok)
        PROVE  stored' = stored \/ stored' = stored \union {j.doc}
    BY <2>2 DEF Pinned, POST
  <2>3. /\ \A u \in running : u.doc \in Images \union Json
        /\ \A j \in jobs : j.doc \in Certificates
    BY DEF CreateInv, CreateTypes, PortalInv, TypeOKPortal
  <2>4. \/ stored' = stored
        \/ \E u \in running, ok \in BOOLEAN : Uploaded(u, ok)
        \/ \E j \in jobs, ok \in BOOLEAN : Pinned(j, ok)
    BY DEF Next, NextCreate, NextPortal, vars, Go, Leave, UploadImage, UploadMetadata, Submit,
           Submitted, Load, LoadPending, ChooseFile, Hashed, RemoveFile, Attest, Record,
           Recorded, Attested
  <2>. QED
    BY <2>1, <2>2, <2>3, <2>4
<1>. QED
  BY <1>1 DEF StoredOK

(* The two pages keep their shape for any documents and bounds: among it, one submission
   per visit of the page and one metadata upload per widget. *)
THEOREM ListingTypes == Spec => []TypeOK
<1>1. Init => StoredOK
  BY DEF Init, StoredOK
<1>2. CreateInv /\ PortalInv /\ StoredOK /\ [Next]_vars => StoredOK'
  BY StoredNext
<1>3. CreateInv /\ PortalInv /\ StoredOK => TypeOK
  BY CreateTyped DEF TypeOK, PortalInv, StoredOK
<1>. QED
  BY <1>1, <1>2, <1>3, ListingInv, PTL DEF Spec
=============================================================================
