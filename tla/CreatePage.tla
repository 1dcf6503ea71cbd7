----------------------------- MODULE CreatePage -----------------------------
(***************************************************************************)
(* The create-auction page (frontend/src/app/create/page.tsx) and the two   *)
(* IPFSUploader widgets of its third step (components/ui/IPFSUploader.tsx): *)
(* the seller uploads an image, then metadata that names it, then lists.    *)
(* The widgets unmount with the step, their uploads go on and still call    *)
(* the page's handlers.  The fields of the forms are abstracted.            *)
(***************************************************************************)
EXTENDS Uploads, Sequences

CONSTANTS
  Images,
  MaxUploads,   \* bound: uploads of a seller
  MaxVisits,    \* bound: times the page, or its third step, is entered
  MaxListings   \* bound: submissions

ASSUME CreateBounds ==
  MaxUploads \in Nat /\ MaxVisits \in Nat \ {0} /\ MaxListings \in Nat

VARIABLES
  step,           \* 1 format, 2 details, 3 uploads
  imageCidUri,    \* or None
  metadataUri,    \* or None; metadataUploaded is metadataUri # None
  visit,          \* numbers the mounts of the page
  mount,          \* numbers the mounts of the widgets
  running,        \* uploads in flight
  uploads,        \* uploads started
  submissions,    \* create_auction invocations in flight
  listings,       \* submissions made
  listed          \* the contract: the metadata of auction 1, 2, ...

form       == <<step, imageCidUri, metadataUri, visit, mount>>
createVars == <<form, running, uploads, submissions, listings, listed>>

Json == [n : 1 .. MaxUploads, image : Images \union {None}]

OnPage(job) == job.visit = visit
MetadataRunning == {u \in running : u.kind = "metadata" /\ OnPage(u)}

InitCreate ==
  /\ step = 1 /\ imageCidUri = None /\ metadataUri = None
  /\ visit = 1 /\ mount = 0
  /\ running = {} /\ uploads = 0
  /\ submissions = {} /\ listings = 0 /\ listed = <<>>

(* Continue and Back. *)
Go(s) ==
  /\ s \in {step - 1, step + 1}
  /\ s = 3 => mount < MaxVisits
  /\ step' = s
  /\ mount' = IF s = 3 THEN mount + 1 ELSE mount
  /\ UNCHANGED <<imageCidUri, metadataUri, visit, running, uploads, submissions, listings,
                 listed, stored>>

(* The seller leaves, or router.push("/") takes him away after a listing, and the page
   is opened afresh. *)
Leave ==
  /\ visit < MaxVisits
  /\ visit' = visit + 1
  /\ step' = 1 /\ imageCidUri' = None /\ metadataUri' = None
  /\ UNCHANGED <<mount, running, uploads, submissions, listings, listed, stored>>

Upload(kind, doc) ==
  /\ step = 3 /\ uploads < MaxUploads
  /\ uploads' = uploads + 1
  /\ running' = running \union
       {[kind |-> kind, doc |-> doc, n |-> uploads + 1, visit |-> visit, mount |-> mount]}

(* processFile: a file may be dropped while another is on its way. *)
UploadImage(image) ==
  /\ Upload("image", image)
  /\ UNCHANGED <<form, submissions, listings, listed, stored>>

BugWidgetFree == uploads < MaxUploads
WidgetFree    == \A u \in MetadataRunning : u.mount # mount

(* handleMetadataUpload: the button waits for the widget's own upload only. *)
UploadMetadata ==
  /\ WidgetFree
  /\ Upload("metadata", [n |-> uploads + 1, image |-> imageCidUri])
  /\ UNCHANGED <<form, submissions, listings, listed, stored>>

(* onUploadComplete: handleImageUploaded or handleMetadataUploaded. *)
Uploaded(u, ok) ==
  /\ u \in running
  /\ POST(u.doc, ok)
  /\ running' = running \ {u}
  /\ LET calls(kind) == Succeeds(ok) /\ OnPage(u) /\ u.kind = kind IN
     /\ imageCidUri' = IF calls("image") THEN u.doc ELSE imageCidUri
     /\ metadataUri' = IF calls("metadata") THEN u.doc ELSE metadataUri
  /\ UNCHANGED <<step, visit, mount, uploads, submissions, listings, listed>>

submitting == \E s \in submissions : OnPage(s)

MaySubmit == metadataUri # None /\ ~submitting

(* handleSubmit: the metadata of the moment goes into create_auction. *)
Submit ==
  /\ step = 3 /\ MaySubmit
  /\ listings < MaxListings
  /\ listings' = listings + 1
  /\ submissions' = submissions \union
       {[n |-> listings + 1, uri |-> metadataUri, visit |-> visit]}
  /\ UNCHANGED <<form, running, uploads, listed, stored>>

(* invokeContract ends, with or without an auction. *)
Submitted(s) ==
  /\ s \in submissions
  /\ submissions' = submissions \ {s}
  /\ listed' \in {listed, Append(listed, s.uri)}
  /\ UNCHANGED <<form, running, uploads, listings, stored>>

NextCreate ==
  \/ \E s \in 1 .. 3 : Go(s)
  \/ Leave
  \/ \E image \in Images : UploadImage(image)
  \/ UploadMetadata
  \/ \E u \in running, ok \in BOOLEAN : Uploaded(u, ok)
  \/ Submit
  \/ \E s \in submissions : Submitted(s)

-----------------------------------------------------------------------------
(* Properties. *)

(* With the types: one submission per page and one metadata upload per widget. *)
TypeOKCreate ==
  /\ step \in 1 .. 3
  /\ imageCidUri \in Images \union {None} /\ metadataUri \in Json \union {None}
  /\ visit \in 1 .. MaxVisits /\ mount \in 0 .. MaxVisits
  /\ running \subseteq [kind : {"image", "metadata"}, doc : Images \union Json,
                        n : 1 .. MaxUploads, visit : 1 .. MaxVisits, mount : 1 .. MaxVisits]
  /\ uploads \in 0 .. MaxUploads /\ listings \in 0 .. MaxListings
  /\ submissions \subseteq [n : 1 .. MaxListings, uri : Json, visit : 1 .. MaxVisits]
  /\ Cardinality({s \in submissions : OnPage(s)}) <= 1
  /\ Cardinality({u \in MetadataRunning : u.mount = mount}) <= 1
  /\ listed \in Seq(Json)

(* Whatever uploads fail, overtake each other or outlive their page, an auction's
   metadata is on IPFS, and so is the image it names. *)
ListedIsStored ==
  \A i \in DOMAIN listed :
    listed[i] \in stored /\ (listed[i].image # None => listed[i].image \in stored)
=============================================================================
