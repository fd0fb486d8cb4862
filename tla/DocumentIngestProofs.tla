------------------------ MODULE DocumentIngestProofs ------------------------
(***************************************************************************)
(* Proofs about DocumentIngest: the chunks of a file hold all its words,   *)
(* and a document reported as stored, or listed and neither under way nor  *)
(* broken off, has all its chunks, for all files, chunk sizes and          *)
(* overlaps, and any number of uploads and deletions.                      *)
(***************************************************************************)
EXTENDS DocumentIngest, TLAPS

-----------------------------------------------------------------------------
(* The chunker *)

LEMMA StepType == Step \in Nat \ {0} /\ Step <= ChunkSize
<1>1. ChunkSize \in Nat \ {0} /\ ChunkOverlap \in Nat
  BY IngestAssumption
<1> QED
  BY <1>1 DEF Step

(* The piece that starts last before a word holds it. *)
LEMMA Coverage ==
    ASSUME NEW n \in Nat, NEW w \in 1..n
    PROVE  \E k \in PiecesOf(n) : w \in WordsOf(k, n)
<1> DEFINE k == (w - 1) \div Step
<1>1. k \in Nat /\ k * Step <= w - 1 /\ w - 1 < k * Step + Step
  BY StepType
<1>2. k * Step < n
  BY <1>1, StepType
<1>3. k \in 0..n
  BY <1>1, <1>2, StepType
<1>4. k \in PiecesOf(n)
  BY <1>2, <1>3 DEF PiecesOf
<1>5. k * Step < w /\ w <= k * Step + ChunkSize
  BY <1>1, StepType, IngestAssumption
<1> QED
  BY <1>4, <1>5 DEF WordsOf

(* No piece is empty. *)
LEMMA PieceHasWords ==
    ASSUME NEW n \in Nat, NEW k \in PiecesOf(n)
    PROVE  WordsOf(k, n) # {}
<1>1. k \in Nat /\ k * Step < n /\ k * Step \in Nat
  BY StepType DEF PiecesOf
<1>2. ChunkSize \in Nat \ {0}
  BY IngestAssumption
<1>3. k * Step + 1 \in WordsOf(k, n)
  BY <1>1, <1>2 DEF WordsOf
<1> QED
  BY <1>3

LEMMA SectionType ==
    ASSUME NEW f \in Files, NEW s \in DOMAIN Sections[f]
    PROVE  Sections[f][s] \in Nat
<1>1. Sections[f] \in Seq(Nat)
  BY IngestAssumption
<1> QED
  BY <1>1

(* A document with all its chunks can be read in full. *)
LEMMA CompleteIsReadable ==
    ASSUME NEW d \in Documents, Complete(d)
    PROVE  Readable(d)
<1> SUFFICES ASSUME NEW s \in DOMAIN Sections[d.file], NEW w \in 1..Sections[d.file][s]
             PROVE  \E c \in ChunksOf(d.id) : c[1] = s /\ w \in WordsOf(c[2], Sections[d.file][s])
  BY DEF Readable
<1>1. d.file \in Files
  BY DEF Documents
<1>2. Sections[d.file][s] \in Nat
  BY <1>1, SectionType
<1>3. PICK k \in PiecesOf(Sections[d.file][s]) : w \in WordsOf(k, Sections[d.file][s])
  BY <1>2, Coverage
<1>4. <<s, k>> \in ChunksOf(d.id)
  BY <1>3 DEF Complete, Chunks
<1> QED
  BY <1>3, <1>4

(* The text of a chunk of a file is not empty. *)
LEMMA ChunkHasWords ==
    ASSUME NEW f \in Files, NEW c \in Chunks(f)
    PROVE  WordsOf(c[2], Sections[f][c[1]]) # {}
<1>1. PICK s \in DOMAIN Sections[f] : \E k \in PiecesOf(Sections[f][s]) : c = <<s, k>>
  BY DEF Chunks
<1>2. PICK k \in PiecesOf(Sections[f][s]) : c = <<s, k>>
  BY <1>1
<1>3. WordsOf(k, Sections[f][s]) # {}
  BY PieceHasWords, SectionType
<1> QED
  BY <1>2, <1>3

-----------------------------------------------------------------------------
(* The inductive invariant *)

(* What an upload knows of its document: while chunks are inserted, the     *)
(* rows of the document are those it has written; after "stored", all.      *)
UploadOK(up) ==
    /\ up.pc # "reply" => up.reply = "none"
    /\ up.pc \notin {"chunk", "reply"} => up.written = {}
    /\ up.pc = "chunk" =>
          /\ up.document \in 1..inserted
          /\ up.written \subseteq Chunks(up.file)
          /\ \A d \in documents : d.id = up.document =>
                d.file = up.file /\ ChunksOf(d.id) = up.written
    /\ up.reply = "stored" => up.document \in 1..inserted
    /\ up.reply = "stored" =>
          \A d \in documents : d.id = up.document => Complete(d)

(* Ids are given once, and rows are of documents inserted and their files.  *)
RowsOK ==
    /\ \A d \in documents : d.id \in 1..inserted /\ ChunksOf(d.id) \subseteq Chunks(d.file)
    /\ \A d, e \in documents : d.id = e.id => d = e
    /\ \A row \in chunks : row[1] \in 1..inserted

(* Two uploads never write to one document. *)
Apart ==
    \A u, v \in Uploaders :
        u # v /\ At(u, "chunk") /\ At(v, "chunk") => upload[u].document # upload[v].document

Types ==
    /\ inserted \in 0..MaxDocuments
    /\ documents \subseteq Documents
    /\ chunks \subseteq Ids \X AllChunks
    /\ upload \in [Uploaders -> Uploads]
    /\ broken \subseteq Ids

IInv ==
    /\ Types
    /\ RowsOK
    /\ \A u \in Uploaders : UploadOK(upload[u])
    /\ Apart
    /\ ListedCountsHold

LEMMA NoUploadType ==
    /\ NoUpload \in Uploads
    /\ NoUpload.pc = "idle" /\ NoUpload.reply = "none" /\ NoUpload.written = {}
<1>1. (CHOOSE t \in Tenants : TRUE) \in Tenants /\ (CHOOSE f \in Files : TRUE) \in Files
  BY IngestAssumption
<1>2. 0 \in 0..MaxDocuments
  BY IngestAssumption
<1> QED
  BY <1>1, <1>2 DEF NoUpload, Uploads, Replies

LEMMA IInvInit == Init => IInv
<1> SUFFICES ASSUME Init PROVE IInv
  OBVIOUS
<1>1. Types
  BY NoUploadType, IngestAssumption DEF Init, Types
<1>2. RowsOK /\ ListedCountsHold
  BY DEF Init, RowsOK, ListedCountsHold
<1>3. \A u \in Uploaders : UploadOK(upload[u])
  BY NoUploadType DEF Init, UploadOK
<1>4. Apart
  BY NoUploadType DEF Init, Apart, At
<1> QED
  BY <1>1, <1>2, <1>3, <1>4 DEF IInv

-----------------------------------------------------------------------------
(* Steps that write no document and no chunk *)

LEMMA StayStep ==
    ASSUME IInv, NEW u \in Uploaders, NEW up \in Uploads,
           upload' = [upload EXCEPT ![u] = up],
           UNCHANGED <<inserted, documents, chunks>>,
           broken \subseteq broken', broken' \subseteq Ids,
           UploadOK(up), up.pc # "chunk",
           At(u, "chunk") =>
              \A d \in documents : d.id = upload[u].document => Complete(d) \/ d.id \in broken'
    PROVE  IInv'
<1>1. Types'
  BY DEF IInv, Types
<1>2. RowsOK'
  BY DEF IInv, RowsOK, ChunksOf
<1>3. upload'[u] = up /\ \A v \in Uploaders : v # u => upload'[v] = upload[v]
  BY DEF IInv, Types
<1>4. \A v \in Uploaders : UploadOK(upload[v])'
  <2> SUFFICES ASSUME NEW v \in Uploaders PROVE UploadOK(upload[v])'
    OBVIOUS
  <2>1. PICK q \in {up, upload[v]} : upload'[v] = q /\ UploadOK(q)
    BY <1>3 DEF IInv
  <2> QED
    BY <2>1 DEF UploadOK, Complete, ChunksOf
<1>5. Apart'
  BY <1>3 DEF IInv, Apart, At
<1>6. ListedCountsHold'
  <2> SUFFICES ASSUME NEW d \in documents
               PROVE  InFlight(d.id)' \/ Complete(d)' \/ d.id \in broken'
    BY DEF ListedCountsHold
  <2>1. Complete(d) => Complete(d)'
    BY DEF Complete, ChunksOf
  <2>2. CASE Complete(d) \/ d.id \in broken'
    BY <2>1, <2>2
  <2>3. CASE ~Complete(d) /\ d.id \notin broken'
    <3>1. PICK v \in Uploaders : At(v, "chunk") /\ upload[v].document = d.id
      BY <2>3 DEF IInv, ListedCountsHold, InFlight
    <3>2. v # u
      BY <2>3, <3>1
    <3> QED
      BY <1>3, <3>1, <3>2 DEF InFlight, At
  <2> QED
    BY <2>2, <2>3
<1> QED
  BY <1>1, <1>2, <1>4, <1>5, <1>6 DEF IInv

(* Going on to another step keeps what an upload knows. *)
LEMMA GotoStep ==
    ASSUME IInv, NEW u \in Uploaders, Goto(u, "lookup") \/ Goto(u, "embed") \/ Goto(u, "save")
              \/ Goto(u, "insert"),
           ~At(u, "chunk"), ~At(u, "reply"),
           UNCHANGED <<inserted, documents, chunks, broken>>
    PROVE  IInv'
<1>1. PICK step \in {"lookup", "embed", "save", "insert"} : Goto(u, step)
  OBVIOUS
<1>2. upload[u] \in Uploads /\ UploadOK(upload[u]) /\ broken \subseteq Ids
  BY DEF IInv, Types
<1>3. PICK up : up = [upload[u] EXCEPT !.pc = step]
  OBVIOUS
<1>4. /\ up \in Uploads
      /\ up.pc = step /\ up.reply = upload[u].reply /\ up.written = upload[u].written
  BY <1>2, <1>3 DEF Uploads
<1>5. UploadOK(up)
  BY <1>2, <1>4 DEF UploadOK, At
<1>6. upload' = [upload EXCEPT ![u] = up]
  BY <1>1, <1>3 DEF Goto, IInv, Types
<1> QED
  BY <1>2, <1>4, <1>5, <1>6, StayStep

(* A refusal or an exception ends an upload that was not writing chunks. *)
LEMMA RefusalStep ==
    ASSUME IInv, NEW u \in Uploaders, NEW reply \in Replies \ {"stored"}, Reply(u, reply),
           UNCHANGED <<inserted, documents, chunks>>,
           broken \subseteq broken', broken' \subseteq Ids,
           At(u, "chunk") =>
              \A d \in documents : d.id = upload[u].document => Complete(d) \/ d.id \in broken'
    PROVE  IInv'
<1>1. upload[u] \in Uploads
  BY DEF IInv, Types
<1>2. PICK up : up = [upload[u] EXCEPT !.pc = "reply", !.reply = reply]
  OBVIOUS
<1>3. up \in Uploads /\ up.pc = "reply" /\ up.reply = reply
  BY <1>1, <1>2 DEF Uploads
<1>4. UploadOK(up)
  BY <1>3 DEF UploadOK
<1>5. upload' = [upload EXCEPT ![u] = up]
  BY <1>2 DEF Reply, IInv, Types
<1> QED
  BY <1>3, <1>4, <1>5, StayStep

LEMMA ReceiveStep ==
    ASSUME IInv, NEW u \in Uploaders, Receive(u) \/ Deliver(u)
    PROVE  IInv'
<1>1. CASE Deliver(u)
  <2>1. UploadOK(NoUpload) /\ NoUpload \in Uploads /\ NoUpload.pc # "chunk"
    BY NoUploadType DEF UploadOK
  <2>2. upload' = [upload EXCEPT ![u] = NoUpload] /\ ~At(u, "chunk")
    BY <1>1 DEF Deliver, At
  <2>3. broken \subseteq broken' /\ broken' \subseteq Ids
    BY <1>1 DEF Deliver, IInv, Types
  <2> QED
    BY <1>1, <2>1, <2>2, <2>3, StayStep DEF Deliver
<1>2. CASE Receive(u)
  <2>1. PICK t \in Tenants, f \in Files :
           upload' = [upload EXCEPT ![u] =
                        [NoUpload EXCEPT !.pc = "parse", !.tenant = t, !.file = f]]
    BY <1>2 DEF Receive
  <2>2. PICK up : up = [NoUpload EXCEPT !.pc = "parse", !.tenant = t, !.file = f]
    OBVIOUS
  <2>3. up \in Uploads /\ up.pc = "parse" /\ up.reply = "none" /\ up.written = {}
    BY <2>2, NoUploadType DEF Uploads
  <2>4. UploadOK(up)
    BY <2>3 DEF UploadOK
  <2>5. ~At(u, "chunk") /\ broken \subseteq broken' /\ broken' \subseteq Ids
    BY <1>2 DEF Receive, At, IInv, Types
  <2> QED
    BY <1>2, <2>1, <2>2, <2>3, <2>4, <2>5, StayStep DEF Receive
<1> QED
  BY <1>1, <1>2

LEMMA CheckStep ==
    ASSUME IInv, NEW u \in Uploaders,
           CheckUpload(u) \/ LookupHash(u) \/ ParseAndEmbed(u) \/ SaveLookup(u)
    PROVE  IInv'
<1>1. /\ upload[u] \in Uploads /\ documents \subseteq Documents
      /\ broken \subseteq Ids /\ UploadOK(upload[u])
  BY DEF IInv, Types
<1>2. /\ ~At(u, "chunk") /\ ~At(u, "reply")
      /\ UNCHANGED <<inserted, documents, chunks, broken>>
  BY DEF CheckUpload, LookupHash, ParseAndEmbed, SaveLookup, At
<1>3. CASE \E reply \in Replies \ {"stored"} : Reply(u, reply)
  BY <1>1, <1>2, <1>3, RefusalStep
<1>4. CASE Goto(u, "lookup") \/ Goto(u, "embed") \/ Goto(u, "save") \/ Goto(u, "insert")
  BY <1>2, <1>4, GotoStep
<1>5. CASE LookupHash(u) /\ Existing(u) # {}
  <2>1. PICK d \in Existing(u) :
           upload' = [upload EXCEPT ![u].pc = "reply", ![u].reply = "duplicate",
                                    ![u].document = d.id]
    BY <1>5 DEF LookupHash
  <2>2. d.id \in 0..MaxDocuments
    BY <1>1 DEF Existing, FoundByHash, Documents, Ids
  <2>3. PICK up : up = [upload[u] EXCEPT !.pc = "reply", !.reply = "duplicate", !.document = d.id]
    OBVIOUS
  <2>4. up \in Uploads /\ up.pc = "reply" /\ up.reply = "duplicate"
    BY <1>1, <2>2, <2>3 DEF Uploads, Replies
  <2>5. UploadOK(up)
    BY <2>4 DEF UploadOK
  <2>6. upload' = [upload EXCEPT ![u] = up]
    BY <2>1, <2>3 DEF IInv, Types
  <2> QED
    BY <1>1, <1>2, <2>4, <2>5, <2>6, StayStep
<1>6. "INGEST_FAILED" \in Replies \ {"stored"} /\ "UNSUPPORTED_FORMAT" \in Replies \ {"stored"}
      /\ "unreadable" \in Replies \ {"stored"}
  BY DEF Replies
<1>7. CASE CheckUpload(u)
  BY <1>3, <1>4, <1>6, <1>7 DEF CheckUpload
<1>8. CASE LookupHash(u)
  BY <1>4, <1>5, <1>8 DEF LookupHash
<1>9. CASE ParseAndEmbed(u)
  BY <1>3, <1>4, <1>6, <1>9 DEF ParseAndEmbed
<1>10. CASE SaveLookup(u)
  BY <1>3, <1>4, <1>6, <1>10 DEF SaveLookup
<1> QED
  BY <1>7, <1>8, <1>9, <1>10

LEMMA StoreFailsStep ==
    ASSUME IInv, NEW u \in Uploaders, StoreFails(u)
    PROVE  IInv'
<1>1. upload[u] \in Uploads /\ UploadOK(upload[u]) /\ broken \subseteq Ids
  BY DEF IInv, Types
<1>2. "unhandled" \in Replies \ {"stored"}
  BY DEF Replies
<1>3. At(u, "chunk") => upload[u].document \in Ids
  <2>1. inserted \in 0..MaxDocuments /\ MaxDocuments \in Nat
    BY IngestAssumption DEF IInv, Types
  <2> QED
    BY <1>1, <2>1 DEF UploadOK, At, Ids
<1>4. broken \subseteq broken' /\ broken' \subseteq Ids
  BY <1>1, <1>3 DEF StoreFails
<1>5. At(u, "chunk") => upload[u].document \in broken'
  BY DEF StoreFails
<1> QED
  BY <1>2, <1>4, <1>5, RefusalStep DEF StoreFails

LEMMA SavedStep ==
    ASSUME IInv, NEW u \in Uploaders, Saved(u)
    PROVE  IInv'
<1>1. upload[u] \in Uploads /\ UploadOK(upload[u]) /\ broken \subseteq Ids
  BY DEF IInv, Types
<1>2. PICK up : up = [upload[u] EXCEPT !.pc = "reply", !.reply = "stored"]
  OBVIOUS
<1>3. /\ up \in Uploads /\ up.pc = "reply" /\ up.reply = "stored"
      /\ up.document = upload[u].document
  BY <1>1, <1>2 DEF Uploads, Replies
<1>4. upload[u].pc = "chunk" /\ upload[u].written = Chunks(upload[u].file)
  BY <1>1 DEF Saved, At, AllWritten, Unwritten, UploadOK
<1>5. \A d \in documents : d.id = upload[u].document => Complete(d)
  BY <1>1, <1>4 DEF UploadOK, Complete
<1>6. UploadOK(up)
  BY <1>1, <1>3, <1>4, <1>5 DEF UploadOK
<1>7. upload' = [upload EXCEPT ![u] = up]
  BY <1>2 DEF Saved, Reply, IInv, Types
<1> QED
  BY <1>1, <1>3, <1>5, <1>6, <1>7, StayStep DEF Saved

-----------------------------------------------------------------------------
(* Steps that write *)

LEMMA InsertDocumentStep ==
    ASSUME IInv, NEW u \in Uploaders, InsertDocument(u)
    PROVE  IInv'
<1>1. /\ upload[u] \in Uploads /\ UploadOK(upload[u]) /\ broken \subseteq Ids
      /\ upload[u].pc = "insert" /\ documents \subseteq Documents
      /\ inserted \in 0..MaxDocuments /\ MaxDocuments \in Nat
  BY IngestAssumption DEF IInv, Types, InsertDocument, At
<1>2. PICK t \in Tenants, f \in Files : t = upload[u].tenant /\ f = upload[u].file
  BY <1>1 DEF Uploads
<1>3. CASE ~Insertable(t, f)
  <2>1. "unhandled" \in Replies \ {"stored"} /\ ~At(u, "chunk")
    BY <1>1 DEF Replies, At
  <2> QED
    BY <1>1, <1>2, <1>3, <2>1, RefusalStep DEF InsertDocument
<1>4. CASE Insertable(t, f)
  <2>0. inserted < MaxDocuments
    BY <1>2, <1>4 DEF InsertDocument
  <2>1. PICK id \in Ids : id = inserted + 1
    BY <1>1, <2>0 DEF Ids
  <2>2. PICK new \in Documents : new = [id |-> id, tenant |-> t, file |-> f]
    BY DEF Documents
  <2>3. /\ inserted' = id
        /\ documents' = documents \cup {new}
        /\ upload' = [upload EXCEPT ![u].pc = "chunk", ![u].document = id]
        /\ UNCHANGED <<chunks, broken>>
    BY <1>2, <1>4, <2>1, <2>2 DEF InsertDocument
  <2>4. PICK up : up = [upload[u] EXCEPT !.pc = "chunk", !.document = id]
    OBVIOUS
  <2>5. id \in 0..MaxDocuments
    BY <1>1, <2>1 DEF Ids
  <2>6. /\ up \in Uploads /\ up.pc = "chunk" /\ up.document = id /\ up.file = f
        /\ up.written = {} /\ up.reply = "none"
    BY <1>1, <1>2, <2>4, <2>5 DEF Uploads, UploadOK
  <2>7. upload' = [upload EXCEPT ![u] = up]
    BY <2>3, <2>4 DEF IInv, Types
  <2>8. upload'[u] = up /\ \A v \in Uploaders : v # u => upload'[v] = upload[v]
    BY <2>7 DEF IInv, Types
  <2>9. Types'
    <3>1. upload' \in [Uploaders -> Uploads]
      BY <2>6, <2>7 DEF IInv, Types
    <3> QED
      BY <1>1, <2>3, <2>5, <3>1 DEF IInv, Types
  <2>10. \A i : ChunksOf(i)' = ChunksOf(i)
    BY <2>3 DEF ChunksOf
  <2>11. ChunksOf(id) = {} /\ \A d \in documents : d.id # id
    <3>1. \A row \in chunks : row[1] # id
      BY <1>1, <2>1 DEF IInv, RowsOK
    <3>2. \A c : <<id, c>> \notin chunks
      BY <3>1
    <3>3. \A d \in documents : d.id # id
      BY <1>1, <2>1 DEF IInv, RowsOK
    <3> QED
      BY <3>2, <3>3 DEF ChunksOf
  <2>12. \A i \in 1..inserted : i \in 1..inserted' /\ i # id
    BY <1>1, <2>1, <2>3
  <2>13. new.id = id /\ new.file = f
    BY <2>2
  <2>14. RowsOK'
    <3>1. ASSUME NEW d \in documents'
          PROVE  d.id \in 1..inserted' /\ ChunksOf(d.id)' \subseteq Chunks(d.file)
      <4>1. CASE d \in documents
        BY <2>10, <2>12, <4>1 DEF IInv, RowsOK
      <4>2. CASE d = new
        BY <1>1, <2>1, <2>3, <2>10, <2>11, <2>13, <4>2
      <4> QED
        BY <2>3, <4>1, <4>2
    <3>2. \A d, e \in documents' : d.id = e.id => d = e
      BY <2>3, <2>11, <2>13 DEF IInv, RowsOK
    <3>3. \A row \in chunks' : row[1] \in 1..inserted'
      BY <2>3, <2>12 DEF IInv, RowsOK
    <3> QED
      BY <3>1, <3>2, <3>3 DEF RowsOK
  <2>15. UploadOK(upload[u])'
    <3>1. \A d \in documents' : d.id = id => d = new
      BY <2>3, <2>11
    <3>2. id \in 1..inserted'
      BY <1>1, <2>1, <2>3
    <3> QED
      BY <2>6, <2>8, <2>10, <2>11, <2>13, <3>1, <3>2 DEF UploadOK
  <2>16. ASSUME NEW v \in Uploaders, v # u PROVE UploadOK(upload[v])'
    <3>1. upload'[v] = upload[v] /\ UploadOK(upload[v])
      BY <2>8, <2>16 DEF IInv
    <3>2. upload[v].document \in 1..inserted => upload[v].document \in 1..inserted'
      BY <2>12
    <3>3. upload[v].document \in 1..inserted =>
             \A d \in documents' : d.id = upload[v].document => d \in documents
      BY <2>3, <2>12, <2>13
    <3> QED
      BY <2>10, <3>1, <3>2, <3>3 DEF UploadOK, Complete
  <2>17. Apart'
    <3>1. \A v \in Uploaders : v # u /\ At(v, "chunk") => upload[v].document # id
      BY <2>12 DEF IInv, UploadOK, At
    <3> QED
      BY <2>6, <2>8, <3>1 DEF IInv, Apart, At
  <2>18. ListedCountsHold'
    <3> SUFFICES ASSUME NEW d \in documents'
                 PROVE  InFlight(d.id)' \/ Complete(d)' \/ d.id \in broken'
      BY DEF ListedCountsHold
    <3>1. CASE d = new
      BY <2>6, <2>8, <2>13, <3>1 DEF InFlight, At
    <3>2. CASE d \in documents
      <4>1. Complete(d) => Complete(d)'
        BY <2>10 DEF Complete
      <4>2. InFlight(d.id) => InFlight(d.id)'
        BY <1>1, <2>8 DEF InFlight, At
      <4> QED
        BY <2>3, <3>2, <4>1, <4>2 DEF IInv, ListedCountsHold
    <3> QED
      BY <2>3, <3>1, <3>2
  <2> QED
    BY <2>9, <2>14, <2>15, <2>16, <2>17, <2>18 DEF IInv
<1> QED
  BY <1>3, <1>4

LEMMA InsertChunkStep ==
    ASSUME IInv, NEW u \in Uploaders, InsertChunk(u)
    PROVE  IInv'
<1>1. /\ upload[u] \in Uploads /\ UploadOK(upload[u]) /\ broken \subseteq Ids
      /\ upload[u].pc = "chunk" /\ documents \subseteq Documents
      /\ inserted \in 0..MaxDocuments /\ MaxDocuments \in Nat
  BY IngestAssumption DEF IInv, Types, InsertChunk, At
<1>2. CASE ~ReferencesDocument(upload[u].document)
  <2>1. "unhandled" \in Replies \ {"stored"}
    BY DEF Replies
  <2>2. \A d \in documents : d.id # upload[u].document
    BY <1>2 DEF ReferencesDocument, Exists
  <2>3. /\ Reply(u, "unhandled")
        /\ UNCHANGED <<inserted, documents, chunks, broken>>
    BY <1>2 DEF InsertChunk
  <2> QED
    BY <1>1, <2>1, <2>2, <2>3, RefusalStep
<1>3. CASE ReferencesDocument(upload[u].document)
  <2>1. PICK id : id = upload[u].document
    OBVIOUS
  <2>2. PICK c \in Unwritten(u) :
           /\ chunks' = chunks \cup {<<upload[u].document, c>>}
           /\ upload' = [upload EXCEPT ![u].written = @ \cup {c}]
    BY <1>3 DEF InsertChunk
  <2>3. /\ chunks' = chunks \cup {<<id, c>>}
        /\ UNCHANGED <<inserted, documents, broken>>
    BY <2>1, <2>2 DEF InsertChunk
  <2>4. /\ upload[u].file \in Files /\ upload[u].written \subseteq AllChunks
        /\ id \in 1..inserted /\ id \in Ids
    BY <1>1, <2>1 DEF UploadOK, Uploads, Ids
  <2>5. c \in Chunks(upload[u].file) /\ c \notin upload[u].written /\ c \in AllChunks
    BY <2>4 DEF Unwritten, AllChunks
  <2>6. PICK up : up = [upload[u] EXCEPT !.written = upload[u].written \cup {c}]
    OBVIOUS
  <2>7. /\ up \in Uploads /\ up.pc = "chunk" /\ up.document = id /\ up.file = upload[u].file
        /\ up.written = upload[u].written \cup {c} /\ up.reply = upload[u].reply
    <3>1. upload[u].written \cup {c} \in SUBSET AllChunks
      BY <2>4, <2>5
    <3> QED
      BY <1>1, <2>1, <2>6, <3>1 DEF Uploads
  <2>8. upload' = [upload EXCEPT ![u] = up]
    BY <2>2, <2>6 DEF IInv, Types
  <2>9. upload'[u] = up /\ \A v \in Uploaders : v # u => upload'[v] = upload[v]
    BY <2>8 DEF IInv, Types
  <2>10. Types'
    <3>1. upload' \in [Uploaders -> Uploads]
      BY <2>7, <2>8 DEF IInv, Types
    <3>2. chunks' \subseteq Ids \X AllChunks
      BY <2>3, <2>4, <2>5 DEF IInv, Types
    <3> QED
      BY <2>3, <3>1, <3>2 DEF IInv, Types
  <2>11. ChunksOf(id)' = ChunksOf(id) \cup {c}
    BY <2>3, <2>5 DEF ChunksOf
  <2>12. \A i : i # id => ChunksOf(i)' = ChunksOf(i)
    BY <2>3 DEF ChunksOf
  <2>13. \A d \in documents : d.id = id =>
            d.file = upload[u].file /\ ChunksOf(d.id) = upload[u].written
    BY <1>1, <2>1 DEF UploadOK
  <2>14. RowsOK'
    <3>1. ASSUME NEW d \in documents
          PROVE  d.id \in 1..inserted /\ ChunksOf(d.id)' \subseteq Chunks(d.file)
      <4>1. d.id \in 1..inserted /\ ChunksOf(d.id) \subseteq Chunks(d.file)
        BY DEF IInv, RowsOK
      <4>2. CASE d.id = id
        BY <2>5, <2>11, <2>13, <4>1, <4>2
      <4>3. CASE d.id # id
        BY <2>12, <4>1, <4>3
      <4> QED
        BY <4>2, <4>3
    <3>2. \A row \in chunks' : row[1] \in 1..inserted
      BY <2>3, <2>4 DEF IInv, RowsOK
    <3>3. \A d, e \in documents : d.id = e.id => d = e
      BY DEF IInv, RowsOK
    <3> QED
      BY <2>3, <3>1, <3>2, <3>3 DEF RowsOK
  <2>15. UploadOK(upload[u])'
    <3>1. \A d \in documents' : d.id = id =>
             d.file = up.file /\ ChunksOf(d.id)' = up.written
      BY <2>3, <2>7, <2>11, <2>13
    <3>2. up.reply = "none" /\ up.written \subseteq Chunks(up.file)
      BY <1>1, <2>5, <2>7 DEF UploadOK
    <3>3. id \in 1..inserted'
      BY <2>3, <2>4
    <3> QED
      BY <2>7, <2>9, <3>1, <3>2, <3>3 DEF UploadOK
  <2>16. ASSUME NEW v \in Uploaders, v # u PROVE UploadOK(upload[v])'
    <3>1. upload'[v] = upload[v] /\ UploadOK(upload[v])
      BY <2>9, <2>16 DEF IInv
    <3>2. upload[v].pc = "chunk" => upload[v].document # id
      BY <1>1, <2>1, <2>16 DEF IInv, Apart, At
    <3>3. upload[v].reply = "stored" =>
             \A d \in documents : d.id = upload[v].document => d.id # id
      BY <2>5, <2>13, <3>1 DEF UploadOK, Complete
    <3> QED
      BY <2>3, <2>12, <3>1, <3>2, <3>3 DEF UploadOK, Complete
  <2>17. Apart'
    <3>1. upload'[u].pc = upload[u].pc /\ upload'[u].document = upload[u].document
      BY <1>1, <2>1, <2>7, <2>9
    <3>2. \A v \in Uploaders :
             upload'[v].pc = upload[v].pc /\ upload'[v].document = upload[v].document
      BY <2>9, <3>1
    <3> QED
      BY <3>2 DEF IInv, Apart, At
  <2>18. ListedCountsHold'
    <3> SUFFICES ASSUME NEW d \in documents
                 PROVE  InFlight(d.id)' \/ Complete(d)' \/ d.id \in broken
      BY <2>3 DEF ListedCountsHold
    <3>1. CASE d.id = id
      BY <2>7, <2>9, <3>1 DEF InFlight, At
    <3>2. CASE d.id # id
      <4>1. Complete(d) => Complete(d)'
        BY <2>12, <3>2 DEF Complete
      <4>2. InFlight(d.id) => InFlight(d.id)'
        BY <2>1, <2>9, <3>2 DEF InFlight, At
      <4> QED
        BY <4>1, <4>2 DEF IInv, ListedCountsHold
    <3> QED
      BY <3>1, <3>2
  <2> QED
    BY <2>10, <2>14, <2>15, <2>16, <2>17, <2>18 DEF IInv
<1> QED
  BY <1>2, <1>3

LEMMA DeleteStep ==
    ASSUME IInv, Delete
    PROVE  IInv'
<1>1. PICK gone \in documents :
         documents' = documents \ {gone} /\ chunks' = Cascade(gone.id)
  BY DEF Delete
<1>2. UNCHANGED <<inserted, upload, broken>>
  BY DEF Delete
<1>3. documents' \subseteq documents /\ chunks' \subseteq chunks
  BY <1>1 DEF Cascade
<1>4. \A d \in documents' : d.id # gone.id
  BY <1>1 DEF IInv, RowsOK
<1>5. \A i : i # gone.id => ChunksOf(i)' = ChunksOf(i)
  BY <1>1 DEF ChunksOf, Cascade
<1>6. \A d \in documents' : ChunksOf(d.id)' = ChunksOf(d.id) /\ (Complete(d)' <=> Complete(d))
  BY <1>4, <1>5 DEF Complete
<1>7. Types'
  BY <1>2, <1>3 DEF IInv, Types
<1>8. RowsOK'
  BY <1>2, <1>3, <1>6 DEF IInv, RowsOK
<1>9. \A u \in Uploaders : UploadOK(upload[u])'
  <2> SUFFICES ASSUME NEW u \in Uploaders PROVE UploadOK(upload[u])'
    OBVIOUS
  <2>1. UploadOK(upload[u])
    BY DEF IInv
  <2> QED
    BY <1>2, <1>3, <1>6, <2>1 DEF UploadOK
<1>10. Apart'
  BY <1>2 DEF IInv, Apart, At
<1>11. ListedCountsHold'
  BY <1>2, <1>3, <1>6 DEF IInv, ListedCountsHold, InFlight, At
<1> QED
  BY <1>7, <1>8, <1>9, <1>10, <1>11 DEF IInv

LEMMA UnchangedStep ==
    ASSUME IInv, UNCHANGED vars
    PROVE  IInv'
<1>1. UNCHANGED <<inserted, documents, chunks, upload, broken>>
  BY DEF vars
<1>2. Types' /\ Apart'
  BY <1>1 DEF IInv, Types, Apart, At
<1>3. \A i : ChunksOf(i)' = ChunksOf(i)
  BY <1>1 DEF ChunksOf
<1>4. RowsOK' /\ ListedCountsHold'
  BY <1>1, <1>3 DEF IInv, RowsOK, ListedCountsHold, InFlight, At, Complete
<1>5. \A u \in Uploaders : UploadOK(upload[u])'
  BY <1>1, <1>3 DEF IInv, UploadOK, Complete
<1> QED
  BY <1>2, <1>4, <1>5 DEF IInv

LEMMA IInvNext == IInv /\ [Next]_vars => IInv'
<1> SUFFICES ASSUME IInv, [Next]_vars PROVE IInv'
  OBVIOUS
<1>1. CASE UNCHANGED vars
  BY <1>1, UnchangedStep
<1>2. CASE Delete
  BY <1>2, DeleteStep
<1>3. ASSUME NEW u \in Uploaders, Receive(u) \/ Work(u) PROVE IInv'
  <2>1. CASE Receive(u) \/ Deliver(u)
    BY <2>1, ReceiveStep
  <2>2. CASE CheckUpload(u) \/ LookupHash(u) \/ ParseAndEmbed(u) \/ SaveLookup(u)
    BY <2>2, CheckStep
  <2>3. CASE InsertDocument(u)
    BY <2>3, InsertDocumentStep
  <2>4. CASE InsertChunk(u)
    BY <2>4, InsertChunkStep
  <2>5. CASE Saved(u)
    BY <2>5, SavedStep
  <2>6. CASE StoreFails(u)
    BY <2>6, StoreFailsStep
  <2> QED
    BY <1>3, <2>1, <2>2, <2>3, <2>4, <2>5, <2>6 DEF Work
<1> QED
  BY <1>1, <1>2, <1>3 DEF Next

LEMMA IInvAlways == Spec => []IInv
<1> QED
  BY IInvInit, IInvNext, PTL DEF Spec

-----------------------------------------------------------------------------
(* The properties *)

(* No chunk of a document without words is ever stored, whatever the chunk  *)
(* size and overlap (rag/chunker.py, the step and the end of _split).       *)
THEOREM IngestTypeCorrect == Spec => []TypeOK
<1>1. ASSUME IInv PROVE TypeOK
  <2>1. ASSUME NEW d \in documents, NEW c \in ChunksOf(d.id)
        PROVE  WordsOf(c[2], Sections[d.file][c[1]]) # {}
    <3>1. d.file \in Files /\ c \in Chunks(d.file)
      BY <1>1 DEF IInv, Types, RowsOK, Documents
    <3> QED
      BY <3>1, ChunkHasWords
  <2> QED
    BY <1>1, <2>1 DEF IInv, Types, TypeOK
<1> QED
  BY <1>1, IInvAlways, PTL

(* A "stored" reply names a document every word of which is in a chunk, for *)
(* every file, chunk size and overlap, with any number of uploads of the    *)
(* same file, deletions and store failures in between (rag/ingest.py,       *)
(* save_document in rag/store.py).                                          *)
THEOREM ReceiptsAreComplete == Spec => []ReceiptIsComplete
<1>1. ASSUME IInv PROVE ReceiptIsComplete
  <2> SUFFICES ASSUME NEW u \in Uploaders, NEW d \in documents,
                      upload[u].reply = "stored", d.id = upload[u].document
               PROVE  Readable(d)
    BY DEF ReceiptIsComplete
  <2>1. UploadOK(upload[u]) /\ d \in Documents
    BY <1>1 DEF IInv, Types
  <2>2. Complete(d)
    BY <2>1 DEF UploadOK
  <2> QED
    BY <2>1, <2>2, CompleteIsReadable
<1> QED
  BY <1>1, IInvAlways, PTL

(* A listed document whose upload is neither under way nor broken off has   *)
(* the chunks its row counts (list_documents in rag/store.py).              *)
THEOREM ListedCountsAreTrue == Spec => []ListedCountsHold
<1>1. IInv => ListedCountsHold
  BY DEF IInv
<1> QED
  BY <1>1, IInvAlways, PTL
(* A tenant never has two documents of one file, although both hash lookups *)
(* of an upload may precede the row of another (rag/store.py, the UNIQUE of *)
(* rag/schema.sql).                                                         *)
THEOREM OneDocumentPerHash == Spec => []OneDocumentPerFile
<1>1. Init => OneDocumentPerFile
  BY DEF Init, OneDocumentPerFile
<1>2. ASSUME OneDocumentPerFile, [Next]_vars PROVE OneDocumentPerFile'
  <2>1. CASE documents' \subseteq documents
    BY <1>2, <2>1 DEF OneDocumentPerFile
  <2>2. ASSUME NEW u \in Uploaders, InsertDocument(u) PROVE OneDocumentPerFile'
    <3>1. PICK t, f : t = upload[u].tenant /\ f = upload[u].file
      OBVIOUS
    <3>2. CASE ~Insertable(t, f)
      BY <2>1, <2>2, <3>1, <3>2 DEF InsertDocument
    <3>3. CASE Insertable(t, f)
      <4>1. PICK new : new.tenant = t /\ new.file = f /\ documents' = documents \cup {new}
        BY <2>2, <3>1, <3>3 DEF InsertDocument
      <4>2. \A d \in documents : ~(d.tenant = t /\ d.file = f)
        BY <3>3 DEF Insertable, FoundByHash
      <4> QED
        BY <1>2, <4>1, <4>2 DEF OneDocumentPerFile
    <3> QED
      BY <3>2, <3>3
  <2>3. ASSUME NEW u \in Uploaders, Receive(u) \/ Work(u), ~InsertDocument(u)
        PROVE  OneDocumentPerFile'
    <3>1. UNCHANGED documents
      BY <2>3 DEF Receive, Work, CheckUpload, LookupHash, ParseAndEmbed, SaveLookup,
                  InsertChunk, Saved, StoreFails, Deliver
    <3> QED
      BY <2>1, <3>1
  <2>4. CASE Delete
    BY <2>1, <2>4 DEF Delete
  <2>5. CASE UNCHANGED vars
    BY <2>1, <2>5 DEF vars
  <2> QED
    BY <1>2, <2>2, <2>3, <2>4, <2>5 DEF Next
<1> QED
  BY <1>1, <1>2, PTL DEF Spec
=============================================================================
