--------------------------- MODULE DocumentIngest ---------------------------
(***************************************************************************)
(* Document upload, listing and deletion (api/documents.py, rag/ingest.py, *)
(* rag/chunker.py, rag/store.py) over rag_documents and rag_chunks         *)
(* (rag/schema.sql).                                                       *)
(*                                                                         *)
(* An upload is a chain of transactions, one per query: the hash lookup of *)
(* ingest, the hash lookup of save_document, the document row, and each    *)
(* chunk row.  Uploads and deletions run in a thread pool and interleave   *)
(* between any two of them.                                                *)
(*                                                                         *)
(* A file stands for its content and so for its hash.  To the chunker it   *)
(* is a sequence of sections, across its pages, and a section a number of  *)
(* words; a chunk is named by its section and its place among the pieces   *)
(* of that section, the order of chunk_index.  Documents are numbered in   *)
(* insertion order, standing for their UUIDs; deletion leaves the number   *)
(* unused.                                                                 *)
(***************************************************************************)
EXTENDS Integers, Sequences, FiniteSets

CONSTANTS
    Uploaders,    \* threads inside the upload handler
    Tenants,
    Files,
    Sections,     \* the number of words of each section of each file
    ChunkSize,    \* words of a chunk (rag.chunk_size)
    ChunkOverlap, \* words a chunk repeats of the one before (rag.chunk_overlap)
    Deletions,    \* whether documents are deleted
    Outages,      \* whether the store or the embedding call may fail
    MaxDocuments  \* bound: documents inserted in one behaviour

ASSUME IngestAssumption ==
    /\ Sections \in [Files -> Seq(Nat)]
    /\ ChunkSize \in Nat \ {0}
    /\ ChunkOverlap \in Nat
    /\ Tenants # {} /\ Files # {}
    /\ {Deletions, Outages} \subseteq BOOLEAN
    /\ MaxDocuments \in Nat

VARIABLES
    inserted,   \* documents inserted so far
    documents,  \* rag_documents: the tenant and file of each document
    chunks,     \* rag_chunks: the document of each chunk, and which it is
    upload,     \* the request each uploader runs
    broken      \* history: documents whose upload broke off between chunks

vars == <<inserted, documents, chunks, upload, broken>>

-----------------------------------------------------------------------------

(* rag/chunker.py *)

\* Mutant: the overlap is added where it is to be taken off.
StepOverGap == ChunkSize + ChunkOverlap

\* How far _split moves on from one piece to the next.
Step == IF ChunkSize > ChunkOverlap THEN ChunkSize - ChunkOverlap ELSE 1

\* Mutant: the loop runs on to the end of the words.
PiecesAndEmpty(n) == {k \in 0..n : k * Step <= n}

\* The pieces of a section of n words: one starts at every multiple of Step
\* before its end.
PiecesOf(n) == {k \in 0..n : k * Step < n}

\* The words of such a piece.
WordsOf(k, n) == {w \in 1..n : k * Step < w /\ w <= k * Step + ChunkSize}

\* chunk_pages: every piece of every section.
Chunks(f) == UNION {{s} \X PiecesOf(Sections[f][s]) : s \in DOMAIN Sections[f]}
AllChunks == UNION {Chunks(f) : f \in Files}

\* chunk_index counts through the sections.
Before(c, d) == c[1] < d[1] \/ (c[1] = d[1] /\ c[2] < d[2])

-----------------------------------------------------------------------------

Ids == 1..MaxDocuments
Documents == [id : Ids, tenant : Tenants, file : Files]

\* The reply's errorType; "unreadable" and "unhandled" are exceptions of a
\* parser and of the store that no handler catches.
Replies == {"none", "stored", "duplicate", "INGEST_FAILED", "UNSUPPORTED_FORMAT",
            "unreadable", "unhandled"}

Uploads == [pc : {"idle", "parse", "lookup", "embed", "save", "insert", "chunk", "reply"},
            tenant : Tenants, file : Files, document : 0..MaxDocuments,
            written : SUBSET AllChunks, reply : Replies]

NoUpload == [pc |-> "idle", tenant |-> CHOOSE t \in Tenants : TRUE,
             file |-> CHOOSE f \in Files : TRUE, document |-> 0, written |-> {},
             reply |-> "none"]

Init ==
    /\ inserted = 0
    /\ documents = {}
    /\ chunks = {}
    /\ upload = [u \in Uploaders |-> NoUpload]
    /\ broken = {}

At(u, step) == upload[u].pc = step
Goto(u, step) == upload' = [upload EXCEPT ![u].pc = step]
Reply(u, reply) == upload' = [upload EXCEPT ![u].pc = "reply", ![u].reply = reply]

\* find_by_hash
FoundByHash(t, f) == {d \in documents : d.tenant = t /\ d.file = f}
Existing(u) == FoundByHash(upload[u].tenant, upload[u].file)
Exists(id) == \E d \in documents : d.id = id
ChunksOf(id) == {c \in AllChunks : <<id, c>> \in chunks}

\* The document has the chunks that its row counts.
Complete(d) == ChunksOf(d.id) = Chunks(d.file)

\* Every word of the document is in one of its chunks.
Readable(d) ==
    \A s \in DOMAIN Sections[d.file] : \A w \in 1..Sections[d.file][s] :
        \E c \in ChunksOf(d.id) : c[1] = s /\ w \in WordsOf(c[2], Sections[d.file][s])

-----------------------------------------------------------------------------

\* A file is uploaded.
Receive(u) ==
    /\ At(u, "idle")
    /\ \E t \in Tenants, f \in Files :
          upload' = [upload EXCEPT ![u] =
                       [NoUpload EXCEPT !.pc = "parse", !.tenant = t, !.file = f]]
    /\ UNCHANGED <<inserted, documents, chunks, broken>>

\* ingest: the suffix and the size are checked before anything else.
CheckUpload(u) ==
    /\ At(u, "parse")
    /\ \/ Goto(u, "lookup")
       \/ \E refusal \in {"UNSUPPORTED_FORMAT", "INGEST_FAILED"} : Reply(u, refusal)
    /\ UNCHANGED <<inserted, documents, chunks, broken>>

\* ingest: re-upload of a known hash answers with the existing document.
LookupHash(u) ==
    /\ At(u, "lookup")
    /\ IF Existing(u) = {}
       THEN Goto(u, "embed")
       ELSE \E d \in Existing(u) :
               upload' = [upload EXCEPT ![u].pc = "reply", ![u].reply = "duplicate",
                                        ![u].document = d.id]
    /\ UNCHANGED <<inserted, documents, chunks, broken>>

\* ingest: a file without text, or a failing embedding call, is refused
\* before anything is stored.
ParseAndEmbed(u) ==
    /\ At(u, "embed")
    /\ \/ Chunks(upload[u].file) # {} /\ Goto(u, "save")
       \/ Reply(u, "INGEST_FAILED")
       \/ Reply(u, "unreadable")
    /\ UNCHANGED <<inserted, documents, chunks, broken>>

\* save_document looks the hash up again; None becomes an IngestError.
SaveLookup(u) ==
    /\ At(u, "save")
    /\ IF Existing(u) = {} THEN Goto(u, "insert") ELSE Reply(u, "INGEST_FAILED")
    /\ UNCHANGED <<inserted, documents, chunks, broken>>

\* Mutant: the schema leaves it to the lookups.
InsertableAlways(t, f) == TRUE

\* UNIQUE (tenant, file_hash) lets the row in.
Insertable(t, f) == FoundByHash(t, f) = {}

\* save_document: the document row; a duplicate raises past the handler.
InsertDocument(u) ==
    /\ At(u, "insert")
    /\ LET t == upload[u].tenant
           f == upload[u].file
       IN IF Insertable(t, f)
          THEN /\ inserted < MaxDocuments
               /\ inserted' = inserted + 1
               /\ documents' = documents \cup
                     {[id |-> inserted + 1, tenant |-> t, file |-> f]}
               /\ upload' = [upload EXCEPT ![u].pc = "chunk", ![u].document = inserted + 1]
          ELSE Reply(u, "unhandled") /\ UNCHANGED <<inserted, documents>>
    /\ UNCHANGED <<chunks, broken>>

\* The foreign key of rag_chunks lets the row in.
ReferencesDocument(id) == Exists(id)

\* The chunks save_document still has to insert.
Unwritten(u) == Chunks(upload[u].file) \ upload[u].written

\* Mutant: the last chunk is left out.
AllButOneWritten(u) == Cardinality(Unwritten(u)) <= 1

\* save_document: every chunk has its row.
AllWritten(u) == Unwritten(u) = {}

\* save_document: the next chunk row; a document deleted meanwhile raises.
InsertChunk(u) ==
    /\ At(u, "chunk") /\ ~AllWritten(u)
    /\ IF ReferencesDocument(upload[u].document)
       THEN \E c \in Unwritten(u) :
               /\ \A d \in Unwritten(u) : ~Before(d, c)
               /\ chunks' = chunks \cup {<<upload[u].document, c>>}
               /\ upload' = [upload EXCEPT ![u].written = @ \cup {c}]
       ELSE Reply(u, "unhandled") /\ UNCHANGED chunks
    /\ UNCHANGED <<inserted, documents, broken>>

\* save_document returns the record of what it stored.
Saved(u) ==
    /\ At(u, "chunk") /\ AllWritten(u)
    /\ Reply(u, "stored")
    /\ UNCHANGED <<inserted, documents, chunks, broken>>

\* A query of the store fails: what was committed before it stays.
StoreFails(u) ==
    /\ Outages
    /\ upload[u].pc \in {"lookup", "save", "insert"}
          \/ (At(u, "chunk") /\ ~AllWritten(u))
    /\ Reply(u, "unhandled")
    /\ broken' = broken \cup (IF At(u, "chunk") THEN {upload[u].document} ELSE {})
    /\ UNCHANGED <<inserted, documents, chunks>>

\* The response is sent.
Deliver(u) ==
    /\ At(u, "reply")
    /\ upload' = [upload EXCEPT ![u] = NoUpload]
    /\ UNCHANGED <<inserted, documents, chunks, broken>>

\* ON DELETE CASCADE
Cascade(id) == {c \in chunks : c[1] # id}

\* delete_document, in one statement.
Delete ==
    /\ Deletions
    /\ \E d \in documents :
          /\ documents' = documents \ {d}
          /\ chunks' = Cascade(d.id)
    /\ UNCHANGED <<inserted, upload, broken>>

-----------------------------------------------------------------------------

Work(u) ==
    \/ CheckUpload(u) \/ LookupHash(u) \/ ParseAndEmbed(u) \/ SaveLookup(u)
    \/ InsertDocument(u) \/ InsertChunk(u) \/ Saved(u) \/ StoreFails(u)
    \/ Deliver(u)

Next == Delete \/ \E u \in Uploaders : Receive(u) \/ Work(u)

Spec == Init /\ [][Next]_vars

-----------------------------------------------------------------------------

\* The type of every variable; the text of a chunk row is not empty.
TypeOK ==
    /\ inserted \in 0..MaxDocuments
    /\ documents \subseteq Documents
    /\ chunks \subseteq Ids \X AllChunks
    /\ \A d \in documents : \A c \in ChunksOf(d.id) : WordsOf(c[2], Sections[d.file][c[1]]) # {}
    /\ upload \in [Uploaders -> Uploads]
    /\ broken \subseteq Ids

\* "stored" is a true receipt: every word of the document it names is in a
\* chunk that questions find, or the document was deleted since.
ReceiptIsComplete ==
    \A u \in Uploaders : \A d \in documents :
        upload[u].reply = "stored" /\ d.id = upload[u].document => Readable(d)

InFlight(id) == \E u \in Uploaders : At(u, "chunk") /\ upload[u].document = id

\* "listed with chunk counts": a listed document has the chunks its row
\* counts, unless its upload is still under way or broke off.
ListedCountsHold ==
    \A d \in documents : InFlight(d.id) \/ Complete(d) \/ d.id \in broken

\* However uploads of one file overlap - both lookups of both may come
\* before either row - the tenant ends up with one document of that file.
OneDocumentPerFile ==
    \A d, e \in documents : d.tenant = e.tenant /\ d.file = e.file => d = e
=============================================================================
