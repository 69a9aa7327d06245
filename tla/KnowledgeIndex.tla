--------------------------- MODULE KnowledgeIndex ---------------------------
(***************************************************************************)
(* The knowledge index in SQLite (memory/sqlite_knowledge.py): documents,  *)
(* their chunks, and the full-text table that shadows the chunks and that  *)
(* a process with fts_enabled off neither writes nor clears.  An ingest is *)
(* one transaction; one that replaces its source first lists the ids of    *)
(* the source and deletes those in a transaction of its own.  A search     *)
(* reads the full-text table and, when that is not enough, the chunks, on  *)
(* another connection.  Failures between two steps and writers that        *)
(* overlap each other and a search are among the behaviours.               *)
(*                                                                         *)
(* One query is asked, and a text is told by how it answers it: the        *)
(* full-text table finds it, it scores ("both" if it does either way), or  *)
(* neither.  The two differ: FTS5 splits words at "_" and drops accents,   *)
(* tokenize of memory/store.py does not, and takes Chinese apart by        *)
(* characters.  A document stands for one of its chunks.                   *)
(***************************************************************************)
EXTENDS Naturals, FiniteSets, Functions

CONSTANTS
  Document,    \* the ids, which include the source (_document_id)
  SourceOf,    \* id -> the source label it is ingested under
  Wording,     \* what texts are to the query of a search, see AnyWording
  Scope,       \* the scopes documents may require
  Ingester,    \* processes that replace sources
  MaxHits,     \* the limit of a search
  MaxScan      \* max_scan_chunks

AnyWording == {"both", "match", "score", "none", "empty"}
IsFound(text) == text \in {"both", "match"}
Scores(text)  == text \in {"both", "score"}

ASSUME KnowledgeAssumption ==
  /\ IsFiniteSet(Document)
  /\ SourceOf \in [Document -> Range(SourceOf)]
  /\ Wording \subseteq AnyWording
  /\ MaxHits \in Nat \ {0} /\ MaxScan \in Nat

VARIABLES
  documents,   \* knowledge_documents: id -> its text and required scopes
  chunks,      \* knowledge_chunks
  fulltext,    \* knowledge_chunks_fts: the ids of the rows that match the query
  listed,      \* process -> the ids of the source it is about to delete
  search,      \* a search that has read the full-text table
  steady       \* history: the documents nobody wrote since it did

knowledgeVars == <<documents, chunks, fulltext, listed, search, steady>>

Absent == [text |-> "absent", required |-> {}]
Labelled(source) == {d \in Document : SourceOf[d] = source /\ documents[d] # Absent}

\* scopes: the actor's; found: id -> the row the full-text table led to; began:
\* the documents at that time, as history.
NoSearch == [pc |-> "none", scopes |-> {}, found |-> << >>, began |-> << >>]

-----------------------------------------------------------------------------
\* _delete_source: the ids are read before the transaction begins ...
SelectSource(i, source) ==
  /\ listed[i] = {}
  /\ listed' = [listed EXCEPT ![i] = Labelled(source)]
  /\ UNCHANGED <<documents, chunks, fulltext, search, steady>>

\* ... that deletes them; the chunks go with their document (on delete cascade).
DeleteSource(i, fts) ==
  /\ listed[i] # {}
  /\ documents' = [d \in Document |-> IF d \in listed[i] THEN Absent ELSE documents[d]]
  /\ chunks' = [d \in Document |-> IF d \in listed[i] THEN Absent ELSE chunks[d]]
  /\ fulltext' = IF fts THEN fulltext \ listed[i] ELSE fulltext
  /\ listed' = [listed EXCEPT ![i] = {}]
  /\ steady' = steady \ listed[i]
  /\ UNCHANGED search

\* Empty documents are skipped, and those whose content and scopes have not changed.
Skipped(d, doc) == doc.text = "empty" \/ doc = documents[d]

\* The transaction of ingest_documents, for a batch: id -> document.  (One that
\* skips all of them is no step.)
Ingest(batch, fts) ==
  LET written == {d \in DOMAIN batch : ~ Skipped(d, batch[d])}
      Put(table) == [d \in Document |-> IF d \in written THEN batch[d] ELSE table[d]]
  IN
  /\ written # {}
  /\ documents' = Put(documents)
  /\ chunks' = Put(chunks)
  /\ fulltext' = IF fts THEN (fulltext \ written) \cup {d \in written : IsFound(batch[d].text)}
                        ELSE fulltext
  /\ steady' = steady \ written
  /\ UNCHANGED <<listed, search>>

Batches(source) ==
  UNION {[D -> [text : Wording, required : SUBSET Scope]] :
           D \in SUBSET {d \in Document : SourceOf[d] = source}}

-----------------------------------------------------------------------------
(* A search by an actor with some scopes. *)

Chunks == {d \in Document : chunks[d] # Absent}

\* What a read of rows returns; which ones its limit cuts off depends on when
\* they were written (_scan_rows) and on the full-text index (_candidate_rows).
Read(rows) == {some \in SUBSET rows : Cardinality(some) = IF Cardinality(rows) > MaxScan
                                                         THEN MaxScan ELSE Cardinality(rows)}
Scans == Read(Chunks)

\* The join of the full-text rows that match with the chunks.
Found(fts) == IF fts THEN Chunks \cap fulltext ELSE {}

\* _candidate_rows on its first connection.
StartSearch(scopes, fts) ==
  /\ search = NoSearch
  /\ \E some \in Read(Found(fts)) :
       search' = [pc |-> "reading", scopes |-> scopes, found |-> [d \in some |-> chunks[d]],
                  began |-> documents]
  /\ steady' = Document
  /\ UNCHANGED <<documents, chunks, fulltext, listed>>

Hit(d, row) == [id |-> d, row |-> row]
FoundRows   == {Hit(d, search.found[d]) : d \in DOMAIN search.found}
Extra(scan) == {Hit(d, chunks[d]) : d \in scan \ DOMAIN search.found}
Visible(rows) == {h \in rows : h.row.required \subseteq search.scopes}

\* A fault: rows the actor may not see count as found.
CandidatesAnyhow(scan) ==
  IF Cardinality(FoundRows) >= MaxHits THEN FoundRows ELSE FoundRows \cup Extra(scan)

\* Nothing found, or too little of it visible: the rows of a scan are added.
Candidates(scan) ==
  IF Cardinality(Visible(FoundRows)) >= MaxHits THEN FoundRows ELSE FoundRows \cup Extra(scan)

\* What is scored above zero; the first MaxHits of these are the hits.
Scored(scan) == {h \in Visible(Candidates(scan)) : Scores(h.row.text)}

\* The scan, on the second connection, and the answer.
FinishSearch ==
  /\ search.pc = "reading"
  /\ search' = NoSearch /\ steady' = {}
  /\ UNCHANGED <<documents, chunks, fulltext, listed>>

-----------------------------------------------------------------------------
KnowledgeInit ==
  /\ documents = [d \in Document |-> Absent]
  /\ chunks = [d \in Document |-> Absent]
  /\ fulltext = {}
  /\ listed = [i \in Ingester |-> {}]
  /\ search = NoSearch /\ steady = {}

KnowledgeNext ==
  \/ \E source \in Range(SourceOf) :
       \/ \E i \in Ingester : SelectSource(i, source)
       \/ \E batch \in Batches(source), fts \in BOOLEAN : Ingest(batch, fts)
  \/ \E i \in Ingester, fts \in BOOLEAN : DeleteSource(i, fts)
  \/ \E scopes \in SUBSET Scope, fts \in BOOLEAN : StartSearch(scopes, fts)
  \/ FinishSearch

KnowledgeSpec == KnowledgeInit /\ [][KnowledgeNext]_knowledgeVars

-----------------------------------------------------------------------------
Answers(doc) == Scores(doc.text) /\ doc.required \subseteq search.scopes

(***************************************************************************)
(* A search gives an actor only documents that they might see and that     *)
(* answered the query, as they were when it began or when it ended; and    *)
(* of the documents nobody wrote meanwhile it leaves none out, unless it   *)
(* has as many hits as it may give: restricted documents do not crowd out  *)
(* visible ones, and chunks that a process wrote without their full-text   *)
(* rows are found (sqlite_knowledge.py:121, 513, 546).  That none is left  *)
(* out takes an index with no more chunks than a scan reads, and that the  *)
(* rows found by their full text, and visible, do score.                   *)
(***************************************************************************)
SearchServesDocuments ==
  [][FinishSearch => \A scan \in Scans :
       LET scored == Scored(scan) IN
       /\ \A h \in scored : Answers(h.row) /\ h.row \in {search.began[h.id], documents[h.id]}
       /\ Cardinality(Chunks) <= MaxScan /\ (\A h \in Visible(FoundRows) : Scores(h.row.text)) =>
            \/ \A d \in steady : Answers(documents[d]) => \E h \in scored : h.id = d
            \/ Cardinality(scored) >= MaxHits]_knowledgeVars
=============================================================================
