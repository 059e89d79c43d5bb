----------------------------- MODULE Clustering -----------------------------
(***************************************************************************)
(* The smart_clustering node, loop by loop: the file is rasterised, every  *)
(* page is classified by one VLM call, and the pages are grouped into      *)
(* logical documents.  A page the classifier fails on is UNKNOWN, never    *)
(* lost; a file that cannot be rasterised fails the dossier.  Exceptions   *)
(* of any other kind are not caught: the node returns nothing.             *)
(***************************************************************************)
EXTENDS PageGrouping

CONSTANTS
  MaxPages,    (* bound: pages of a file                                   *)
  Answered     (* bound: label sets the classifier's answers mention       *)

ASSUME ClusteringAssumption ==
  /\ MaxPages \in Nat
  /\ Answered \subseteq SUBSET PageTypes

VARIABLES
  phase,               (* loop the node is in                              *)
  page_count,          (* pages render_pages returned                      *)
  page_types,          (* raw_pages: types of the pages classified so far  *)
  warnings,            (* pages a warning was recorded for                 *)
  position,            (* pages the grouping loop has gone past            *)
  grouped_documents,
  dossier_status

vars == <<phase, page_count, page_types, warnings, position,
          grouped_documents, dossier_status>>

Document ==
  [doc_type: PageTypes, ordinal: 1..MaxPages, page_indexes: Seq(1..MaxPages)]

TypeOK ==
  /\ phase \in {"render", "classify", "group", "done", "raised"}
  /\ page_count \in 0..MaxPages
  /\ page_types \in Seq(PageTypes)
  /\ Len(page_types) <= page_count
  /\ warnings \subseteq DOMAIN page_types
  /\ position \in 0..Len(page_types)
  /\ grouped_documents \in Seq(Document)
  /\ dossier_status \in {"PROCESSING", "FAILED"}

Init ==
  /\ phase = "render"
  /\ page_count = 0
  /\ page_types = << >>
  /\ warnings = {}
  /\ position = 0
  /\ grouped_documents = << >>
  /\ dossier_status = "PROCESSING"

(* An empty payload, a PDFProcessingError or a file without a page.        *)
nothing_to_render ==
  /\ phase = "render"
  /\ dossier_status' = "FAILED"
  /\ phase' = "done"
  /\ UNCHANGED <<page_count, page_types, warnings, position,
                 grouped_documents>>

render_pages ==
  /\ phase = "render"
  /\ page_count' \in 1..MaxPages
  /\ phase' = "classify"
  /\ UNCHANGED <<page_types, warnings, position, grouped_documents,
                 dossier_status>>

Classified(type) ==
  /\ page_types' = Append(page_types, type)
  /\ phase' = IF Len(page_types') = page_count THEN "group" ELSE "classify"
  /\ UNCHANGED <<page_count, position, grouped_documents, dossier_status>>

classify_page ==
  /\ phase = "classify"
  /\ \E mentioned \in Answered : Classified(normalize_page_type(mentioned))
  /\ UNCHANGED warnings

(* VLMProviderError or ValueError, the thumbnail included.                 *)
classify_page_fails ==
  /\ phase = "classify"
  /\ Classified("UNKNOWN")
  /\ warnings' = warnings \cup {Len(page_types')}

(* Any other exception of the rasteriser or the classifier.                *)
node_raises ==
  /\ phase \in {"render", "classify"}
  /\ phase' = "raised"
  /\ UNCHANGED <<page_count, page_types, warnings, position, grouped_documents,
                 dossier_status>>

group_page ==
  /\ phase = "group"
  /\ position' = position + 1
  /\ grouped_documents' = GroupPage(page_types, grouped_documents, position')
  /\ phase' = IF position' = page_count THEN "done" ELSE "group"
  /\ UNCHANGED <<page_count, page_types, warnings, dossier_status>>

Next ==
  \/ nothing_to_render
  \/ render_pages
  \/ classify_page
  \/ classify_page_fails
  \/ node_raises
  \/ group_page

Spec == Init /\ [][Next]_vars

-----------------------------------------------------------------------------
(* No page is lost and none is processed twice: the documents grouped so   *)
(* far are disjoint, and they hold every page the loop has gone past; once *)
(* the node is done, that is the whole file.                               *)
EveryPageOnce ==
  /\ \A d, e \in DOMAIN grouped_documents :
       d # e => PagesOf(grouped_documents[d]) \cap PagesOf(grouped_documents[e]) = {}
  /\ 1..position \subseteq Claimed(grouped_documents)
  /\ phase = "done" => Claimed(grouped_documents) = 1..page_count

(* build_document_id names a document once per dossier, although a card    *)
(* combined from two pages and one photocopied on a single page share a    *)
(* type.                                                                   *)
DocumentIdsUnique ==
  \A d, e \in DOMAIN grouped_documents :
    DocId(grouped_documents[d]) = DocId(grouped_documents[e]) => d = e

(* The pairings of the file, by definition: fronts and later backs, each   *)
(* page in one pair at most.                                               *)
Matchings ==
  LET Pairs == {x \in (DOMAIN page_types) \X (DOMAIN page_types) :
                  /\ page_types[x[1]] = "INE_FRONT"
                  /\ page_types[x[2]] = "INE_BACK"
                  /\ x[1] < x[2]}
  IN  {M \in SUBSET Pairs :
         \A x, y \in M : x # y => x[1] # y[1] /\ x[2] # y[2]}

Reunited ==
  {grouped_documents[d].page_indexes :
     d \in {e \in DOMAIN grouped_documents :
              Len(grouped_documents[e].page_indexes) > 1}}

(* The documents of several pages are cards, a front and a back that comes *)
(* later in the file, however far; and the greedy choice of the first      *)
(* unclaimed back never splits a card that some other pairing of the file  *)
(* would have kept whole.                                                  *)
PairingMaximum ==
  phase = "done" =>
    /\ Reunited \in Matchings
    /\ \A M \in Matchings : Cardinality(M) <= Cardinality(Reunited)
=============================================================================
