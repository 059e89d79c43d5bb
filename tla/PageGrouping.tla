---------------------------- MODULE PageGrouping ----------------------------
(***************************************************************************)
(* The pure half of src/graph/nodes/smart_clustering.py: how an answer of  *)
(* the page classifier becomes a page type, and how one iteration of       *)
(* _group_pages_into_logical_docs extends the logical documents.  Pages    *)
(* are numbered from 1 (page_index of the code, plus one).                 *)
(***************************************************************************)
EXTENDS Integers, Sequences, FiniteSets

(* The enum PageType, in the order CLASSIFIABLE_PAGE_TYPES keeps.          *)
PageType == <<"INE_COMBINED", "INE_FRONT", "INE_BACK", "PASSPORT",
              "MEXICAN_CEDULA", "PROOF_OF_ADDRESS", "INVOICE", "UNKNOWN">>

PageTypes == {PageType[i] : i \in DOMAIN PageType}

(* Seeded fault: no fallback for an answer outside the vocabulary.         *)
first_label_or_nothing(mentioned) ==
  IF mentioned = {} THEN ""
  ELSE PageType[CHOOSE i \in DOMAIN PageType :
                  /\ PageType[i] \in mentioned
                  /\ \A j \in 1..(i - 1) : PageType[j] \notin mentioned]

(***************************************************************************)
(* An answer is the set of vocabulary labels its text mentions: a bare     *)
(* label mentions itself alone, a chatty sentence any number, and the      *)
(* first of the vocabulary wins.                                           *)
(***************************************************************************)
normalize_page_type(mentioned) ==
  IF mentioned = {} THEN "UNKNOWN"
  ELSE PageType[CHOOSE i \in DOMAIN PageType :
                  /\ PageType[i] \in mentioned
                  /\ \A j \in 1..(i - 1) : PageType[j] \notin mentioned]

PairedPageType == [t \in {"INE_FRONT"} |-> "INE_BACK"]

(* Seeded fault: the naive splitter, a card ends where the next begins.    *)
adjacent_backs(types, claimed, page) ==
  {q \in {page + 1} \cap DOMAIN types :
     types[q] = PairedPageType[types[page]] /\ q \notin claimed}

(* Seeded fault: a back can be claimed twice.                              *)
any_backs(types, claimed, page) ==
  {q \in DOMAIN types : q > page /\ types[q] = PairedPageType[types[page]]}

Backs(types, claimed, page) ==
  {q \in DOMAIN types :
     q > page /\ types[q] = PairedPageType[types[page]] /\ q \notin claimed}

(* The pages of the document a page opens, in document order.              *)
DocumentPages(types, claimed, page) ==
  LET backs == IF types[page] \in DOMAIN PairedPageType
               THEN Backs(types, claimed, page) ELSE {}
  IN  IF backs = {} THEN <<page>>
      ELSE <<page, CHOOSE q \in backs : \A r \in backs : q <= r>>

DocType(types, pages) ==
  IF Len(pages) > 1 THEN "INE_COMBINED" ELSE types[pages[1]]

(* Seeded fault: a paired card is numbered among the fronts.               *)
ordinal_of_page_type(grouped, types, pages) ==
  1 + Cardinality({d \in DOMAIN grouped :
                     types[grouped[d].page_indexes[1]] = types[pages[1]]})

(* _next_ordinal: the counter of the *document* type.                      *)
NextOrdinal(grouped, types, pages) ==
  1 + Cardinality({d \in DOMAIN grouped :
                     grouped[d].doc_type = DocType(types, pages)})

(* One logical document; doc_id is its type and ordinal.                   *)
LogicalDocument(grouped, types, pages) ==
  [doc_type     |-> DocType(types, pages),
   ordinal      |-> NextOrdinal(grouped, types, pages),
   page_indexes |-> pages]

DocId(document) == <<document.doc_type, document.ordinal>>

PagesOf(document) ==
  {document.page_indexes[k] : k \in DOMAIN document.page_indexes}

Claimed(grouped) == UNION {PagesOf(grouped[d]) : d \in DOMAIN grouped}

(* Seeded fault: a back without its front opens no document.               *)
lone_backs_dropped(types, grouped, page) ==
  IF page \in Claimed(grouped) \/ types[page] = "INE_BACK" THEN grouped
  ELSE Append(grouped,
              LogicalDocument(grouped, types,
                              DocumentPages(types, Claimed(grouped), page)))

(***************************************************************************)
(* One iteration of the loop.  The set `claimed` of the code is the pages  *)
(* of the documents grouped so far.                                        *)
(***************************************************************************)
GroupPage(types, grouped, page) ==
  IF page \in Claimed(grouped) THEN grouped
  ELSE Append(grouped,
              LogicalDocument(grouped, types,
                              DocumentPages(types, Claimed(grouped), page)))

(* The whole loop, as a recursive function of the pages done.              *)
group_pages_into_logical_docs(types) ==
  LET after[page \in 0..Len(types)] ==
        IF page = 0 THEN << >> ELSE GroupPage(types, after[page - 1], page)
  IN  after[Len(types)]
=============================================================================
