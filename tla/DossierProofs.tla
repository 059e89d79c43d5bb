---------------------------- MODULE DossierProofs ----------------------------
(***************************************************************************)
(* The dossier orchestrator, for files of any length and any number of     *)
(* workers and runs: a call adds one result for every document of the      *)
(* file, in dispatch order, and no page of it is missing; and the status   *)
(* is what the documents say.                                              *)
(*                                                                         *)
(* A durable thread starts with the results of its earlier runs, so the    *)
(* invariant speaks of what stands behind them in the reduce channel.      *)
(*                                                                         *)
(* The lemmas on the grouping operators are those of ClusteringProofs,     *)
(* which is about another state machine; here they are carried over the    *)
(* whole loop, up to GroupingPartitions.  That there is such a function,   *)
(* and what it returns, follows from the least page at which it would fail.*)
(***************************************************************************)
EXTENDS Dossier, FiniteSetTheorems, SequenceTheorems, WellFoundedInduction, TLAPS

(* A nonempty set of pages has a first one.                                *)
LEMMA FirstPage ==
  ASSUME NEW S, S \subseteq Nat, S # {}
  PROVE  \E q \in S : \A r \in S : q <= r
<1>1. IsWellFoundedOn(OpToRel(<, Nat), Nat)
  BY NatLessThanWellFounded
<1>2. \E q \in S : \A r \in S : <<r, q>> \notin OpToRel(<, Nat)
  BY <1>1, WFMin
<1>3. \A q, r \in Nat : <<r, q>> \notin OpToRel(<, Nat) => q <= r
  BY DEF OpToRel
<1> QED BY <1>2, <1>3

(* A document holds the page that opens it, alone or with a later page of  *)
(* the file no document has.                                               *)
LEMMA DocumentPagesAre ==
  ASSUME NEW types \in Seq(PageTypes), NEW claimed, NEW page \in DOMAIN types
  PROVE  \/ DocumentPages(types, claimed, page) = <<page>>
         \/ \E q \in DOMAIN types \ claimed :
              q > page /\ DocumentPages(types, claimed, page) = <<page, q>>
<1> DEFINE backs == IF types[page] \in DOMAIN PairedPageType
                    THEN Backs(types, claimed, page) ELSE {}
<1>1. CASE backs = {}
  BY <1>1 DEF DocumentPages
<1>2. CASE backs # {}
  <2>1. backs \subseteq {q \in DOMAIN types \ claimed : q > page}
    BY DEF Backs
  <2>2. backs \subseteq Nat
    BY <2>1
  <2> DEFINE first == CHOOSE q \in backs : \A r \in backs : q <= r
  <2>3. first \in backs
    BY <1>2, <2>2, FirstPage
  <2>4. DocumentPages(types, claimed, page) = <<page, first>>
    BY <1>2 DEF DocumentPages
  <2> HIDE DEF first
  <2> QED BY <2>1, <2>3, <2>4
<1> QED BY <1>1, <1>2

(* What the loop appends for a page nobody has claimed.                    *)
NewDocument(types, grouped, page) ==
  LogicalDocument(grouped, types, DocumentPages(types, Claimed(grouped), page))

(* It is typed, has the page, and only pages nobody has claimed.           *)
LEMMA NewDocumentIs ==
  ASSUME NEW types \in Seq(PageTypes), NEW grouped, NEW page \in DOMAIN types,
         page \notin Claimed(grouped)
  PROVE  LET document == NewDocument(types, grouped, page) IN
           /\ document.doc_type \in PageTypes
           /\ document.page_indexes \in Seq(DOMAIN types)
           /\ page \in PagesOf(document)
           /\ PagesOf(document) \subseteq DOMAIN types \ Claimed(grouped)
           /\ document.ordinal =
                1 + Cardinality({d \in DOMAIN grouped :
                                   grouped[d].doc_type = document.doc_type})
           /\ document = [doc_type |-> document.doc_type, ordinal |-> document.ordinal,
                          page_indexes |-> document.page_indexes]
<1> DEFINE pages == DocumentPages(types, Claimed(grouped), page)
           document == NewDocument(types, grouped, page)
<1>1. /\ document.doc_type = DocType(types, pages)
      /\ document.ordinal = NextOrdinal(grouped, types, pages)
      /\ document.page_indexes = pages
      /\ document = [doc_type |-> document.doc_type, ordinal |-> document.ordinal,
                     page_indexes |-> document.page_indexes]
  BY DEF NewDocument, LogicalDocument
<1>2. /\ pages \in Seq(DOMAIN types) /\ Len(pages) \in {1, 2}
      /\ pages[1] = page
      /\ {pages[k] : k \in DOMAIN pages} \subseteq DOMAIN types \ Claimed(grouped)
  <2>1. CASE pages = <<page>>
    BY <2>1
  <2>2. CASE \E q \in DOMAIN types \ Claimed(grouped) : q > page /\ pages = <<page, q>>
    BY <2>2
  <2> QED BY <2>1, <2>2, DocumentPagesAre
<1> HIDE DEF pages, document
<1>3. DocType(types, pages) \in PageTypes
  <2>1. "INE_COMBINED" \in PageTypes
    BY DEF PageTypes, PageType
  <2>2. types[page] \in PageTypes
    OBVIOUS
  <2> QED BY <1>2, <2>1, <2>2 DEF DocType
<1>4. page \in PagesOf(document) /\ PagesOf(document) \subseteq DOMAIN types \ Claimed(grouped)
  BY <1>1, <1>2 DEF PagesOf
<1> QED BY <1>1, <1>2, <1>3, <1>4 DEF NextOrdinal, document

(* A document appended leaves the others where they are.                   *)
LEMMA Appended ==
  ASSUME NEW S, NEW grouped \in Seq(S), NEW document \in S
  PROVE  LET longer == Append(grouped, document)
             last   == Len(grouped) + 1
         IN  /\ longer \in Seq(S) /\ Len(longer) = last
             /\ last \notin DOMAIN grouped
             /\ DOMAIN longer = DOMAIN grouped \cup {last}
             /\ \A d \in DOMAIN grouped : longer[d] = grouped[d]
             /\ longer[last] = document
             /\ IsFiniteSet(DOMAIN grouped)
             /\ Cardinality(DOMAIN grouped) = Len(grouped)
<1>1. Len(grouped) \in Nat /\ DOMAIN grouped = 1..Len(grouped)
  OBVIOUS
<1>2. ASSUME NEW n \in Nat
      PROVE  IsFiniteSet(1..n) /\ Cardinality(1..n) = n
  <2>1. 1 \in Int /\ n \in Int
    OBVIOUS
  <2>2. IsFiniteSet(1..n) /\ Cardinality(1..n) = IF 1 > n THEN 0 ELSE n - 1 + 1
    BY <2>1, FS_Interval
  <2> QED BY <2>2
<1> QED BY <1>1, <1>2

-----------------------------------------------------------------------------
Grouped(types) ==
  [doc_type: PageTypes, ordinal: 1..Len(types), page_indexes: Seq(DOMAIN types)]

(* The documents are disjoint sets of pages of the file, no page the loop  *)
(* has gone past is missing, and each iteration made one document at most. *)
Partitioned(types, grouped, past) ==
  /\ grouped \in Seq(Grouped(types))
  /\ Len(grouped) <= past
  /\ \A d \in DOMAIN grouped : PagesOf(grouped[d]) \subseteq DOMAIN types
  /\ \A d, e \in DOMAIN grouped :
       d # e => PagesOf(grouped[d]) \cap PagesOf(grouped[e]) = {}
  /\ 1..past \subseteq Claimed(grouped)

(* The document a page nobody has claimed opens.                           *)
LEMMA NewDocumentTypes ==
  ASSUME NEW types \in Seq(PageTypes), NEW grouped, NEW page \in DOMAIN types,
         Partitioned(types, grouped, page - 1), page \notin Claimed(grouped)
  PROVE  NewDocument(types, grouped, page) \in Grouped(types)
<1> DEFINE document == NewDocument(types, grouped, page)
           alike == {d \in DOMAIN grouped : grouped[d].doc_type = document.doc_type}
<1>1. /\ document.doc_type \in PageTypes
      /\ document.page_indexes \in Seq(DOMAIN types)
      /\ document.ordinal = 1 + Cardinality(alike)
      /\ document = [doc_type |-> document.doc_type, ordinal |-> document.ordinal,
                     page_indexes |-> document.page_indexes]
  BY NewDocumentIs
<1> HIDE DEF document
<1>2. /\ Len(grouped) \in Nat /\ Len(grouped) <= page - 1
      /\ page \in 1..Len(types) /\ Len(types) \in Nat
      /\ grouped \in Seq(Grouped(types))
  BY DEF Partitioned
<1>3. Cardinality(alike) \in 0..Len(grouped)
  <2>1. IsFiniteSet(DOMAIN grouped) /\ Cardinality(DOMAIN grouped) = Len(grouped)
    <3>1. 1 \in Int /\ Len(grouped) \in Int /\ DOMAIN grouped = 1..Len(grouped)
      BY <1>2
    <3>2. /\ IsFiniteSet(1..Len(grouped))
          /\ Cardinality(1..Len(grouped)) = IF 1 > Len(grouped) THEN 0 ELSE Len(grouped) - 1 + 1
      BY <3>1, FS_Interval
    <3> QED BY <1>2, <3>1, <3>2
  <2>2. alike \in SUBSET (DOMAIN grouped)
    OBVIOUS
  <2> HIDE DEF alike
  <2>3. IsFiniteSet(alike) /\ Cardinality(alike) <= Len(grouped)
    BY <2>1, <2>2, FS_Subset
  <2> QED BY <1>2, <2>3, FS_CardinalityType
<1> HIDE DEF alike
<1>4. document.ordinal \in 1..Len(types)
  BY <1>1, <1>2, <1>3
<1> QED BY <1>1, <1>4 DEF Grouped, document

(* An iteration takes a partition of the pages gone past one page further. *)
LEMMA GroupPageExtends ==
  ASSUME NEW types \in Seq(PageTypes), NEW grouped, NEW page \in DOMAIN types,
         Partitioned(types, grouped, page - 1)
  PROVE  Partitioned(types, GroupPage(types, grouped, page), page)
<1>0. page \in Nat \ {0} /\ 1..page = (1..(page - 1)) \cup {page}
  <2>1. page \in 1..Len(types) /\ Len(types) \in Nat
    OBVIOUS
  <2> QED BY <2>1
<1>1. CASE page \in Claimed(grouped)
  <2>1. GroupPage(types, grouped, page) = grouped
    BY <1>1 DEF GroupPage
  <2>2. Len(grouped) \in Nat
    BY DEF Partitioned
  <2> QED BY <1>0, <1>1, <2>1, <2>2 DEF Partitioned
<1>2. CASE page \notin Claimed(grouped)
  <2> DEFINE document == NewDocument(types, grouped, page)
             longer == Append(grouped, document)
             last == Len(grouped) + 1
  <2>1. GroupPage(types, grouped, page) = longer
    BY <1>2 DEF GroupPage, NewDocument
  <2>2. document \in Grouped(types)
    BY <1>2, NewDocumentTypes
  <2>3. /\ page \in PagesOf(document)
        /\ PagesOf(document) \subseteq DOMAIN types \ Claimed(grouped)
    BY <1>2, NewDocumentIs
  <2> HIDE DEF document
  <2>4. /\ longer \in Seq(Grouped(types)) /\ Len(longer) = last
        /\ DOMAIN longer = DOMAIN grouped \cup {last}
        /\ \A d \in DOMAIN grouped : longer[d] = grouped[d]
        /\ longer[last] = document
    BY <2>2, Appended DEF Partitioned
  <2>5. last <= page
    <3>1. Len(grouped) \in Nat /\ Len(grouped) <= page - 1
      BY DEF Partitioned
    <3> QED BY <1>0, <3>1
  <2> HIDE DEF longer, last
  <2>6. \A d \in DOMAIN longer : PagesOf(longer[d]) \subseteq DOMAIN types
    BY <2>3, <2>4 DEF Partitioned
  <2>7. \A d \in DOMAIN grouped : PagesOf(document) \cap PagesOf(grouped[d]) = {}
    BY <2>3 DEF Claimed
  <2>8. \A d, e \in DOMAIN longer :
          d # e => PagesOf(longer[d]) \cap PagesOf(longer[e]) = {}
    BY <2>4, <2>7 DEF Partitioned
  <2>9. Claimed(longer) = Claimed(grouped) \cup PagesOf(document)
    BY <2>4 DEF Claimed
  <2>10. 1..page \subseteq Claimed(longer)
    BY <1>0, <2>3, <2>9 DEF Partitioned
  <2> QED BY <2>1, <2>4, <2>5, <2>6, <2>8, <2>10 DEF Partitioned
<1> QED BY <1>1, <1>2

-----------------------------------------------------------------------------
(* A statement about the pages done that holds of none, and is passed on   *)
(* by every iteration, holds of all: there is no first page it fails at.   *)
LEMMA PageInduction ==
  ASSUME NEW n \in Nat, NEW Holds, 0 \in Holds,
         \A page \in 1..n : page - 1 \in Holds => page \in Holds
  PROVE  0..n \subseteq Holds
<1> DEFINE fails == (0..n) \ Holds
<1> SUFFICES ASSUME fails # {}
             PROVE  FALSE
  OBVIOUS
<1>0. fails \subseteq Nat
  OBVIOUS
<1>1. PICK page \in fails : \A other \in fails : page <= other
  <2> HIDE DEF fails
  <2> QED BY <1>0, FirstPage
<1>2. page \in 1..n /\ page - 1 \in 0..n /\ ~ (page <= page - 1)
  BY <1>1
<1> QED BY <1>1, <1>2

(* The loop, as a function of the pages done.                              *)
IsLoop(types, n, f) ==
  f = [page \in 0..n |-> IF page = 0 THEN << >> ELSE GroupPage(types, f[page - 1], page)]

(* A function with the equation of the loop exists, for files of any length. *)
LEMMA LoopExists ==
  ASSUME NEW types, NEW n \in Nat
  PROVE  \E f : IsLoop(types, n, f)
<1> DEFINE holds == {m \in 0..n : \E f : IsLoop(types, m, f)}
<1>1. 0 \in holds
  <2> DEFINE f == [page \in 0..0 |-> << >>]
  <2>1. IsLoop(types, 0, f)
    BY DEF IsLoop
  <2> QED BY <2>1
<1>2. ASSUME NEW page \in 1..n, page - 1 \in holds
      PROVE  page \in holds
  <2>1. PICK f : IsLoop(types, page - 1, f)
    BY <1>2
  <2> DEFINE g == [p \in 0..page |-> IF p = page THEN GroupPage(types, f[page - 1], page)
                                     ELSE f[p]]
  <2>2. ASSUME NEW p \in 0..page
        PROVE  g[p] = IF p = 0 THEN << >> ELSE GroupPage(types, g[p - 1], p)
    <3>1. CASE p = page
      <4>1. page # 0 /\ page - 1 \in 0..page /\ page - 1 # page
        OBVIOUS
      <4> QED BY <3>1, <4>1
    <3>2. CASE p # page
      <4>1. p \in 0..(page - 1)
        BY <3>2
      <4>2. p # 0 => p - 1 \in 0..page /\ p - 1 # page
        BY <3>2
      <4>3. f[p] = IF p = 0 THEN << >> ELSE GroupPage(types, f[p - 1], p)
        BY <2>1, <4>1 DEF IsLoop
      <4> QED BY <3>2, <4>2, <4>3
    <3> QED BY <3>1, <3>2
  <2>3. g = [p \in 0..page |-> g[p]]
    OBVIOUS
  <2> HIDE DEF g
  <2>4. IsLoop(types, page, g)
    BY <2>2, <2>3 DEF IsLoop
  <2> QED BY <2>4
<1> HIDE DEF holds
<1>3. 0..n \subseteq holds
  BY <1>1, <1>2, PageInduction
<1> QED BY <1>3 DEF holds

(* The grouping of a file is a partition of its pages.                     *)
THEOREM GroupingPartitions ==
  ASSUME NEW types \in Seq(PageTypes)
  PROVE  Partitioned(types, group_pages_into_logical_docs(types), Len(types))
<1> DEFINE n == Len(types)
           after == CHOOSE f : IsLoop(types, n, f)
<1>0. n \in Nat /\ DOMAIN types = 1..n
  OBVIOUS
<1>1. IsLoop(types, n, after)
  BY <1>0, LoopExists
<1>2. group_pages_into_logical_docs(types) = after[n]
  BY DEF group_pages_into_logical_docs, IsLoop
<1> HIDE DEF after
<1> DEFINE holds == {page \in 0..n : Partitioned(types, after[page], page)}
<1>3. 0 \in holds
  <2>1. after[0] = << >>
    BY <1>0, <1>1 DEF IsLoop
  <2>2. Partitioned(types, << >>, 0)
    BY DEF Partitioned, Claimed
  <2> QED BY <1>0, <2>1, <2>2
<1>4. ASSUME NEW page \in 1..n, page - 1 \in holds
      PROVE  page \in holds
  <2>1. after[page] = GroupPage(types, after[page - 1], page)
    BY <1>0, <1>1 DEF IsLoop
  <2>2. Partitioned(types, after[page], page)
    BY <1>0, <1>4, <2>1, GroupPageExtends
  <2> QED BY <1>0, <2>2
<1> HIDE DEF holds
<1>5. 0..n \subseteq holds
  BY <1>0, <1>3, <1>4, PageInduction
<1>6. n \in holds
  BY <1>0, <1>5
<1> QED BY <1>2, <1>6 DEF holds

-----------------------------------------------------------------------------
(* What the file was split into is a partition of its pages, of none if it *)
(* was not split.                                                          *)
Split ==
  /\ raw_pages \in Seq(PageTypes)
  /\ Len(raw_pages) \in {0} \cup FilePages
  /\ Partitioned(raw_pages, grouped_documents, Len(raw_pages))

(* What may be said of one document whose result says no more.             *)
SoundResult ==
  {r \in Result :
     /\ r.status = "SUCCESS" => r.unresolved = {} /\ r.successful # {}
     /\ r.status = "REQUIRES_MANUAL_ENTRY" => r.unresolved # {}
     /\ r.status = "FAILED" => r.successful = {}}

(* There are verdicts while workers run, one per document, and a call that *)
(* has not returned has promised nothing.                                  *)
Calls ==
  /\ IF Running("document_worker")
     THEN Len(verdicts) = Len(grouped_documents)
     ELSE verdicts = << >>
  /\ proc = "running" => outcome = "none" /\ dossier_status \in {"PROCESSING", "FAILED"}

(* Behind the earlier results stand those of the documents of this run.    *)
Published(results) ==
  /\ Len(results) = earlier + Len(grouped_documents)
  /\ \A i \in DOMAIN grouped_documents : results[earlier + i].document = i

Reduced ==
  /\ processed_documents \in Seq(SoundResult)
  /\ Running("smart_clustering") \/ Running("document_worker") =>
       Len(processed_documents) = earlier
  /\ Running("consolidation") \/ outcome = "report" => Published(processed_documents)
  /\ ~durable => earlier = 0

IInv == TypeOK /\ Split /\ Calls /\ Reduced

-----------------------------------------------------------------------------
(* What a split leaves for the workers.                                    *)
LEMMA SplitTypes ==
  ASSUME Split, durable \in BOOLEAN
  PROVE  /\ Len(grouped_documents) \in {0} \cup FilePages
         /\ Len(grouped_documents) \in Nat
         /\ DOMAIN grouped_documents = 1..Len(grouped_documents)
         /\ DOMAIN grouped_documents \subseteq FilePages
<1>1. MaxPages[durable] \in Nat
  BY DossierAssumption
<1>2. /\ grouped_documents \in Seq(Grouped(raw_pages))
      /\ Len(grouped_documents) <= Len(raw_pages)
      /\ Len(raw_pages) \in {0} \cup FilePages
  BY DEF Split, Partitioned
<1>3. /\ Len(grouped_documents) \in Nat
      /\ DOMAIN grouped_documents = 1..Len(grouped_documents)
  BY <1>2
<1> QED BY <1>1, <1>2, <1>3 DEF FilePages

(* The result of a worker is sound and that of its document.               *)
LEMMA WorkerResultTypes ==
  ASSUME NEW document \in FilePages, NEW verdict \in Verdicts \cup {Raised}
  PROVE  /\ WorkerResult(document, verdict) \in SoundResult
         /\ WorkerResult(document, verdict).document = document
<1>1. CASE verdict = Raised
  BY <1>1 DEF WorkerResult, SoundResult, Result
<1>2. CASE verdict # Raised
  <2>1. /\ verdict.status \in {"VALIDATED", "REQUIRES_MANUAL_ENTRY", "FAILED"}
        /\ verdict.filled \subseteq Fields /\ verdict.unresolved \subseteq Fields
        /\ verdict.status = "VALIDATED" => verdict.unresolved = {}
        /\ verdict.status = "REQUIRES_MANUAL_ENTRY" => verdict.unresolved # {}
        /\ verdict.status = "FAILED" => verdict.filled = {} /\ verdict.unresolved = {}
    BY <1>2 DEF Verdicts, Verdict
  <2> DEFINE result == to_document_result(document, verdict)
  <2>2. WorkerResult(document, verdict) = result
    BY <1>2 DEF WorkerResult
  <2>3. /\ result.document = document
        /\ result.status = ResultStatus(verdict)
        /\ result.successful = verdict.filled \ verdict.unresolved
        /\ result.unresolved = UnresolvedFields(verdict)
    BY DEF to_document_result
  <2>4. result \in Result
    BY <2>1 DEF to_document_result, ResultStatus, UnresolvedFields, Result
  <2>5. result.status = "SUCCESS" => result.unresolved = {} /\ result.successful # {}
    BY <2>1, <2>3 DEF ResultStatus, UnresolvedFields
  <2>6. result.status = "FAILED" => result.successful = {}
    BY <2>1, <2>3 DEF ResultStatus
  <2>7. result.status = "REQUIRES_MANUAL_ENTRY" => result.unresolved # {}
    BY <2>1, <2>3 DEF ResultStatus, UnresolvedFields
  <2> HIDE DEF result
  <2> QED BY <2>2, <2>3, <2>4, <2>5, <2>6, <2>7 DEF SoundResult
<1> QED BY <1>1, <1>2

(* The types of the pages of a file, and its split.                        *)
LEMMA SplitFile ==
  ASSUME NEW n \in FilePages, NEW types \in [1..n -> FilePageTypes], durable \in BOOLEAN
  PROVE  /\ types \in Seq(PageTypes) /\ Len(types) = n
         /\ Partitioned(types, group_pages_into_logical_docs(types), n)
         /\ group_pages_into_logical_docs(types) # << >>
<1> DEFINE grouped == group_pages_into_logical_docs(types)
<1>1. n \in Nat \ {0} /\ FilePageTypes \subseteq PageTypes
  BY DossierAssumption DEF FilePages
<1>2. types \in Seq(PageTypes) /\ Len(types) = n
  BY <1>1
<1>3. Partitioned(types, grouped, n)
  BY <1>2, GroupingPartitions
<1> HIDE DEF grouped
<1>4. grouped # << >>
  <2>1. 1 \in Claimed(grouped)
    BY <1>1, <1>3 DEF Partitioned
  <2> QED BY <2>1 DEF Claimed
<1> QED BY <1>2, <1>3, <1>4 DEF grouped

(* A file that was not split has no page and no document.                  *)
LEMMA NothingSplit == Partitioned(<< >>, << >>, 0)
BY DEF Partitioned, Claimed

(* The fan-in appends the results of all documents.                        *)
LEMMA FanInReduces ==
  ASSUME IInv, fan_in
  PROVE  /\ processed_documents' \in Seq(SoundResult)
         /\ Len(processed_documents') \in Nat
         /\ Len(processed_documents') >= earlier
         /\ Published(processed_documents')
<1> DEFINE new == Results(grouped_documents, verdicts)
           old == processed_documents
           k == Len(grouped_documents)
<1>1. /\ k \in Nat /\ DOMAIN grouped_documents = 1..k /\ 1..k \subseteq FilePages
      /\ verdicts \in Seq(Verdicts \cup {Raised, NoVerdict}) /\ Len(verdicts) = k
      /\ old \in Seq(SoundResult) /\ Len(old) = earlier
  <2>1. durable \in BOOLEAN /\ Running("document_worker")
    BY DEF IInv, TypeOK, fan_in
  <2> QED BY <2>1, SplitTypes DEF IInv, TypeOK, Calls, Reduced
<1>2. ASSUME NEW i \in 1..k
      PROVE  WorkerResult(i, verdicts[i]) \in SoundResult
             /\ WorkerResult(i, verdicts[i]).document = i
  <2>1. verdicts[i] \in Verdicts \cup {Raised}
    BY <1>1 DEF fan_in, Settled
  <2> QED BY <1>1, <2>1, WorkerResultTypes
<1>3. new = [i \in 1..k |-> WorkerResult(i, verdicts[i])]
  BY <1>1 DEF Results
<1> HIDE DEF new, k, old
<1>4. new \in Seq(SoundResult) /\ Len(new) = k /\ \A i \in 1..k : new[i].document = i
  BY <1>1, <1>2, <1>3
<1>5. /\ old \o new \in Seq(SoundResult)
      /\ Len(old \o new) = Len(old) + k
      /\ \A i \in 1..(Len(old) + k) :
           (old \o new)[i] = IF i <= Len(old) THEN old[i] ELSE new[i - Len(old)]
  <2>1. old \in Seq(SoundResult) /\ new \in Seq(SoundResult)
    BY <1>1, <1>4
  <2>2. /\ old \o new \in Seq(SoundResult)
        /\ Len(old \o new) = Len(old) + Len(new)
        /\ \A i \in 1..(Len(old) + Len(new)) :
             (old \o new)[i] = IF i <= Len(old) THEN old[i] ELSE new[i - Len(old)]
    BY <2>1, ConcatProperties
  <2>3. Len(new) = k
    BY <1>4
  <2> QED BY <2>2, <2>3, Zenon
<1>6. Len(old) \in Nat /\ earlier \in Nat
  BY <1>1
<1>7. Published(old \o new)
  <2>1. ASSUME NEW i \in 1..k
        PROVE  (old \o new)[earlier + i].document = i
    <3> DEFINE j == Len(old) + i
    <3>1. j \in 1..(Len(old) + k) /\ ~ (j <= Len(old)) /\ j - Len(old) = i
      BY <1>1, <1>6
    <3>2. earlier + i = j
      BY <1>1
    <3> HIDE DEF j
    <3>3. (old \o new)[j] = IF j <= Len(old) THEN old[j] ELSE new[j - Len(old)]
      BY <1>5, <3>1, Zenon
    <3>4. (old \o new)[j] = new[i]
      BY <3>1, <3>3, Zenon
    <3>5. new[i].document = i
      BY <1>4
    <3> QED BY <3>2, <3>4, <3>5, Zenon
  <2> QED BY <1>1, <1>5, <2>1 DEF Published, k
<1>8. processed_documents' = old \o new
  BY DEF fan_in, old, new
<1>9. Len(old \o new) \in Nat /\ Len(old \o new) >= earlier
  BY <1>1, <1>5, <1>6
<1> QED BY <1>5, <1>7, <1>8, <1>9

-----------------------------------------------------------------------------
(* Sound results are results, and a split file is typed.                   *)
LEMMA IInvHolds == Spec => []IInv
<1>1. Init => IInv
  <2> SUFFICES ASSUME Init PROVE IInv
    OBVIOUS
  <2>1. raw_pages = << >> /\ grouped_documents = << >> /\ durable \in BOOLEAN
    BY DEF Init
  <2>2. Split
    BY <2>1, NothingSplit DEF Split
  <2>3. TypeOK /\ Calls /\ Reduced
    BY DossierAssumption DEF Init, TypeOK, Calls, Reduced, Running, FilePages
  <2> QED BY <2>2, <2>3 DEF IInv
<1>2. ASSUME IInv, [Next]_vars
      PROVE  IInv'
  <2> USE <1>2
  <2>0. /\ TypeOK /\ Split /\ Calls /\ Reduced
        /\ UNCHANGED durable
        /\ FilePages' = FilePages /\ SoundResult' = SoundResult
        /\ Result' = Result /\ Errors' = Errors
        /\ SoundResult \subseteq Result
    BY DEF IInv, Next, Progress, run_dossier, smart_clustering_fails, smart_clustering_node,
           smart_clustering_raises, document_worker_node, fan_in, fan_in_raises,
           consolidation_node, crash, vars, history, FilePages, SoundResult, Result, Errors
  <2>00. Len(processed_documents) \in Nat /\ earlier \in Nat
    BY <2>0 DEF TypeOK, Reduced
  <2>1. CASE UNCHANGED vars
    BY <2>0, <2>1 DEF vars, thread, history, IInv, TypeOK, Split, Calls, Reduced, Published,
                      Running
  <2>2. CASE run_dossier
    <3>1. /\ raw_pages' = << >> /\ grouped_documents' = << >>
          /\ node' = "smart_clustering" /\ proc' = "running" /\ outcome' = "none"
          /\ verdicts' = << >> /\ errors' = {} /\ dossier_status' = "PROCESSING"
          /\ runs' \in 0..MaxRuns
          /\ earlier' = Len(processed_documents')
          /\ processed_documents' = IF durable THEN processed_documents ELSE << >>
      BY <2>0, <2>2, DossierAssumption DEF run_dossier, TypeOK
    <3>2. /\ processed_documents' \in Seq(SoundResult) /\ Len(processed_documents') \in Nat
          /\ processed_documents' \in Seq(Result)
          /\ ~durable => Len(processed_documents') = 0
      BY <2>0, <3>1 DEF Reduced, TypeOK
    <3>3. Split'
      BY <3>1, NothingSplit DEF Split
    <3>4. TypeOK'
      BY <2>0, <3>1, <3>2 DEF TypeOK
    <3> QED BY <2>0, <3>1, <3>2, <3>3, <3>4 DEF IInv, Calls, Reduced, Running
  <2>3. CASE crash \/ smart_clustering_raises \/ fan_in_raises
    <3>1. /\ UNCHANGED <<thread, history>> /\ proc' = "down" /\ verdicts' = << >>
          /\ outcome' \in {"none", "clustering", "fan_in"}
      BY <2>0, <2>3 DEF crash, smart_clustering_raises, fan_in_raises, Calls, Running
    <3> QED BY <2>0, <3>1 DEF thread, history, IInv, TypeOK, Split, Calls, Reduced, Running
  <2>4. CASE smart_clustering_fails
    <3>1. /\ raw_pages' = << >> /\ grouped_documents' = << >> /\ node' = "consolidation"
          /\ verdicts = << >> /\ Len(processed_documents) = earlier
          /\ dossier_status' = "FAILED" /\ proc = "running" /\ outcome = "none"
          /\ UNCHANGED <<processed_documents, verdicts, proc, outcome, runs, earlier>>
      BY <2>0, <2>4 DEF smart_clustering_fails, dispatch_documents, Calls, Reduced, Running,
                        history
    <3>2. errors' \subseteq Errors
      BY <2>0, <2>4 DEF smart_clustering_fails, TypeOK, Errors
    <3>3. TypeOK'
      BY <2>0, <3>1, <3>2 DEF TypeOK
    <3>4. Split'
      BY <3>1, NothingSplit DEF Split
    <3>5. Reduced'
      BY <2>0, <2>00, <3>1 DEF Reduced, Published, Running
    <3> QED BY <2>0, <3>1, <3>3, <3>4, <3>5 DEF IInv, Calls, Running
  <2>5. CASE smart_clustering_node
    <3>0. PICK n \in FilePages : \E types \in [1..n -> FilePageTypes] :
            /\ raw_pages' = types
            /\ grouped_documents' = group_pages_into_logical_docs(types)
            /\ \E warned \in SUBSET (1..n) :
                 errors' = errors \cup [source: {"page"}, index: warned]
      BY <2>5 DEF smart_clustering_node
    <3>1. PICK types \in [1..n -> FilePageTypes] :
            /\ raw_pages' = types
            /\ grouped_documents' = group_pages_into_logical_docs(types)
            /\ \E warned \in SUBSET (1..n) :
                 errors' = errors \cup [source: {"page"}, index: warned]
      BY <3>0
    <3>2. /\ types \in Seq(PageTypes) /\ Len(types) = n
          /\ Partitioned(types, grouped_documents', n)
          /\ grouped_documents' # << >>
      BY <2>0, <3>1, SplitFile DEF TypeOK
    <3>3. Split'
      BY <2>0, <3>1, <3>2 DEF Split
    <3>4. /\ Len(grouped_documents') \in {0} \cup FilePages
          /\ Len(grouped_documents') \in Nat
          /\ DOMAIN grouped_documents' = 1..Len(grouped_documents')
      <4>1. /\ grouped_documents' \in Seq(Grouped(types)) /\ Len(grouped_documents') <= n
        BY <3>2 DEF Partitioned
      <4>2. n \in 1..MaxPages[durable] /\ MaxPages[durable] \in Nat
        BY <2>0, DossierAssumption DEF FilePages, TypeOK
      <4> QED BY <4>1, <4>2 DEF FilePages
    <3>5. /\ node' = "document_worker" /\ dossier_status' = "PROCESSING"
          /\ proc = "running" /\ outcome = "none" /\ Len(processed_documents) = earlier
          /\ verdicts' = [i \in DOMAIN grouped_documents' |-> NoVerdict]
          /\ UNCHANGED <<processed_documents, proc, outcome, runs, earlier>>
      BY <2>0, <2>5, <3>2 DEF smart_clustering_node, dispatch_documents, Calls, Reduced,
                              Running, history
    <3>6. errors' \subseteq Errors
      <4>1. 1..n \subseteq FilePages
        BY <2>0, <3>1, DossierAssumption DEF FilePages, TypeOK
      <4> QED BY <2>0, <3>1, <4>1 DEF TypeOK, Errors
    <3>7. /\ verdicts' \in Seq(Verdicts \cup {Raised, NoVerdict})
          /\ Len(verdicts') = Len(grouped_documents')
      BY <3>4, <3>5
    <3>8. TypeOK'
      BY <2>0, <3>1, <3>2, <3>4, <3>5, <3>6, <3>7 DEF TypeOK
    <3> QED BY <2>0, <3>3, <3>5, <3>7, <3>8 DEF IInv, Calls, Reduced, Running
  <2>6. ASSUME NEW i \in DOMAIN verdicts, document_worker_node(i)
        PROVE  IInv'
    <3>1. PICK verdict \in Verdicts \cup {Raised} :
            verdicts' = [verdicts EXCEPT ![i] = verdict]
      BY <2>6 DEF document_worker_node
    <3>2. /\ verdicts' \in Seq(Verdicts \cup {Raised, NoVerdict})
          /\ Len(verdicts') = Len(verdicts)
      BY <2>0, <3>1 DEF TypeOK
    <3>3. UNCHANGED <<thread, proc, outcome, history>> /\ Running("document_worker")
      BY <2>6 DEF document_worker_node
    <3>4. TypeOK' /\ Split' /\ Reduced'
      BY <2>0, <3>2, <3>3 DEF thread, history, TypeOK, Split, Reduced, Published, Running
    <3>5. Calls'
      BY <2>0, <3>2, <3>3 DEF thread, Calls, Running
    <3> QED BY <3>4, <3>5 DEF IInv
  <2>7. CASE fan_in
    <3>1. /\ processed_documents' \in Seq(SoundResult)
          /\ Len(processed_documents') \in Nat /\ Len(processed_documents') >= earlier
          /\ Published(processed_documents')
      BY <2>7, FanInReduces
    <3>2. /\ node' = "consolidation" /\ verdicts' = << >>
          /\ proc = "running" /\ outcome = "none"
          /\ UNCHANGED <<raw_pages, grouped_documents, dossier_status, proc, outcome, runs,
                         earlier>>
      BY <2>0, <2>7 DEF fan_in, Running, Calls, history
    <3>3. errors' \subseteq Errors
      <4>1. ErrorWriters(verdicts) \subseteq FilePages
        BY <2>0, <2>7, SplitTypes DEF fan_in, ErrorWriters, TypeOK, Calls
      <4> QED BY <2>0, <2>7, <4>1 DEF fan_in, TypeOK, Errors
    <3>4. processed_documents' \in Seq(Result)
      BY <2>0, <3>1, SeqMonotonic
    <3>5. TypeOK'
      BY <2>0, <2>00, <3>1, <3>2, <3>3, <3>4 DEF TypeOK
    <3>6. Reduced'
      BY <2>0, <3>1, <3>2 DEF Reduced, Published, Running
    <3> QED BY <2>0, <3>2, <3>5, <3>6 DEF IInv, Split, Calls, Running
  <2>8. CASE consolidation_node
    <3>1. /\ Published(processed_documents)
          /\ node' = "END" /\ proc' = "down" /\ outcome' = "report" /\ verdicts = << >>
          /\ UNCHANGED <<raw_pages, grouped_documents, processed_documents, errors, verdicts,
                         runs, earlier>>
      BY <2>0, <2>8 DEF consolidation_node, Calls, Reduced, Running, history
    <3>2. dossier_status' \in {"COMPLETED", "REQUIRES_REVIEW", "FAILED"}
      BY <2>8 DEF consolidation_node, resolve_dossier_status
    <3> QED BY <2>0, <3>1, <3>2 DEF IInv, TypeOK, Split, Calls, Reduced, Published, Running
  <2> QED BY <2>1, <2>2, <2>3, <2>4, <2>5, <2>6, <2>7, <2>8 DEF Next, Progress
<1> QED BY <1>1, <1>2, PTL DEF Spec

(* Every variable stays in its type.                                       *)
THEOREM TypeCorrect == Spec => []TypeOK
<1>1. IInv => TypeOK
  BY DEF IInv
<1> QED BY <1>1, IInvHolds, PTL

-----------------------------------------------------------------------------
(* Whatever order the workers end in, with one of them crashing and after  *)
(* runs killed at any point: every page of the file is in exactly one      *)
(* document, and the call adds exactly one result for each of them, in     *)
(* dispatch order, to those the thread had before, which is none unless it *)
(* is durable.                                                             *)
THEOREM NothingLostHolds == Spec => []NothingLost
<1>1. ASSUME IInv
      PROVE  NothingLost
  <2>1. Split
    BY <1>1 DEF IInv
  <2>2. Claimed(grouped_documents) = DOMAIN raw_pages
    <3>1. DOMAIN raw_pages = 1..Len(raw_pages)
      BY <2>1 DEF Split
    <3>2. Claimed(grouped_documents) \subseteq DOMAIN raw_pages
      BY <2>1 DEF Split, Partitioned, Claimed
    <3> QED BY <2>1, <3>1, <3>2 DEF Split, Partitioned
  <2>3. Reported => Published(processed_documents)
    BY <1>1 DEF IInv, Reduced, Reported
  <2> QED BY <1>1, <2>1, <2>2, <2>3 DEF NothingLost, Published, IInv, Reduced, Split, Partitioned
<1> QED BY <1>1, IInvHolds, PTL

(* The status of a dossier follows from its results, and may be believed   *)
(* without reading them.                                                   *)
LEMMA StatusFollows ==
  ASSUME IInv, consolidation_node
  PROVE  /\ dossier_status' # "FAILED" => grouped_documents # << >>
         /\ dossier_status' = "COMPLETED" =>
              \A i \in DOMAIN processed_documents :
                processed_documents[i].status = "SUCCESS"
         /\ dossier_status' = "FAILED" =>
              \/ grouped_documents = << >>
              \/ processed_documents = << >>
              \/ \A i \in DOMAIN processed_documents :
                   processed_documents[i].status = "FAILED"
         /\ dossier_status' = "REQUIRES_REVIEW" =>
              /\ \E i \in DOMAIN processed_documents :
                   processed_documents[i].status # "SUCCESS"
              /\ \E i \in DOMAIN processed_documents :
                   processed_documents[i].status # "FAILED"
<1>1. CASE dossier_status = "FAILED" /\ processed_documents = << >>
  BY <1>1 DEF consolidation_node
<1>2. CASE ~ (dossier_status = "FAILED" /\ processed_documents = << >>)
  <2> DEFINE statuses == StatusesOf(processed_documents)
  <2>1. dossier_status' = resolve_dossier_status(processed_documents,
                                                 grouped_documents # << >>)
    BY <1>2 DEF consolidation_node
  <2>2. processed_documents # << >> => statuses # {}
    <3>1. processed_documents \in Seq(SoundResult)
      BY DEF IInv, Reduced
    <3>2. processed_documents # << >> => 1 \in DOMAIN processed_documents
      BY <3>1
    <3> QED BY <3>2 DEF StatusesOf
  <2>3. statuses = {processed_documents[i].status : i \in DOMAIN processed_documents}
    BY DEF StatusesOf
  <2> HIDE DEF statuses
  <2> QED BY <2>1, <2>2, <2>3 DEF resolve_dossier_status, statuses
<1> QED BY <1>1, <1>2

(* The status keeps its promise until the next run takes it back.          *)
THEOREM DossierStatusHonestHolds == Spec => []DossierStatusHonest
<1>1. Init => DossierStatusHonest
  BY DEF Init, DossierStatusHonest, Reported
<1>2. ASSUME IInv, IInv', DossierStatusHonest, [Next]_vars
      PROVE  DossierStatusHonest'
  <2> USE <1>2
  <2>1. CASE UNCHANGED vars
    BY <2>1 DEF vars, thread, history, DossierStatusHonest, Reported
  <2>2. CASE \/ run_dossier \/ smart_clustering_fails \/ smart_clustering_node
             \/ smart_clustering_raises \/ fan_in \/ fan_in_raises \/ crash
             \/ \E i \in DOMAIN verdicts : document_worker_node(i)
    <3>1. proc = "running" =>
            dossier_status \notin {"COMPLETED", "REQUIRES_REVIEW"} /\ ~ Reported
      BY DEF IInv, Calls, Reported
    <3>2. dossier_status' \notin {"COMPLETED", "REQUIRES_REVIEW"} /\ ~ Reported'
      BY <2>2, <3>1 DEF run_dossier, smart_clustering_fails, smart_clustering_node,
                        smart_clustering_raises, fan_in, fan_in_raises, crash,
                        document_worker_node, Running, thread, Reported
    <3> QED BY <3>2 DEF DossierStatusHonest
  <2>3. CASE consolidation_node
    <3>1. /\ UNCHANGED <<grouped_documents, processed_documents, durable, earlier>>
          /\ processed_documents \in Seq(SoundResult)
          /\ Len(processed_documents) = earlier + Len(grouped_documents)
          /\ ~durable => earlier = 0
          /\ earlier \in Nat /\ durable \in BOOLEAN
      BY <2>3 DEF consolidation_node, history, IInv, TypeOK, Reduced, Published, Running
    <3>2. \A i \in DOMAIN processed_documents : processed_documents[i] \in SoundResult
      BY <3>1
    <3>3. ASSUME dossier_status' = "COMPLETED"
          PROVE  /\ grouped_documents' # << >>
                 /\ \A i \in DOMAIN processed_documents' :
                      /\ processed_documents'[i].status # "FAILED"
                      /\ processed_documents'[i].unresolved = {}
                      /\ processed_documents'[i].successful # {}
      BY <2>3, <3>1, <3>2, <3>3, StatusFollows DEF SoundResult
    <3>4. ASSUME dossier_status' = "FAILED", grouped_documents' = << >>
          PROVE  durable' \/ processed_documents' = << >>
      <4>1. ~durable => Len(processed_documents) = 0
        BY <3>1, <3>4
      <4> QED BY <3>1, <4>1
    <3>5. ASSUME dossier_status' = "FAILED", grouped_documents' # << >>
          PROVE  /\ processed_documents' # << >>
                 /\ \A i \in DOMAIN processed_documents' :
                      processed_documents'[i].successful = {}
      <4>1. processed_documents # << >>
        <5>1. Split
          BY DEF IInv
        <5>2. Len(grouped_documents) \in Nat
          BY <3>1, <5>1, SplitTypes
        <5>3. grouped_documents \in Seq(Grouped(raw_pages))
          BY <5>1 DEF Split, Partitioned
        <5>4. Len(grouped_documents) # 0
          BY <3>1, <3>5, <5>3
        <5> QED BY <3>1, <5>2, <5>4
      <4>2. \A i \in DOMAIN processed_documents : processed_documents[i].status = "FAILED"
        BY <2>3, <3>1, <3>5, <4>1, StatusFollows
      <4> QED BY <3>1, <3>2, <4>1, <4>2 DEF SoundResult
    <3>6. ASSUME dossier_status' = "REQUIRES_REVIEW"
          PROVE  /\ grouped_documents' # << >>
                 /\ \E i \in DOMAIN processed_documents' :
                      processed_documents'[i].status # "SUCCESS"
                 /\ \E i \in DOMAIN processed_documents' :
                      \/ processed_documents'[i].successful # {}
                      \/ processed_documents'[i].unresolved # {}
      <4>1. /\ grouped_documents # << >>
            /\ \E i \in DOMAIN processed_documents :
                 processed_documents[i].status # "SUCCESS"
        BY <2>3, <3>6, StatusFollows
      <4>2. PICK i \in DOMAIN processed_documents : processed_documents[i].status # "FAILED"
        BY <2>3, <3>6, StatusFollows
      <4>3. \/ processed_documents[i].successful # {}
            \/ processed_documents[i].unresolved # {}
        <5>1. processed_documents[i] \in SoundResult
          BY <3>2, <4>2
        <5> QED BY <4>2, <5>1 DEF SoundResult, Result
      <4> QED BY <3>1, <4>1, <4>2, <4>3
    <3> QED BY <3>3, <3>4, <3>5, <3>6 DEF DossierStatusHonest
  <2> QED BY <2>1, <2>2, <2>3 DEF Next, Progress
<1> QED BY <1>1, <1>2, IInvHolds, PTL DEF Spec
=============================================================================
