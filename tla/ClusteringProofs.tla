-------------------------- MODULE ClusteringProofs --------------------------
(***************************************************************************)
(* The clustering of a file of any length, whatever the classifier         *)
(* answers: every page ends in exactly one document, no two documents have *)
(* one id, and no pairing of fronts and backs has more cards.              *)
(*                                                                         *)
(* The first part is about the grouping loop itself, a recursive function  *)
(* of the pages done: an iteration extends a partition of the pages gone   *)
(* past, and there is such a function.                                     *)
(***************************************************************************)
EXTENDS Clustering, FiniteSetTheorems, SequenceTheorems, WellFoundedInduction, TLAPS

(* A nonempty set of pages has a first one.                                *)
LEMMA FirstPage ==
  ASSUME NEW S, S \subseteq Nat, S # {}
  PROVE  \E q \in S : \A r \in S : q <= r
<1>1. IsWellFoundedOn(OpToRel(<, Nat), Nat)
  BY NatLessThanWellFounded
<1>2. \E q \in S : \A r \in S : <<r, q>> \notin OpToRel(<, Nat)
  BY <1>1, WFMin
<1>3. \A q, r \in Nat : <<r, q>> \notin OpToRel(<, Nat) => q <= r
  BY DEF OpToRel
<1> QED BY <1>2, <1>3

(* A document holds the page that opens it, alone or with a later page of  *)
(* the file no document has.                                               *)
LEMMA DocumentPagesAre ==
  ASSUME NEW types \in Seq(PageTypes), NEW claimed, NEW page \in DOMAIN types
  PROVE  \/ DocumentPages(types, claimed, page) = <<page>>
         \/ \E q \in DOMAIN types \ claimed :
              q > page /\ DocumentPages(types, claimed, page) = <<page, q>>
<1> DEFINE backs == IF types[page] \in DOMAIN PairedPageType
                    THEN Backs(types, claimed, page) ELSE {}
<1>1. CASE backs = {}
  BY <1>1 DEF DocumentPages
<1>2. CASE backs # {}
  <2>1. backs \subseteq {q \in DOMAIN types \ claimed : q > page}
    BY DEF Backs
  <2>2. backs \subseteq Nat
    BY <2>1
  <2> DEFINE first == CHOOSE q \in backs : \A r \in backs : q <= r
  <2>3. first \in backs
    BY <1>2, <2>2, FirstPage
  <2>4. DocumentPages(types, claimed, page) = <<page, first>>
    BY <1>2 DEF DocumentPages
  <2> HIDE DEF first
  <2> QED BY <2>1, <2>3, <2>4
<1> QED BY <1>1, <1>2

(* What the loop appends for a page nobody has claimed.                    *)
NewDocument(types, grouped, page) ==
  LogicalDocument(grouped, types, DocumentPages(types, Claimed(grouped), page))

(* It is typed, has the page, and only pages nobody has claimed.           *)
LEMMA NewDocumentIs ==
  ASSUME NEW types \in Seq(PageTypes), NEW grouped, NEW page \in DOMAIN types,
         page \notin Claimed(grouped)
  PROVE  LET document == NewDocument(types, grouped, page) IN
           /\ document.doc_type \in PageTypes
           /\ document.page_indexes \in Seq(DOMAIN types)
           /\ page \in PagesOf(document)
           /\ PagesOf(document) \subseteq DOMAIN types \ Claimed(grouped)
           /\ document.ordinal =
                1 + Cardinality({d \in DOMAIN grouped :
                                   grouped[d].doc_type = document.doc_type})
           /\ document = [doc_type |-> document.doc_type, ordinal |-> document.ordinal,
                          page_indexes |-> document.page_indexes]
<1> DEFINE pages == DocumentPages(types, Claimed(grouped), page)
           document == NewDocument(types, grouped, page)
<1>1. /\ document.doc_type = DocType(types, pages)
      /\ document.ordinal = NextOrdinal(grouped, types, pages)
      /\ document.page_indexes = pages
      /\ document = [doc_type |-> document.doc_type, ordinal |-> document.ordinal,
                     page_indexes |-> document.page_indexes]
  BY DEF NewDocument, LogicalDocument
<1>2. /\ pages \in Seq(DOMAIN types) /\ Len(pages) \in {1, 2}
      /\ pages[1] = page
      /\ {pages[k] : k \in DOMAIN pages} \subseteq DOMAIN types \ Claimed(grouped)
  <2>1. CASE pages = <<page>>
    BY <2>1
  <2>2. CASE \E q \in DOMAIN types \ Claimed(grouped) : q > page /\ pages = <<page, q>>
    BY <2>2
  <2> QED BY <2>1, <2>2, DocumentPagesAre
<1> HIDE DEF pages, document
<1>3. DocType(types, pages) \in PageTypes
  <2>1. "INE_COMBINED" \in PageTypes
    BY DEF PageTypes, PageType
  <2>2. types[page] \in PageTypes
    OBVIOUS
  <2> QED BY <1>2, <2>1, <2>2 DEF DocType
<1>4. page \in PagesOf(document) /\ PagesOf(document) \subseteq DOMAIN types \ Claimed(grouped)
  BY <1>1, <1>2 DEF PagesOf
<1> QED BY <1>1, <1>2, <1>3, <1>4 DEF NextOrdinal, document

(* A document appended leaves the others where they are.                   *)
LEMMA Appended ==
  ASSUME NEW S, NEW grouped \in Seq(S), NEW document \in S
  PROVE  LET longer == Append(grouped, document)
             last   == Len(grouped) + 1
         IN  /\ longer \in Seq(S) /\ Len(longer) = last
             /\ last \notin DOMAIN grouped
             /\ DOMAIN longer = DOMAIN grouped \cup {last}
             /\ \A d \in DOMAIN grouped : longer[d] = grouped[d]
             /\ longer[last] = document
             /\ IsFiniteSet(DOMAIN grouped)
             /\ Cardinality(DOMAIN grouped) = Len(grouped)
<1>1. Len(grouped) \in Nat /\ DOMAIN grouped = 1..Len(grouped)
  OBVIOUS
<1>2. ASSUME NEW n \in Nat
      PROVE  IsFiniteSet(1..n) /\ Cardinality(1..n) = n
  <2>1. 1 \in Int /\ n \in Int
    OBVIOUS
  <2>2. IsFiniteSet(1..n) /\ Cardinality(1..n) = IF 1 > n THEN 0 ELSE n - 1 + 1
    BY <2>1, FS_Interval
  <2> QED BY <2>2
<1> QED BY <1>1, <1>2

-----------------------------------------------------------------------------
Grouped(types) ==
  [doc_type: PageTypes, ordinal: 1..Len(types), page_indexes: Seq(DOMAIN types)]

(* The documents are disjoint sets of pages of the file, no page the loop  *)
(* has gone past is missing, and each iteration made one document at most. *)
Partitioned(types, grouped, past) ==
  /\ grouped \in Seq(Grouped(types))
  /\ Len(grouped) <= past
  /\ \A d \in DOMAIN grouped : PagesOf(grouped[d]) \subseteq DOMAIN types
  /\ \A d, e \in DOMAIN grouped :
       d # e => PagesOf(grouped[d]) \cap PagesOf(grouped[e]) = {}
  /\ 1..past \subseteq Claimed(grouped)

(* The document a page nobody has claimed opens.                           *)
LEMMA NewDocumentTypes ==
  ASSUME NEW types \in Seq(PageTypes), NEW grouped, NEW page \in DOMAIN types,
         Partitioned(types, grouped, page - 1), page \notin Claimed(grouped)
  PROVE  NewDocument(types, grouped, page) \in Grouped(types)
<1> DEFINE document == NewDocument(types, grouped, page)
           alike == {d \in DOMAIN grouped : grouped[d].doc_type = document.doc_type}
<1>1. /\ document.doc_type \in PageTypes
      /\ document.page_indexes \in Seq(DOMAIN types)
      /\ document.ordinal = 1 + Cardinality(alike)
      /\ document = [doc_type |-> document.doc_type, ordinal |-> document.ordinal,
                     page_indexes |-> document.page_indexes]
  BY NewDocumentIs
<1> HIDE DEF document
<1>2. /\ Len(grouped) \in Nat /\ Len(grouped) <= page - 1
      /\ page \in 1..Len(types) /\ Len(types) \in Nat
      /\ grouped \in Seq(Grouped(types))
  BY DEF Partitioned
<1>3. Cardinality(alike) \in 0..Len(grouped)
  <2>1. IsFiniteSet(DOMAIN grouped) /\ Cardinality(DOMAIN grouped) = Len(grouped)
    <3>1. 1 \in Int /\ Len(grouped) \in Int /\ DOMAIN grouped = 1..Len(grouped)
      BY <1>2
    <3>2. /\ IsFiniteSet(1..Len(grouped))
          /\ Cardinality(1..Len(grouped)) = IF 1 > Len(grouped) THEN 0 ELSE Len(grouped) - 1 + 1
      BY <3>1, FS_Interval
    <3> QED BY <1>2, <3>1, <3>2
  <2>2. alike \in SUBSET (DOMAIN grouped)
    OBVIOUS
  <2> HIDE DEF alike
  <2>3. IsFiniteSet(alike) /\ Cardinality(alike) <= Len(grouped)
    BY <2>1, <2>2, FS_Subset
  <2> QED BY <1>2, <2>3, FS_CardinalityType
<1> HIDE DEF alike
<1>4. document.ordinal \in 1..Len(types)
  BY <1>1, <1>2, <1>3
<1> QED BY <1>1, <1>4 DEF Grouped, document

(* An iteration takes a partition of the pages gone past one page further. *)
LEMMA GroupPageExtends ==
  ASSUME NEW types \in Seq(PageTypes), NEW grouped, NEW page \in DOMAIN types,
         Partitioned(types, grouped, page - 1)
  PROVE  Partitioned(types, GroupPage(types, grouped, page), page)
<1>0. page \in Nat \ {0} /\ 1..page = (1..(page - 1)) \cup {page}
  <2>1. page \in 1..Len(types) /\ Len(types) \in Nat
    OBVIOUS
  <2> QED BY <2>1
<1>1. CASE page \in Claimed(grouped)
  <2>1. GroupPage(types, grouped, page) = grouped
    BY <1>1 DEF GroupPage
  <2>2. Len(grouped) \in Nat
    BY DEF Partitioned
  <2> QED BY <1>0, <1>1, <2>1, <2>2 DEF Partitioned
<1>2. CASE page \notin Claimed(grouped)
  <2> DEFINE document == NewDocument(types, grouped, page)
             longer == Append(grouped, document)
             last == Len(grouped) + 1
  <2>1. GroupPage(types, grouped, page) = longer
    BY <1>2 DEF GroupPage, NewDocument
  <2>2. document \in Grouped(types)
    BY <1>2, NewDocumentTypes
  <2>3. /\ page \in PagesOf(document)
        /\ PagesOf(document) \subseteq DOMAIN types \ Claimed(grouped)
    BY <1>2, NewDocumentIs
  <2> HIDE DEF document
  <2>4. /\ longer \in Seq(Grouped(types)) /\ Len(longer) = last
        /\ DOMAIN longer = DOMAIN grouped \cup {last}
        /\ \A d \in DOMAIN grouped : longer[d] = grouped[d]
        /\ longer[last] = document
    BY <2>2, Appended DEF Partitioned
  <2>5. last <= page
    <3>1. Len(grouped) \in Nat /\ Len(grouped) <= page - 1
      BY DEF Partitioned
    <3> QED BY <1>0, <3>1
  <2> HIDE DEF longer, last
  <2>6. \A d \in DOMAIN longer : PagesOf(longer[d]) \subseteq DOMAIN types
    BY <2>3, <2>4 DEF Partitioned
  <2>7. \A d \in DOMAIN grouped : PagesOf(document) \cap PagesOf(grouped[d]) = {}
    BY <2>3 DEF Claimed
  <2>8. \A d, e \in DOMAIN longer :
          d # e => PagesOf(longer[d]) \cap PagesOf(longer[e]) = {}
    BY <2>4, <2>7 DEF Partitioned
  <2>9. Claimed(longer) = Claimed(grouped) \cup PagesOf(document)
    BY <2>4 DEF Claimed
  <2>10. 1..page \subseteq Claimed(longer)
    BY <1>0, <2>3, <2>9 DEF Partitioned
  <2> QED BY <2>1, <2>4, <2>5, <2>6, <2>8, <2>10 DEF Partitioned
<1> QED BY <1>1, <1>2

-----------------------------------------------------------------------------
(* A statement about the pages done that holds of none, and is passed on   *)
(* by every iteration, holds of all: there is no first page it fails at.   *)
LEMMA PageInduction ==
  ASSUME NEW n \in Nat, NEW Holds, 0 \in Holds,
         \A page \in 1..n : page - 1 \in Holds => page \in Holds
  PROVE  0..n \subseteq Holds
<1> DEFINE fails == (0..n) \ Holds
<1> SUFFICES ASSUME fails # {}
             PROVE  FALSE
  OBVIOUS
<1>0. fails \subseteq Nat
  OBVIOUS
<1>1. PICK page \in fails : \A other \in fails : page <= other
  <2> HIDE DEF fails
  <2> QED BY <1>0, FirstPage
<1>2. page \in 1..n /\ page - 1 \in 0..n /\ ~ (page <= page - 1)
  BY <1>1
<1> QED BY <1>1, <1>2

(* The loop, as a function of the pages done.                              *)
IsLoop(types, n, f) ==
  f = [page \in 0..n |-> IF page = 0 THEN << >> ELSE GroupPage(types, f[page - 1], page)]

(* A function with the equation of the loop exists, for files of any length. *)
LEMMA LoopExists ==
  ASSUME NEW types, NEW n \in Nat
  PROVE  \E f : IsLoop(types, n, f)
<1> DEFINE holds == {m \in 0..n : \E f : IsLoop(types, m, f)}
<1>1. 0 \in holds
  <2> DEFINE f == [page \in 0..0 |-> << >>]
  <2>1. IsLoop(types, 0, f)
    BY DEF IsLoop
  <2> QED BY <2>1
<1>2. ASSUME NEW page \in 1..n, page - 1 \in holds
      PROVE  page \in holds
  <2>1. PICK f : IsLoop(types, page - 1, f)
    BY <1>2
  <2> DEFINE g == [p \in 0..page |-> IF p = page THEN GroupPage(types, f[page - 1], page)
                                     ELSE f[p]]
  <2>2. ASSUME NEW p \in 0..page
        PROVE  g[p] = IF p = 0 THEN << >> ELSE GroupPage(types, g[p - 1], p)
    <3>1. CASE p = page
      <4>1. page # 0 /\ page - 1 \in 0..page /\ page - 1 # page
        OBVIOUS
      <4> QED BY <3>1, <4>1
    <3>2. CASE p # page
      <4>1. p \in 0..(page - 1)
        BY <3>2
      <4>2. p # 0 => p - 1 \in 0..page /\ p - 1 # page
        BY <3>2
      <4>3. f[p] = IF p = 0 THEN << >> ELSE GroupPage(types, f[p - 1], p)
        BY <2>1, <4>1 DEF IsLoop
      <4> QED BY <3>2, <4>2, <4>3
    <3> QED BY <3>1, <3>2
  <2>3. g = [p \in 0..page |-> g[p]]
    OBVIOUS
  <2> HIDE DEF g
  <2>4. IsLoop(types, page, g)
    BY <2>2, <2>3 DEF IsLoop
  <2> QED BY <2>4
<1> HIDE DEF holds
<1>3. 0..n \subseteq holds
  BY <1>1, <1>2, PageInduction
<1> QED BY <1>3 DEF holds

-----------------------------------------------------------------------------
(* An answer of the classifier is a page type, or UNKNOWN.                 *)
LEMMA NormalizedTypes ==
  ASSUME NEW mentioned \in SUBSET PageTypes
  PROVE  normalize_page_type(mentioned) \in PageTypes
<1>1. DOMAIN PageType = 1..8
  BY DEF PageType
<1>2. CASE mentioned = {}
  BY <1>2 DEF normalize_page_type, PageTypes, PageType
<1>3. CASE mentioned # {}
  <2> DEFINE S == {i \in 1..8 : PageType[i] \in mentioned}
  <2>1. S # {} /\ S \subseteq Nat
    BY <1>1, <1>3 DEF PageTypes
  <2>2. PICK i \in S : \A j \in S : i <= j
    BY <2>1, FirstPage
  <2>3. /\ i \in DOMAIN PageType
        /\ PageType[i] \in mentioned
        /\ \A j \in 1..(i - 1) : PageType[j] \notin mentioned
    BY <1>1, <2>2
  <2>4. normalize_page_type(mentioned) = PageType[CHOOSE k \in DOMAIN PageType :
                  /\ PageType[k] \in mentioned
                  /\ \A j \in 1..(k - 1) : PageType[j] \notin mentioned]
    BY <1>3 DEF normalize_page_type
  <2>5. normalize_page_type(mentioned) \in mentioned
    BY <2>3, <2>4
  <2> QED BY <2>5
<1> QED BY <1>2, <1>3

-----------------------------------------------------------------------------
(* Where the node is says how far it is: classification is complete before *)
(* a page is grouped.                                                      *)
Progress ==
  /\ phase = "render" => page_count = 0
  /\ phase = "classify" => Len(page_types) < page_count
  /\ phase = "group" => Len(page_types) = page_count /\ position < page_count
  /\ phase = "done" => position = page_count
  /\ phase \in {"render", "classify"} => position = 0

(* The documents grouped so far partition the pages gone past.             *)
Partition == Partitioned(page_types, grouped_documents, position)

IInv == TypeOK /\ Progress /\ Partition

(* Documents of a file of the right length are typed.                      *)
LEMMA GroupedTypes ==
  ASSUME NEW types \in Seq(PageTypes), Len(types) <= MaxPages
  PROVE  Seq(Grouped(types)) \subseteq Seq(Document)
<1>1. Len(types) \in Nat /\ DOMAIN types = 1..Len(types) /\ MaxPages \in Nat
  BY ClusteringAssumption
<1>2. DOMAIN types \subseteq 1..MaxPages /\ 1..Len(types) \subseteq 1..MaxPages
  BY <1>1
<1>3. Seq(DOMAIN types) \subseteq Seq(1..MaxPages)
  BY <1>2, SeqMonotonic
<1>4. Grouped(types) \subseteq Document
  BY <1>2, <1>3 DEF Grouped, Document
<1> QED BY <1>4, SeqMonotonic

(* The page the loop is at, and what its iteration leaves.                 *)
LEMMA GroupPageStep ==
  ASSUME IInv, group_page
  PROVE  /\ position \in Nat /\ position + 1 \in DOMAIN page_types
         /\ Partitioned(page_types, grouped_documents, (position + 1) - 1)
         /\ Partitioned(page_types, grouped_documents', position + 1)
<1>1. /\ position \in Nat /\ Len(page_types) \in Nat /\ position < Len(page_types)
      /\ page_types \in Seq(PageTypes)
  BY DEF group_page, IInv, TypeOK, Progress
<1>2. position + 1 \in DOMAIN page_types /\ (position + 1) - 1 = position
  BY <1>1
<1>3. Partitioned(page_types, grouped_documents, (position + 1) - 1)
  BY <1>2 DEF IInv, Partition
<1>4. grouped_documents' = GroupPage(page_types, grouped_documents, position + 1)
  BY DEF group_page
<1> QED BY <1>1, <1>2, <1>3, <1>4, GroupPageExtends

(* Each loop ends before the next one starts, and extends the partition.   *)
LEMMA IInvHolds == Spec => []IInv
<1>1. Init => IInv
  BY ClusteringAssumption
     DEF Init, IInv, TypeOK, Progress, Partition, Partitioned, Claimed
<1>2. ASSUME IInv, [Next]_vars
      PROVE  IInv'
  <2> USE <1>2, ClusteringAssumption
  <2>1. CASE nothing_to_render \/ render_pages \/ node_raises \/ UNCHANGED vars
    BY <2>1 DEF nothing_to_render, render_pages, node_raises, vars, IInv, TypeOK,
       Progress, Partition
  <2>2. ASSUME NEW type \in PageTypes, phase = "classify", Classified(type),
               \/ UNCHANGED warnings
               \/ warnings' = warnings \cup {Len(page_types')}
        PROVE  IInv'
    <3>1. /\ page_types' \in Seq(PageTypes)
          /\ Len(page_types') = Len(page_types) + 1
          /\ DOMAIN page_types = 1..Len(page_types)
          /\ DOMAIN page_types' = 1..Len(page_types) + 1
          /\ Len(page_types) \in Nat
      BY <2>2 DEF Classified, IInv, TypeOK
    <3>2. /\ page_count \in 0..MaxPages /\ Len(page_types) < page_count
          /\ position = 0
      BY <2>2 DEF IInv, TypeOK, Progress
    <3>3. /\ phase' = IF Len(page_types') = page_count THEN "group" ELSE "classify"
          /\ UNCHANGED <<page_count, position, grouped_documents, dossier_status>>
      BY <2>2 DEF Classified
    <3>4. warnings' \subseteq DOMAIN page_types'
      BY <2>2, <3>1 DEF IInv, TypeOK
    <3>5. TypeOK'
      BY <3>1, <3>2, <3>3, <3>4 DEF IInv, TypeOK
    <3>6. /\ phase' = "group" => Len(page_types') = page_count' /\ position' < page_count'
          /\ phase' = "classify" => Len(page_types') < page_count'
          /\ phase' \in {"group", "classify"}
      BY <3>1, <3>2, <3>3
    <3>7. Progress'
      BY <3>2, <3>3, <3>6 DEF Progress
    <3>8. grouped_documents = << >>
      <4>1. Len(grouped_documents) \in Nat /\ Len(grouped_documents) <= 0
        BY <3>2 DEF IInv, TypeOK, Partition, Partitioned
      <4> QED BY <4>1, EmptySeq DEF IInv, TypeOK
    <3>9. Partition'
      BY <3>2, <3>3, <3>8 DEF Partition, Partitioned, Claimed
    <3> QED BY <3>5, <3>7, <3>9 DEF IInv
  <2>3. CASE classify_page
    BY <2>2, <2>3, NormalizedTypes DEF classify_page
  <2>4. CASE classify_page_fails
    <3>1. "UNKNOWN" \in PageTypes
      BY DEF PageTypes, PageType
    <3> QED BY <2>2, <2>4, <3>1 DEF classify_page_fails
  <2>5. CASE group_page
    <3>1. /\ phase = "group" /\ Len(page_types) = page_count /\ position < page_count
          /\ position \in Nat /\ page_count \in 0..MaxPages
          /\ page_types \in Seq(PageTypes)
      BY <2>5 DEF group_page, IInv, TypeOK, Progress
    <3>2. /\ position' = position + 1
          /\ phase' = IF position' = page_count THEN "done" ELSE "group"
          /\ UNCHANGED <<page_count, page_types, warnings, dossier_status>>
      BY <2>5 DEF group_page
    <3>3. Partition'
      BY <2>5, <3>2, GroupPageStep DEF Partition
    <3>4. grouped_documents' \in Seq(Document)
      <4>1. Len(page_types) <= MaxPages
        BY <3>1
      <4>2. grouped_documents' \in Seq(Grouped(page_types))
        BY <3>2, <3>3 DEF Partition, Partitioned
      <4> QED BY <3>1, <4>1, <4>2, GroupedTypes
    <3>5. TypeOK'
      BY <3>1, <3>2, <3>4 DEF IInv, TypeOK
    <3>6. Progress'
      BY <3>1, <3>2 DEF Progress
    <3> QED BY <3>3, <3>5, <3>6 DEF IInv
  <2> QED BY <2>1, <2>3, <2>4, <2>5 DEF Next
<1> QED BY <1>1, <1>2, PTL DEF Spec

(* Every variable stays in its type, the ordinals of documents included.   *)
THEOREM TypeCorrect == Spec => []TypeOK
<1>1. IInv => TypeOK
  BY DEF IInv
<1> QED BY <1>1, IInvHolds, PTL

(* However cards and answers are mixed, every page of the file is in       *)
(* exactly one document.                                                   *)
THEOREM EveryPageOnceHolds == Spec => []EveryPageOnce
<1>1. ASSUME IInv
      PROVE  EveryPageOnce
  <2> USE <1>1 DEF IInv, Partition
  <2>1. ASSUME phase = "done"
        PROVE  Claimed(grouped_documents) = 1..page_count
    <3>1. DOMAIN page_types \subseteq 1..page_count /\ position = page_count
      BY <2>1 DEF TypeOK, Progress
    <3>2. Claimed(grouped_documents) \subseteq DOMAIN page_types
      BY DEF Partitioned, Claimed
    <3> QED BY <3>1, <3>2 DEF Partitioned
  <2> QED BY <2>1 DEF EveryPageOnce, Partitioned
<1> QED BY <1>1, IInvHolds, PTL

-----------------------------------------------------------------------------
(* An ordinal is no larger than the number of documents of its type, so    *)
(* the next one is new.                                                    *)
Numbered ==
  \A d \in DOMAIN grouped_documents :
    grouped_documents[d].ordinal <=
      Cardinality({e \in DOMAIN grouped_documents :
                     grouped_documents[e].doc_type = grouped_documents[d].doc_type})

(* A combined card and a card photocopied on one page are numbered in one  *)
(* sequence: no two documents of a dossier have the same id.               *)
THEOREM DocumentIdsUniqueHolds == Spec => []DocumentIdsUnique
<1>1. Init => Numbered /\ DocumentIdsUnique
  BY DEF Init, Numbered, DocumentIdsUnique
<1>2. ASSUME IInv, Numbered, DocumentIdsUnique, [Next]_vars
      PROVE  Numbered' /\ DocumentIdsUnique'
  <2> USE <1>2
  <2>1. CASE UNCHANGED grouped_documents
    BY <2>1 DEF Numbered, DocumentIdsUnique
  <2>2. CASE /\ group_page
             /\ position + 1 \notin Claimed(grouped_documents)
    <3> DEFINE document == NewDocument(page_types, grouped_documents, position + 1)
               last == Len(grouped_documents) + 1
               Alike(type) == {e \in DOMAIN grouped_documents :
                                 grouped_documents[e].doc_type = type}
               AlikeNow(type) == {e \in DOMAIN grouped_documents' :
                                    grouped_documents'[e].doc_type = type}
    <3>0. grouped_documents \in Seq(Grouped(page_types)) /\ page_types \in Seq(PageTypes)
      BY DEF IInv, TypeOK, Partition, Partitioned
    <3>1. /\ document \in Grouped(page_types)
          /\ document.ordinal = 1 + Cardinality(Alike(document.doc_type))
      BY <2>2, <3>0, GroupPageStep, NewDocumentTypes, NewDocumentIs
    <3>2. grouped_documents' = Append(grouped_documents, document)
      BY <2>2 DEF group_page, GroupPage, NewDocument
    <3> HIDE DEF document
    <3>3. /\ last \notin DOMAIN grouped_documents
          /\ DOMAIN grouped_documents' = DOMAIN grouped_documents \cup {last}
          /\ \A d \in DOMAIN grouped_documents :
               grouped_documents'[d] = grouped_documents[d]
          /\ grouped_documents'[last] = document
          /\ IsFiniteSet(DOMAIN grouped_documents)
      BY <3>0, <3>1, <3>2, Appended
    <3> HIDE DEF last
    <3>4. ASSUME NEW type
          PROVE  /\ IsFiniteSet(Alike(type)) /\ Cardinality(Alike(type)) \in Nat
                 /\ last \notin Alike(type)
                 /\ AlikeNow(type) = IF document.doc_type = type
                                     THEN Alike(type) \cup {last} ELSE Alike(type)
      <4>1. Alike(type) \in SUBSET (DOMAIN grouped_documents)
        OBVIOUS
      <4>2. IsFiniteSet(Alike(type))
        BY <3>3, <4>1, FS_Subset
      <4> QED BY <3>3, <4>1, <4>2, FS_CardinalityType
    <3>5. ASSUME NEW type
          PROVE  /\ Cardinality(AlikeNow(type)) \in Nat
                 /\ Cardinality(AlikeNow(type)) >= Cardinality(Alike(type))
                 /\ document.doc_type = type =>
                      Cardinality(AlikeNow(type)) = Cardinality(Alike(type)) + 1
      <4>1. Cardinality(Alike(type) \cup {last}) = Cardinality(Alike(type)) + 1
        BY <3>4, FS_AddElement
      <4> HIDE DEF Alike, AlikeNow
      <4> QED BY <3>4, <4>1
    <3>6. \A d \in DOMAIN grouped_documents :
            /\ grouped_documents[d].ordinal \in Nat
            /\ grouped_documents[d].ordinal <= Cardinality(Alike(grouped_documents[d].doc_type))
      <4>1. ASSUME NEW d \in DOMAIN grouped_documents
            PROVE  grouped_documents[d].ordinal \in Nat
        <5>1. grouped_documents[d] \in Grouped(page_types) /\ Len(page_types) \in Nat
          BY <3>0
        <5>2. grouped_documents[d].ordinal \in 1..Len(page_types)
          BY <5>1 DEF Grouped
        <5> QED BY <5>1, <5>2
      <4>2. \A d \in DOMAIN grouped_documents :
              grouped_documents[d].ordinal <= Cardinality(Alike(grouped_documents[d].doc_type))
        BY DEF Numbered
      <4> QED BY <4>1, <4>2
    <3>7. ASSUME NEW d \in DOMAIN grouped_documents'
          PROVE  grouped_documents'[d].ordinal <=
                   Cardinality(AlikeNow(grouped_documents'[d].doc_type))
      <4> HIDE DEF Alike, AlikeNow
      <4>1. CASE d = last
        BY <3>1, <3>3, <3>4, <3>5, <4>1
      <4>2. CASE d \in DOMAIN grouped_documents
        BY <3>3, <3>4, <3>5, <3>6, <4>2
      <4> QED BY <3>3, <4>1, <4>2
    <3>8. Numbered'
      BY <3>7 DEF Numbered
    <3>9. \A d \in DOMAIN grouped_documents : DocId(grouped_documents[d]) # DocId(document)
      <4> HIDE DEF Alike
      <4> QED BY <3>1, <3>4, <3>6 DEF DocId
    <3>10. DocumentIdsUnique'
      BY <3>3, <3>9 DEF DocumentIdsUnique, DocId
    <3> QED BY <3>8, <3>10
  <2>3. \/ UNCHANGED grouped_documents
        \/ group_page /\ position + 1 \notin Claimed(grouped_documents)
    BY DEF Next, vars, nothing_to_render, render_pages, classify_page,
           classify_page_fails, node_raises, Classified, group_page, GroupPage
  <2> QED BY <2>1, <2>2, <2>3
<1> QED BY <1>1, <1>2, IInvHolds, PTL DEF Spec

-----------------------------------------------------------------------------
(* A set of pages of the file has a last one.                              *)
LEMMA LastPage ==
  ASSUME NEW n \in Nat, NEW S, S \subseteq 1..n, S # {}
  PROVE  \E q \in S : \A r \in S : r <= q
<1> DEFINE back == {m \in 0..n : n - m \in S}
<1>1. back \subseteq Nat /\ \A q \in S : n - q \in back
  OBVIOUS
<1>2. PICK m \in back : \A k \in back : m <= k
  <2> HIDE DEF back
  <2> QED BY <1>1, FirstPage
<1>3. n - m \in S /\ \A r \in S : r <= n - m
  BY <1>1, <1>2
<1> QED BY <1>3

(* The exchange argument.  R is a set of pairs of pages that never passes  *)
(* over a back it leaves alone: a front before such a back has an earlier  *)
(* one.  Then no matching M of fronts and later backs is larger.  A pair   *)
(* of M that opens before the last back R leaves alone gives way to the    *)
(* pair of R with its front, any other to the pair of R with its back.     *)
LEMMA GreedyIsMaximum ==
  ASSUME NEW n \in Nat, NEW backs \in SUBSET (1..n),
         NEW R, IsFiniteSet(R), \A y \in R : y[2] \in 1..n,
         NEW M,
         \A x \in M : x[1] \in 1..n /\ x[2] \in backs /\ x[1] < x[2],
         \A x, y \in M : x # y => x[1] # y[1] /\ x[2] # y[2],
         \A x \in M : \A u \in backs :
           u > x[1] /\ (\A y \in R : y[2] # u) =>
             \E y \in R : y[1] = x[1] /\ y[2] < u
  PROVE  Cardinality(M) <= Cardinality(R)
<1> DEFINE alone == {u \in backs : \A y \in R : y[2] # u}
<1>1. PICK u \in Nat :
        /\ u # 0 => u \in alone
        /\ \A b \in backs : b > u => \E y \in R : y[2] = b
  <2>1. CASE alone = {}
    BY <2>1
  <2>2. CASE alone # {}
    <3>1. alone \subseteq 1..n
      OBVIOUS
    <3>2. PICK q \in alone : \A r \in alone : r <= q
      <4> HIDE DEF alone
      <4> QED BY <2>2, <3>1, LastPage
    <3>3. q \in Nat /\ \A b \in backs : b > q => b \notin alone
      BY <3>1, <3>2
    <3> QED BY <3>2, <3>3
  <2> QED BY <2>1, <2>2
<1> DEFINE For(x, y) == IF x[1] < u THEN y[1] = x[1] /\ y[2] < u ELSE y[2] = x[2]
           h == [x \in M |-> CHOOSE y \in R : For(x, y)]
<1>2. ASSUME NEW x \in M
      PROVE  \E y \in R : For(x, y)
  <2>1. x[1] \in 1..n /\ x[2] \in backs /\ x[2] \in 1..n /\ x[1] < x[2]
    OBVIOUS
  <2>2. CASE x[1] < u
    <3>1. u \in backs /\ u > x[1] /\ \A y \in R : y[2] # u
      BY <1>1, <2>1, <2>2
    <3> QED BY <2>2, <3>1
  <2>3. CASE ~(x[1] < u)
    <3>1. x[2] > u
      BY <2>1, <2>3
    <3> QED BY <1>1, <2>1, <2>3, <3>1
  <2> QED BY <2>2, <2>3
<1>3. \A x \in M : h[x] \in R /\ For(x, h[x])
  BY <1>2
<1> HIDE DEF h
<1>4. ASSUME NEW x \in M, NEW y \in M, h[x] = h[y]
      PROVE  x = y
  <2>1. x[1] \in 1..n /\ x[2] \in 1..n /\ y[1] \in 1..n /\ y[2] \in 1..n
    OBVIOUS
  <2>2. x[1] < x[2] /\ y[1] < y[2] /\ h[x][2] \in 1..n /\ h[y][2] \in 1..n
    BY <1>3
  <2>3. x[1] = y[1] \/ x[2] = y[2]
    BY <1>3, <1>4, <2>1, <2>2
  <2> QED BY <2>3
<1>5. h \in [M -> R]
  <2>1. h = [x \in M |-> h[x]]
    BY DEF h
  <2> QED BY <1>3, <2>1
<1>6. h \in Injection(M, R)
  BY <1>4, <1>5 DEF Injection, IsInjective
<1> QED BY <1>6, FS_Injection

(* A page opens a document of its own, or is a front and takes the first   *)
(* back behind it that no document has.                                    *)
LEMMA CardPages ==
  ASSUME NEW types \in Seq(PageTypes), NEW claimed, NEW page \in DOMAIN types
  PROVE  LET pages   == DocumentPages(types, claimed, page)
             free(q) == /\ q > page /\ types[q] = "INE_BACK"
                        /\ q \notin claimed
         IN  \/ /\ pages = <<page>>
                /\ types[page] = "INE_FRONT" => \A q \in DOMAIN types : ~free(q)
             \/ \E q \in DOMAIN types :
                  /\ pages = <<page, q>> /\ types[page] = "INE_FRONT"
                  /\ free(q) /\ \A r \in DOMAIN types : free(r) => q <= r
<1> DEFINE pages == DocumentPages(types, claimed, page)
           free == {q \in DOMAIN types : /\ q > page /\ types[q] = "INE_BACK"
                                         /\ q \notin claimed}
           backs == IF types[page] \in DOMAIN PairedPageType
                    THEN Backs(types, claimed, page) ELSE {}
<1>1. backs = IF types[page] = "INE_FRONT" THEN free ELSE {}
  BY DEF Backs, PairedPageType
<1>2. CASE backs = {}
  <2>1. pages = <<page>>
    BY <1>2 DEF DocumentPages
  <2> QED BY <1>1, <1>2, <2>1
<1>3. CASE backs # {}
  <2> DEFINE first == CHOOSE q \in backs : \A r \in backs : q <= r
  <2>1. pages = <<page, first>>
    BY <1>3 DEF DocumentPages
  <2>2. types[page] = "INE_FRONT" /\ backs = free /\ backs \subseteq Nat
    BY <1>1, <1>3
  <2>3. first \in backs /\ \A r \in backs : first <= r
    <3> HIDE DEF backs
    <3> QED BY <1>3, <2>2, FirstPage
  <2> HIDE DEF first, backs
  <2> QED BY <2>1, <2>2, <2>3
<1> QED BY <1>2, <1>3

(* A document is a page, or a front and a later back; the loop was at its  *)
(* first page.                                                             *)
IsCard(pages) ==
  /\ pages = <<pages[1], pages[2]>> /\ pages[1] < pages[2]
  /\ pages[1] \in DOMAIN page_types /\ pages[2] \in DOMAIN page_types
  /\ page_types[pages[1]] = "INE_FRONT" /\ page_types[pages[2]] = "INE_BACK"

Shapes ==
  \A d \in DOMAIN grouped_documents :
    LET pages == grouped_documents[d].page_indexes IN
      /\ pages = <<pages[1]>> \/ IsCard(pages)
      /\ pages[1] \in 1..position

(* Going past a front, the loop left no back behind it alone unless it     *)
(* gave the front an earlier one.                                          *)
Greedy ==
  \A p \in 1..position : \A u \in DOMAIN page_types :
    (/\ page_types[p] = "INE_FRONT" /\ page_types[u] = "INE_BACK" /\ u > p
     /\ \A y \in Reunited : y[2] # u)
      => \E y \in Reunited : y[1] = p /\ y[2] < u

(* The pages a document has, by its shape.                                 *)
LEMMA ShapePages ==
  ASSUME NEW d, LET pages == grouped_documents[d].page_indexes
                IN  pages = <<pages[1]>> \/ IsCard(pages)
  PROVE  LET pages == grouped_documents[d].page_indexes IN
           /\ pages[1] \in PagesOf(grouped_documents[d])
           /\ Len(pages) > 1 => IsCard(pages) /\ pages[2] \in PagesOf(grouped_documents[d])
           /\ \A q \in PagesOf(grouped_documents[d]) :
                q = pages[1] \/ (q = pages[2] /\ IsCard(pages) /\ Len(pages) > 1)
<1> DEFINE pages == grouped_documents[d].page_indexes
<1>1. CASE pages = <<pages[1]>>
  <2>1. DOMAIN pages = {1} /\ Len(pages) = 1
    BY <1>1
  <2> QED BY <2>1 DEF PagesOf
<1>2. CASE IsCard(pages)
  <2>1. DOMAIN pages = {1, 2} /\ Len(pages) = 2
    BY <1>2 DEF IsCard
  <2> QED BY <1>2, <2>1 DEF PagesOf
<1> QED BY <1>1, <1>2

(* A page ahead of the loop that some document has is the back of a card.  *)
LEMMA ClaimedAhead ==
  ASSUME IInv, Shapes, NEW q \in Claimed(grouped_documents), q \notin 1..position
  PROVE  page_types[q] = "INE_BACK" /\ \E y \in Reunited : y[2] = q
<1>1. PICK d \in DOMAIN grouped_documents : q \in PagesOf(grouped_documents[d])
  BY DEF Claimed
<1> DEFINE pages == grouped_documents[d].page_indexes
<1>2. (pages = <<pages[1]>> \/ IsCard(pages)) /\ pages[1] \in 1..position
  BY DEF Shapes
<1>3. q = pages[2] /\ IsCard(pages) /\ Len(pages) > 1
  BY <1>1, <1>2, ShapePages
<1> QED BY <1>3 DEF IsCard, Reunited

(* One page further, the documents still have these shapes.                *)
LEMMA GroupPagePairs ==
  ASSUME IInv, Shapes, Greedy, group_page
  PROVE  Shapes' /\ Greedy'
<1> DEFINE page == position + 1
           last == Len(grouped_documents) + 1
           types == page_types
<1>1. /\ position \in Nat /\ page \in DOMAIN types /\ types \in Seq(PageTypes)
      /\ grouped_documents \in Seq(Grouped(types))
      /\ Partitioned(types, grouped_documents, page - 1)
      /\ position' = page /\ types' = types
      /\ grouped_documents' = GroupPage(types, grouped_documents, page)
  BY GroupPageStep DEF group_page, IInv, TypeOK, Partition, Partitioned
<1>2. /\ 1..page = 1..position \cup {page} /\ page \notin 1..position
      /\ DOMAIN types \subseteq Nat
  BY <1>1
<1>3. \A pages : IsCard(pages)' = IsCard(pages)
  BY <1>1 DEF IsCard
<1> HIDE DEF page, types
<1>4. CASE page \in Claimed(grouped_documents)
  <2>1. grouped_documents' = grouped_documents
    BY <1>1, <1>4 DEF GroupPage
  <2>2. types[page] = "INE_BACK"
    BY <1>2, <1>4, ClaimedAhead DEF types
  <2>3. Shapes'
    BY <1>1, <1>2, <1>3, <2>1 DEF Shapes
  <2>4. Reunited' = Reunited
    BY <2>1 DEF Reunited
  <2>5. Greedy'
    BY <1>1, <1>2, <2>2, <2>4 DEF Greedy, types
  <2> QED BY <2>3, <2>5
<1>5. CASE page \notin Claimed(grouped_documents)
  <2> DEFINE document == NewDocument(types, grouped_documents, page)
             pages == document.page_indexes
  <2>1. pages = DocumentPages(types, Claimed(grouped_documents), page)
    BY DEF NewDocument, LogicalDocument
  <2>2. document \in Grouped(types)
    BY <1>1, <1>5, NewDocumentTypes
  <2>3. grouped_documents' = Append(grouped_documents, document)
    BY <1>1, <1>5 DEF GroupPage, NewDocument
  <2> HIDE DEF document
  <2>4. /\ DOMAIN grouped_documents' = DOMAIN grouped_documents \cup {last}
        /\ \A d \in DOMAIN grouped_documents :
             grouped_documents'[d] = grouped_documents[d]
        /\ grouped_documents'[last] = document
        /\ last \notin DOMAIN grouped_documents
    BY <1>1, <2>2, <2>3, Appended
  <2> HIDE DEF last
  <2>5. \A u \in DOMAIN types :
          (u > page /\ \A y \in Reunited : y[2] # u) => u \notin Claimed(grouped_documents)
    <3>1. \A u \in DOMAIN types : u > page => u \notin 1..position
      BY <1>1, <1>2 DEF page
    <3> QED BY <3>1, ClaimedAhead
  <2>6. CASE /\ pages = <<page>>
             /\ types[page] = "INE_FRONT" =>
                  \A q \in DOMAIN types :
                    ~(q > page /\ types[q] = "INE_BACK" /\ q \notin Claimed(grouped_documents))
    <3>1. pages = <<pages[1]>> /\ pages[1] = page /\ Len(pages) = 1
      BY <2>6
    <3>2. Shapes'
      BY <1>1, <1>2, <1>3, <2>4, <3>1 DEF Shapes
    <3>3. Reunited' = Reunited
      <4>1. {e \in DOMAIN grouped_documents' : Len(grouped_documents'[e].page_indexes) > 1}
              = {e \in DOMAIN grouped_documents : Len(grouped_documents[e].page_indexes) > 1}
        <5>1. Len(grouped_documents'[last].page_indexes) = 1
          BY <2>4, <3>1
        <5>2. \A e \in DOMAIN grouped_documents :
                grouped_documents'[e].page_indexes = grouped_documents[e].page_indexes
          BY <2>4
        <5> QED BY <2>4, <5>1, <5>2
      <4> QED BY <2>4, <4>1 DEF Reunited
    <3>4. ASSUME NEW u \in DOMAIN types, types[page] = "INE_FRONT",
                 types[u] = "INE_BACK", u > page
          PROVE  \E y \in Reunited : y[2] = u
      BY <2>5, <2>6, <3>4
    <3>5. ASSUME NEW p \in 1..page, NEW u \in DOMAIN types,
                 types[p] = "INE_FRONT", types[u] = "INE_BACK", u > p,
                 \A y \in Reunited' : y[2] # u
          PROVE  \E y \in Reunited' : y[1] = p /\ y[2] < u
      <4>1. p # page
        BY <3>3, <3>4, <3>5
      <4> QED BY <1>2, <3>3, <3>5, <4>1 DEF Greedy, types
    <3>6. Greedy'
      BY <1>1, <3>5 DEF Greedy, types
    <3> QED BY <3>2, <3>6
  <2>7. ASSUME NEW b \in DOMAIN types,
               pages = <<page, b>>, types[page] = "INE_FRONT",
               b > page, types[b] = "INE_BACK", b \notin Claimed(grouped_documents),
               \A r \in DOMAIN types :
                 (r > page /\ types[r] = "INE_BACK" /\ r \notin Claimed(grouped_documents))
                   => b <= r
        PROVE  Shapes' /\ Greedy'
    <3>1. pages = <<pages[1], pages[2]>> /\ pages[1] = page /\ pages[2] = b /\ Len(pages) = 2
      BY <2>7
    <3>2. IsCard(pages)
      BY <1>1, <1>2, <2>7, <3>1 DEF IsCard, types
    <3>3. Shapes'
      BY <1>1, <1>2, <1>3, <2>4, <3>1, <3>2 DEF Shapes
    <3>4. Reunited' = Reunited \cup {pages}
      BY <2>4, <3>1 DEF Reunited
    <3>5. ASSUME NEW p \in 1..page, NEW u \in DOMAIN types,
                 types[p] = "INE_FRONT", types[u] = "INE_BACK", u > p,
                 \A y \in Reunited' : y[2] # u
          PROVE  \E y \in Reunited' : y[1] = p /\ y[2] < u
      <4>1. u # b /\ \A y \in Reunited : y[2] # u
        BY <3>1, <3>4, <3>5
      <4>2. CASE p = page
        <5>1. b < u
          BY <1>2, <2>5, <2>7, <3>5, <4>1, <4>2
        <5> QED BY <3>1, <3>4, <4>2, <5>1
      <4>3. CASE p \in 1..position
        BY <3>4, <3>5, <4>1, <4>3 DEF Greedy, types
      <4> QED BY <1>2, <4>2, <4>3
    <3>6. Greedy'
      BY <1>1, <3>5 DEF Greedy, types
    <3> QED BY <3>3, <3>6
  <2> QED BY <1>1, <2>1, <2>6, <2>7, CardPages
<1> QED BY <1>4, <1>5

(* The greedy choice is as good as any: PairingMaximum, for a file of any  *)
(* length, whatever the classifier answers.                                *)
THEOREM PairingMaximumHolds == Spec => []PairingMaximum
<1>1. Init => Shapes /\ Greedy
  BY DEF Init, Shapes, Greedy
<1>2. ASSUME IInv, Shapes, Greedy, [Next]_vars
      PROVE  Shapes' /\ Greedy'
  <2>1. CASE group_page
    BY <1>2, <2>1, GroupPagePairs
  <2>2. CASE UNCHANGED <<page_types, position, grouped_documents>>
    BY <1>2, <2>2 DEF Shapes, Greedy, Reunited, IsCard
  <2>3. CASE phase = "classify" /\ UNCHANGED <<position, grouped_documents>>
    <3>1. position = 0 /\ Len(grouped_documents) <= 0 /\ Len(grouped_documents) \in Nat
      BY <1>2, <2>3 DEF IInv, TypeOK, Progress, Partition, Partitioned
    <3>2. DOMAIN grouped_documents' = {} /\ 1..position' = {}
      BY <1>2, <2>3, <3>1 DEF IInv, TypeOK
    <3> QED BY <3>2 DEF Shapes, Greedy
  <2> QED BY <1>2, <2>1, <2>2, <2>3 DEF Next, vars, nothing_to_render, render_pages,
             classify_page, classify_page_fails, node_raises, Classified
<1>3. ASSUME IInv, Shapes, Greedy
      PROVE  PairingMaximum
  <2> DEFINE types == page_types
             n == Len(types)
             backs == {b \in DOMAIN types : types[b] = "INE_BACK"}
  <2>1. SUFFICES ASSUME phase = "done"
                 PROVE  /\ Reunited \in Matchings
                        /\ \A M \in Matchings : Cardinality(M) <= Cardinality(Reunited)
    BY DEF PairingMaximum
  <2>2. /\ n \in Nat /\ DOMAIN types = 1..n /\ 1..n \subseteq 1..position
        /\ Partitioned(types, grouped_documents, position)
        /\ IsFiniteSet(DOMAIN grouped_documents)
    <3>1. /\ types \in Seq(PageTypes) /\ n <= page_count /\ position = page_count
          /\ page_count \in Nat /\ grouped_documents \in Seq(Document)
          /\ Partitioned(types, grouped_documents, position)
      BY <1>3, <2>1, ClusteringAssumption DEF IInv, TypeOK, Progress, Partition
    <3>2. DOMAIN grouped_documents = 1..Len(grouped_documents) /\ Len(grouped_documents) \in Nat
      BY <3>1
    <3>3. IsFiniteSet(1..Len(grouped_documents))
      <4>1. 1 \in Int /\ Len(grouped_documents) \in Int
        BY <3>2
      <4> QED BY <4>1, FS_Interval
    <3> QED BY <3>1, <3>2, <3>3
  <2>3. ASSUME NEW y \in Reunited
        PROVE  \E d \in DOMAIN grouped_documents :
                 /\ y = grouped_documents[d].page_indexes /\ IsCard(y)
                 /\ {y[1], y[2]} \subseteq PagesOf(grouped_documents[d])
    <3>1. PICK d \in DOMAIN grouped_documents :
                 y = grouped_documents[d].page_indexes /\ Len(y) > 1
      BY DEF Reunited
    <3>2. y = <<y[1]>> \/ IsCard(y)
      BY <1>3, <3>1 DEF Shapes
    <3> QED BY <3>1, <3>2, ShapePages
  <2>4. ASSUME NEW x \in Reunited, NEW y \in Reunited, x # y
        PROVE  x[1] # y[1] /\ x[2] # y[2]
    <3>1. PICK d \in DOMAIN grouped_documents :
                 /\ x = grouped_documents[d].page_indexes
                 /\ {x[1], x[2]} \subseteq PagesOf(grouped_documents[d])
      BY <2>3
    <3>2. PICK e \in DOMAIN grouped_documents :
                 /\ y = grouped_documents[e].page_indexes
                 /\ {y[1], y[2]} \subseteq PagesOf(grouped_documents[e])
      BY <2>3
    <3>3. PagesOf(grouped_documents[d]) \cap PagesOf(grouped_documents[e]) = {}
      BY <2>2, <2>4, <3>1, <3>2 DEF Partitioned
    <3> QED BY <3>1, <3>2, <3>3
  <2>5. \A y \in Reunited : y \in {x \in (DOMAIN types) \X (DOMAIN types) :
                  /\ types[x[1]] = "INE_FRONT"
                  /\ types[x[2]] = "INE_BACK"
                  /\ x[1] < x[2]}
    BY <2>3 DEF IsCard
  <2>6. Reunited \in Matchings
    BY <2>4, <2>5 DEF Matchings
  <2>7. IsFiniteSet(Reunited)
    <3> DEFINE several == {d \in DOMAIN grouped_documents :
                             Len(grouped_documents[d].page_indexes) > 1}
               card == [d \in several |-> grouped_documents[d].page_indexes]
    <3>1. card \in Surjection(several, Reunited)
      BY DEF Surjection, Reunited
    <3>2. IsFiniteSet(several)
      BY <2>2, FS_Subset
    <3> QED BY <3>1, <3>2, FS_Surjection
  <2>8. ASSUME NEW M \in Matchings
        PROVE  Cardinality(M) <= Cardinality(Reunited)
    <3>1. /\ \A x \in M : /\ x[1] \in 1..n /\ x[2] \in backs /\ x[1] < x[2]
                          /\ types[x[1]] = "INE_FRONT"
          /\ \A x, y \in M : x # y => x[1] # y[1] /\ x[2] # y[2]
      BY <2>2 DEF Matchings
    <3>2. backs \in SUBSET (1..n) /\ \A y \in Reunited : y[2] \in 1..n
      BY <2>2, <2>5
    <3>3. \A x \in M : \A u \in backs :
            u > x[1] /\ (\A y \in Reunited : y[2] # u) =>
              \E y \in Reunited : y[1] = x[1] /\ y[2] < u
      BY <1>3, <2>2, <3>1 DEF Greedy
    <3> HIDE DEF backs, n
    <3> QED BY <2>2, <2>7, <3>1, <3>2, <3>3, GreedyIsMaximum
  <2> QED BY <2>6, <2>8
<1> QED BY <1>1, <1>2, <1>3, IInvHolds, PTL DEF Spec

-----------------------------------------------------------------------------
(* The documents are those of the loop as Dossier has it, cut short at the *)
(* pages gone past.                                                        *)
Iterated ==
  \A f : IsLoop(page_types, Len(page_types), f) => grouped_documents = f[position]

(* The node, which stops between pages, hands over what the orchestrator   *)
(* is modelled to receive: the one value of the whole loop.                *)
HandsOverTheLoop ==
  phase = "done" => grouped_documents = group_pages_into_logical_docs(page_types)

(* The clustering node and the clustering step of the dossier engine agree *)
(* on every file: the two models of _group_pages_into_logical_docs compose.*)
THEOREM HandsOverTheLoopHolds == Spec => []HandsOverTheLoop
<1>1. Init => Iterated
  BY DEF Init, Iterated, IsLoop
<1>2. ASSUME IInv, Iterated, [Next]_vars
      PROVE  Iterated'
  <2> SUFFICES ASSUME NEW f, IsLoop(page_types', Len(page_types'), f)
               PROVE  grouped_documents' = f[position']
    BY DEF Iterated
  <2>1. /\ position \in Nat /\ Len(page_types) \in Nat /\ position <= Len(page_types)
        /\ page_types \in Seq(PageTypes)
    BY <1>2 DEF IInv, TypeOK
  <2>2. CASE group_page
    <3>1. /\ page_types' = page_types /\ position' = position + 1
          /\ grouped_documents' = GroupPage(page_types, grouped_documents, position + 1)
      BY <2>2 DEF group_page
    <3>2. position + 1 \in DOMAIN page_types
      BY <1>2, <2>2, GroupPageStep
    <3>3. /\ position + 1 \in 0..Len(page_types) /\ position + 1 # 0
          /\ (position + 1) - 1 = position
      BY <2>1, <3>2
    <3>4. f[position + 1] = GroupPage(page_types, f[position], position + 1)
      BY <3>1, <3>3 DEF IsLoop
    <3>5. grouped_documents = f[position]
      BY <1>2, <3>1 DEF Iterated
    <3> QED BY <3>1, <3>4, <3>5
  <2>3. CASE nothing_to_render \/ render_pages \/ node_raises \/ UNCHANGED vars
    BY <1>2, <2>3 DEF nothing_to_render, render_pages, node_raises, vars, Iterated
  <2>4. ASSUME NEW type \in PageTypes, phase = "classify", Classified(type)
        PROVE  grouped_documents' = f[position']
    <3>1. position = 0 /\ position' = 0 /\ UNCHANGED grouped_documents
      BY <1>2, <2>4 DEF IInv, Progress, Classified
    <3>2. PICK g : IsLoop(page_types, Len(page_types), g)
      BY <2>1, LoopExists
    <3>3. grouped_documents = << >>
      <4>1. g[0] = << >>
        BY <2>1, <3>2 DEF IsLoop
      <4>2. grouped_documents = g[position]
        BY <1>2, <3>2, Zenon DEF Iterated
      <4> QED BY <3>1, <4>1, <4>2, Zenon
    <3>4. page_types' \in Seq(PageTypes) /\ Len(page_types') \in Nat
      BY <2>1, <2>4 DEF Classified
    <3>5. f[0] = << >>
      BY <2>4, <3>4 DEF IsLoop
    <3> QED BY <3>1, <3>3, <3>5
  <2>5. CASE classify_page \/ classify_page_fails
    <3>1. "UNKNOWN" \in PageTypes
      BY DEF PageTypes, PageType
    <3> QED BY <2>4, <2>5, <3>1, NormalizedTypes, ClusteringAssumption
            DEF classify_page, classify_page_fails
  <2> QED BY <1>2, <2>2, <2>3, <2>5 DEF Next
<1>3. IInv /\ Iterated => HandsOverTheLoop
  <2> SUFFICES ASSUME IInv, Iterated, phase = "done"
               PROVE  grouped_documents = group_pages_into_logical_docs(page_types)
    BY DEF HandsOverTheLoop
  <2> DEFINE f == CHOOSE g : IsLoop(page_types, Len(page_types), g)
  <2>1. Len(page_types) \in Nat
    BY DEF IInv, TypeOK
  <2>2. IsLoop(page_types, Len(page_types), f)
    BY <2>1, LoopExists
  <2>3. group_pages_into_logical_docs(page_types) = f[Len(page_types)]
    BY DEF group_pages_into_logical_docs, IsLoop
  <2> HIDE DEF f
  <2>4. grouped_documents = f[position]
    BY <2>2 DEF Iterated
  <2>5. position = Len(page_types)
    BY <2>1 DEF IInv, TypeOK, Progress
  <2> QED BY <2>3, <2>4, <2>5
<1> QED BY <1>1, <1>2, <1>3, IInvHolds, PTL DEF Spec
=============================================================================
