------------------------------ MODULE PageMerge ------------------------------
(***************************************************************************)
(* From the pages of one logical document to the fields of its schema and  *)
(* back to a page: extract_pages of the two branches (the page by page     *)
(* default of src/ports/extractor_port.py, the single call of              *)
(* native_vlm.py), DocumentSchema.from_extraction, page_by_field, and the  *)
(* page vlm_retry crops.                                                   *)
(*                                                                         *)
(* What a value says is left out; where it was read is what the module is  *)
(* about.  A provider entry names a provider field, the page its value was *)
(* read on (0: the value is empty) and the page it was located on (0: no   *)
(* box, or a degenerate one), and the page its box is tagged with.  Pages  *)
(* are numbered from 1, so the default page_index 0 of the code is 1 here. *)
(***************************************************************************)
EXTENDS ProviderResponses, FiniteSets

CONSTANTS
  Names,       (* provider field names                                     *)
  Fields,      (* canonical field names                                    *)
  Unmapped,    (* not a canonical field                                    *)
  AliasLookup, (* alias_lookup of the schema                               *)
  MaxPages     (* bound: pages of a logical document                       *)

(* ExtractedField: what an adapter makes of one mention of a field.        *)
Mention == [name: Names, printed: BOOLEAN, located: BOOLEAN]

(* A canonical field is a name of its own in alias_lookup.                 *)
ASSUME PageMergeAssumption ==
  /\ Unmapped \notin Fields
  /\ AliasLookup \in [Names -> Fields \cup {Unmapped}]
  /\ \A n \in Names \cap Fields : AliasLookup[n] # Unmapped
  /\ \A r \in Responses : Mentions(r) \in Seq(Mention)
  /\ MaxPages \in Nat \ {0}

VARIABLES
  phase,      (* "extract", "map", "retry", or how the document failed     *)
  branch,
  page_count,
  page,       (* next page extract_document is called on                   *)
  fields,     (* the entries of the ExtractionResult, in dictionary order  *)
  failures,   (* pages whose extraction failed                             *)
  seen,       (* history: what the providers read first, on each page      *)
  data,       (* canonical field -> the entry its value comes from         *)
  boxes,      (* bounding_boxes: canonical field -> the entry of its box   *)
  box_pages,  (* bounding_box_pages: canonical field -> tagged page        *)
  crops       (* history: canonical field -> page a located re-read used   *)

vars == <<phase, branch, page_count, page, fields, failures, seen, data,
          boxes, box_pages, crops>>

Page  == 1..MaxPages
Entry == [name: Names, value: Page \cup {0}, box: Page \cup {0},
          tag: Page \cup {0}]

TypeOK ==
  /\ phase \in {"extract", "map", "retry", "failed", "refused"}
  /\ branch \in {"doc_intel", "vlm_grounding"}
  /\ page_count \in Page
  /\ page \in 1..(page_count + 1)
  /\ fields \in Seq(Entry)
  /\ failures \subseteq Page
  /\ seen \subseteq Entry
  /\ DOMAIN data \subseteq Fields /\ \A f \in DOMAIN data : data[f] \in Entry
  /\ DOMAIN boxes \subseteq Fields /\ \A f \in DOMAIN boxes : boxes[f] \in Entry
  /\ DOMAIN box_pages \subseteq Fields \cup Names
  /\ \A f \in DOMAIN box_pages : box_pages[f] \in Page
  /\ DOMAIN crops \subseteq Fields /\ \A f \in DOMAIN crops : crops[f] \in Page

Init ==
  /\ phase = "extract"
  /\ branch \in {"doc_intel", "vlm_grounding"}
  /\ page_count \in Page
  /\ page = 1
  /\ fields = << >>
  /\ failures = {}
  /\ seen = {}
  /\ data = << >>
  /\ boxes = << >>
  /\ box_pages = << >>
  /\ crops = << >>

(* located: an entry and its box belong to the page they were read on.     *)
OnPage(p, entry) ==
  [name  |-> entry.name,
   value |-> IF entry.printed THEN p ELSE 0,
   box   |-> IF entry.located THEN p ELSE 0,
   tag   |-> IF entry.located THEN p ELSE 0]

(* The single call: one JSON object, so each name once and in any order.   *)
(* _to_bounding_box builds every box on the first page.                    *)
CallEntries == {e \in Entry : /\ {e.value, e.box} \subseteq 0..page_count
                              /\ e.tag = IF e.box = 0 THEN 0 ELSE 1}

CallReadings ==
  {r \in UNION {[1..n -> CallEntries] : n \in 0..Cardinality(Names)} :
     \A i, j \in DOMAIN r : i # j => r[i].name # r[j].name}

(* Seeded fault: the last page to name a field wins.                       *)
last_reading_wins(merged, entry) ==
  IF \E i \in DOMAIN merged : merged[i].name = entry.name
  THEN [i \in DOMAIN merged |->
          IF merged[i].name = entry.name THEN entry ELSE merged[i]]
  ELSE Append(merged, entry)

(***************************************************************************)
(* merged_fields: an entry keeps its place in the dictionary and is        *)
(* replaced, box included, as long as its value is empty.                  *)
(***************************************************************************)
MergedEntry(merged, entry) ==
  IF \E i \in DOMAIN merged : merged[i].name = entry.name
  THEN [i \in DOMAIN merged |->
          IF merged[i].name = entry.name /\ merged[i].value = 0
          THEN entry ELSE merged[i]]
  ELSE Append(merged, entry)

(* The fields of one page, merged into those of the pages before it.       *)
MergedPage(merged, p, entries) ==
  FoldLeft(LAMBDA before, e : MergedEntry(before, OnPage(p, e)), merged, entries)

NothingExtracted(merged, failed) == merged = << >> /\ failed # {}

PageDone ==
  /\ page' = page + 1
  /\ phase' = IF page < page_count THEN "extract"
              ELSE IF NothingExtracted(fields', failures') THEN "failed"
              ELSE "map"
  /\ UNCHANGED <<branch, page_count, data, boxes, box_pages, crops>>

extract_document ==
  /\ phase = "extract" /\ branch = "doc_intel"
  /\ \E reading \in Readings :
       /\ fields' = MergedPage(fields, page, reading.fields)
       /\ seen' = seen \cup {OnPage(page, e) : e \in reading.first}
  /\ UNCHANGED failures
  /\ PageDone

extract_document_fails ==
  /\ phase = "extract" /\ branch = "doc_intel"
  /\ failures' = failures \cup {page}
  /\ UNCHANGED <<fields, seen>>
  /\ PageDone

(* Grounding reads every page in one call, and fails as a whole.           *)
analyze_document_pages ==
  /\ phase = "extract" /\ branch = "vlm_grounding"
  /\ \/ /\ \E reading \in CallReadings :
             fields' = reading /\ seen' = Range(reading)
        /\ phase' = "map"
        /\ UNCHANGED failures
     \/ /\ failures' = 1..page_count
        /\ phase' = "failed"
        /\ UNCHANGED <<fields, seen>>
  /\ page' = page_count + 1
  /\ UNCHANGED <<branch, page_count, data, boxes, box_pages, crops>>

-----------------------------------------------------------------------------
Positions(f) == {i \in DOMAIN fields : AliasLookup[fields[i].name] = f}

FirstOf(S) == CHOOSE i \in S : \A j \in S : i <= j

(* Seeded fault: the first alias wins, even when its value is empty.       *)
first_alias(f) == FirstOf(Positions(f))

(* The value kept for a canonical field: the first that is not empty, else *)
(* the last empty one.                                                     *)
ValuePosition(f) ==
  LET filled == {i \in Positions(f) : fields[i].value # 0}
  IN  IF filled # {} THEN FirstOf(filled)
      ELSE CHOOSE i \in Positions(f) : \A j \in Positions(f) : j <= i

Located(f) == {i \in Positions(f) : fields[i].box # 0}

(* Seeded fault: the page is taken from the value, not from the box.       *)
page_of_the_value(f) ==
  LET p == fields[ValuePosition(f)].value IN IF p = 0 THEN 1 ELSE p

(* Seeded fault: the first alias gives the page, box or no box.            *)
page_of_the_first_alias(f) == fields[FirstOf(Positions(f))].tag

PageByField(f) == fields[FirstOf(Located(f))].tag

(***************************************************************************)
(* from_extraction and page_by_field.  The latter also records fields the  *)
(* schema does not know, under their provider name.                        *)
(***************************************************************************)
from_extraction ==
  /\ phase = "map"
  /\ data' = [f \in {g \in Fields : Positions(g) # {}} |-> fields[ValuePosition(f)]]
  /\ boxes' = [f \in {g \in Fields : Located(g) # {}} |-> fields[FirstOf(Located(f))]]
  /\ box_pages' =
       [k \in {f \in Fields : Located(f) # {}}
              \cup {fields[i].name : i \in Located(Unmapped)} |->
          IF k \in Fields THEN PageByField(k)
          ELSE fields[FirstOf({i \in Located(Unmapped) : fields[i].name = k})].tag]
  /\ phase' = "retry"
  /\ UNCHANGED <<branch, page_count, page, fields, failures, seen, crops>>

(* A payload the schema refuses fails the worker.                          *)
from_extraction_fails ==
  /\ phase = "map"
  /\ phase' = "refused"
  /\ UNCHANGED <<branch, page_count, page, fields, failures, seen, data,
                 boxes, box_pages, crops>>

(***************************************************************************)
(* vlm_retry on a field that failed validation: the crop is cut out of the *)
(* page recorded for the field; _page_at falls back to the first one.      *)
(***************************************************************************)
PageAt(p) == IF p \in 1..page_count THEN p ELSE 1

vlm_retry(f) ==
  /\ phase = "retry"
  /\ f \in DOMAIN boxes
  /\ f \notin DOMAIN crops
  /\ crops' = [g \in DOMAIN crops \cup {f} |->
                 IF g = f THEN PageAt(box_pages[f]) ELSE crops[g]]
  /\ UNCHANGED <<phase, branch, page_count, page, fields, failures, seen,
                 data, boxes, box_pages>>

Next ==
  \/ extract_document
  \/ extract_document_fails
  \/ analyze_document_pages
  \/ from_extraction
  \/ from_extraction_fails
  \/ \E f \in Fields : vlm_retry(f)

Spec == Init /\ [][Next]_vars

-----------------------------------------------------------------------------
(* No reading is lost between provider and schema: a canonical field has a *)
(* value exactly if some page, under some alias, gave it one.  And first   *)
(* wins, the merge rule of an identity document: a provider field keeps    *)
(* the value of the earliest page that printed one, although earlier pages *)
(* may have named it without a value or failed altogether.  Where a page   *)
(* mentions a field several times, its reading is the first mention.       *)
EarliestReadingKept ==
  /\ phase = "retry" =>
       \A f \in Fields :
         (f \in DOMAIN data /\ data[f].value # 0)
           <=> \E e \in seen : AliasLookup[e.name] = f /\ e.value # 0
  /\ branch = "doc_intel" =>
       \A e \in seen :
         e.value # 0 =>
           \E i \in DOMAIN fields :
             /\ fields[i].name = e.name
             /\ fields[i].value \in 1..e.value

(* The crop of a template based document shows its field: box and page     *)
(* travel in two dictionaries, filled by two functions from aliases and    *)
(* pages in any order, and still belong together.                          *)
CropShowsTheBox ==
  branch = "doc_intel" =>
    \A f \in DOMAIN crops : crops[f] = boxes[f].box

-----------------------------------------------------------------------------
(* The port: every bounding box is tagged with the page it was found on so *)
(* a later ROI crop knows which raster to open.                            *)
BoxesOnTheirPage == \A f \in DOMAIN crops : crops[f] = boxes[f].box
=============================================================================
