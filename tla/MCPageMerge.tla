----------------------------- MODULE MCPageMerge -----------------------------
(***************************************************************************)
(* A card whose full name comes under two provider names, next to a field  *)
(* the schema does not know, and small answers of every service about one  *)
(* page of it, in which names repeat, are missing, or come without a text  *)
(* or a usable box.                                                        *)
(***************************************************************************)
EXTENDS PageMerge, TLC

MCAliasLookup == [n \in {"FullName", "full_name", "Logo"} |->
                    IF n = "Logo" THEN Unmapped ELSE "full_name"]

Two(S) == BoundedSeq(S, 2)

Region(polygon) == [page_number |-> 1, polygon |-> polygon]

AzurePayloads ==
  {[payload |-> FALSE, content |-> "none", typed |-> FALSE, regions |-> << >>],
   [payload |-> TRUE, content |-> "text", typed |-> FALSE, regions |-> <<Region(TRUE)>>],
   [payload |-> TRUE, content |-> "empty", typed |-> TRUE, regions |-> <<Region(TRUE)>>],
   [payload |-> TRUE, content |-> "none", typed |-> TRUE,
    regions |-> <<Region(FALSE), Region(TRUE)>>]}

AzureDocument(names, payloads) ==
  [i \in DOMAIN names |-> payloads[i] @@ [name |-> names[i]]]

(* One document with two fields, or two with one.                          *)
Azure ==
  {[api |-> "document_intelligence", sized_pages |-> sized, documents |-> documents] :
     sized \in {{}, {1}},
     documents \in
       {<<AzureDocument(names, payloads)>> :
          names \in {n \in [1..2 -> Names] : n[1] # n[2]},
          payloads \in [1..2 -> AzurePayloads]} \cup
       {[i \in DOMAIN names |-> AzureDocument(<<names[i]>>, <<payloads[i]>>)] :
          names \in Two(Names), payloads \in [1..2 -> AzurePayloads]}}

Detections(types) == [name: types, printed: BOOLEAN, located: BOOLEAN]

Textract ==
  {[api |-> "analyze_id", documents |-> <<d, << >> >>] :
     d \in Two(Detections(Names \cup {Nameless}))} \cup
  {[api |-> "analyze_expense", documents |-> [i \in DOMAIN d |-> <<d[i]>>]] :
     d \in Two(Detections(Names \cup {Nameless, Other}))}

Forms ==
  {[api |-> "analyze_document", keys |-> keys,
    blocks |-> [id \in {1, 2} |-> [printed |-> id = 1, located |-> id = 1]]] :
     keys \in Two([name: Names \cup {Nameless}, values: {<< >>, <<1>>, <<2, 1>>, <<3, 1>>}])}

Entities ==
  {[name |-> Nameless, printed |-> TRUE, page_refs |-> << >>]} \cup
  [name: Names, printed: BOOLEAN,
   page_refs: {<<[vertices |-> TRUE]>>, <<[vertices |-> FALSE], [vertices |-> TRUE]>>}]

(* Two entities, the first of which may have a property.                   *)
DocumentAI ==
  {[api |-> "document_ai",
    entities |-> [i \in DOMAIN entities |->
                    entities[i] @@ [properties |-> IF i = 1 THEN properties ELSE << >>]]] :
     entities \in Two(Entities), properties \in BoundedSeq(Entities, 1)}

MCResponses == Azure \cup Textract \cup Forms \cup DocumentAI
=============================================================================
