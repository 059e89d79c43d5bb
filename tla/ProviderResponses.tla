--------------------------- MODULE ProviderResponses ---------------------------
(***************************************************************************)
(* What the document services answer about one page, and what the adapters *)
(* under src/infrastructure/adapters/extractors make of it: a service      *)
(* mentions fields, once or several times, in documents, in a graph of     *)
(* blocks, or in nested entities, and the adapter keeps one entry for each *)
(* name.                                                                   *)
(*                                                                         *)
(* An entry says what it is a reading of, whether a text was printed and   *)
(* whether there is a box around it.  The page in the services' own        *)
(* numbering is gone: a request shows them one raster.                     *)
(***************************************************************************)
EXTENDS Integers, Sequences, SequencesExt

CONSTANTS
  Nameless,   (* a mention without a type or a key                         *)
  Other,      (* the type Textract gives to what it cannot name            *)
  Responses   (* answers of the services                                   *)

-----------------------------------------------------------------------------
(* Azure Document Intelligence: the printed content, even when it is       *)
(* empty, takes precedence over the typed value; a box needs a polygon     *)
(* that is well formed, in the first region, on a page whose size is known.*)
map_field(field, sized_pages) ==
  [name    |-> field.name,
   printed |-> field.content = "text" \/ (field.content = "none" /\ field.typed),
   located |-> /\ field.regions # << >>
               /\ field.regions[1].page_number \in sized_pages
               /\ field.regions[1].polygon]

AzureMentions(response) ==
  LET fields == SelectSeq(FlattenSeq(response.documents), LAMBDA f : f.payload)
  IN [i \in DOMAIN fields |-> map_field(fields[i], response.sized_pages)]

(* Amazon Textract, identity documents and expenses: both list fields of a *)
(* type, and what has none, or none with a name, is skipped.               *)
extract_identity(response) ==
  SelectSeq(FlattenSeq(response.documents), LAMBDA e : e.name # Nameless)

extract_expense(response) ==
  SelectSeq(FlattenSeq(response.documents), LAMBDA e : e.name \notin {Nameless, Other})

(* Textract's forms: a key block points to value blocks, of which the      *)
(* first that is part of the answer counts; a key without text or without  *)
(* such a block is skipped.                                                *)
find_value_block(key, blocks) ==
  SelectSeq(key.values, LAMBDA id : id \in DOMAIN blocks)

extract_forms(response) ==
  LET keys == SelectSeq(response.keys,
                LAMBDA k : /\ k.name # Nameless
                           /\ find_value_block(k, response.blocks) # << >>)
      value(k) == response.blocks[Head(find_value_block(k, response.blocks))]
  IN [i \in DOMAIN keys |-> [name    |-> keys[i].name,
                             printed |-> value(keys[i]).printed,
                             located |-> value(keys[i]).located]]

(* Google Document AI: an entity, then its properties; of the places an    *)
(* entity is anchored at, the first one gives the box or nothing does.     *)
map_entity(entity) ==
  [name    |-> entity.name,
   printed |-> entity.printed,
   located |-> entity.page_refs # << >> /\ entity.page_refs[1].vertices]

DocumentAIMentions(response) ==
  LET entities == FlattenSeq([i \in DOMAIN response.entities |->
                    <<response.entities[i]>> \o response.entities[i].properties])
      named    == SelectSeq(entities, LAMBDA e : e.name # Nameless)
  IN [i \in DOMAIN named |-> map_entity(named[i])]

Mentions(response) ==
  CASE response.api = "document_intelligence" -> AzureMentions(response)
    [] response.api = "analyze_id"            -> extract_identity(response)
    [] response.api = "analyze_expense"       -> extract_expense(response)
    [] response.api = "analyze_document"      -> extract_forms(response)
    [] response.api = "document_ai"           -> DocumentAIMentions(response)

-----------------------------------------------------------------------------
(* Seeded fault: a later mention replaces an earlier one.                  *)
assigned(fields, entry) ==
  SelectSeq(fields, LAMBDA e : e.name # entry.name) \o <<entry>>

(* fields.setdefault: the first mention of a name stays, printed or not.   *)
setdefault(fields, entry) ==
  IF \E i \in DOMAIN fields : fields[i].name = entry.name
  THEN fields
  ELSE Append(fields, entry)

(* fields of the ExtractionResult of one page.                             *)
ExtractionFields(response) == FoldLeft(setdefault, << >>, Mentions(response))

(* Mentions with no earlier mention of their name.                         *)
FirstMentions(response) ==
  LET mentions == Mentions(response)
  IN {mentions[i] : i \in {k \in DOMAIN mentions :
                             \A j \in 1..(k - 1) : mentions[j].name # mentions[k].name}}

(* What a call can lead to.                                                *)
Readings == {[fields |-> ExtractionFields(r), first |-> FirstMentions(r)] : r \in Responses}
=============================================================================
