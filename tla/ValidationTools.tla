--------------------------- MODULE ValidationTools ---------------------------
(***************************************************************************)
(* The validation tools and the schema renormalisation every workflow      *)
(* shares (src/domain/validation_tools.py, src/graph/nodes/_shared.py).    *)
(*                                                                         *)
(* A document is a total function from the fields of its schema to values; *)
(* a field the provider did not return, a null and an empty string are all *)
(* Blank, because FieldRule.evaluate treats them alike.  What a rule       *)
(* computes is data: the registry of a document type is a set of field     *)
(* rules and a set of business rules, each business rule with the          *)
(* documents it rejects and the one field it holds responsible.            *)
(***************************************************************************)
CONSTANTS
  Fields,         (* canonical field names of the schema                   *)
  Values,         (* readings of a field, in any form a source prints them *)
  Blank,          (* the missing or empty reading                          *)
  FieldRules,     (* the FieldRule tuple registered for the document type  *)
  DocumentRules,  (* the DocumentRule tuple registered for it              *)
  Fitting,        (* documents the Pydantic schema accepts                 *)
  Canonical       (* what the schema validators turn a fitting one into    *)

Data == [Fields -> Values]

NoData == [f \in Fields |-> Blank]

(* Running the validators on their own output changes nothing; the texts    *)
(* known to do otherwise are amounts below a millionth, zero included, that *)
(* are stored in scientific notation (1E-7, 0E-7) and read as no amount.    *)
ASSUME ToolsAssumption ==
  /\ Blank \in Values
  /\ FieldRules \subseteq [field: Fields, accepts: SUBSET Values,
                           required: BOOLEAN]
  /\ DocumentRules \subseteq [rejects: SUBSET Data, blames: Fields]
  /\ Fitting \subseteq Data
  /\ Canonical \in [Fitting -> Fitting]
  /\ \A d \in Fitting : Canonical[Canonical[d]] = Canonical[d]

(***************************************************************************)
(* FieldRule.evaluate: a missing value fails a required rule and passes an *)
(* optional one; a present value must match the expected format.           *)
(***************************************************************************)
FieldRuleFails(rule, value) ==
  IF value = Blank THEN rule.required ELSE value \notin rule.accepts

(***************************************************************************)
(* validate_document, as the set of keys of the error dictionary.  The     *)
(* setdefault of the code only decides which message a field keeps.        *)
(***************************************************************************)
validate_document(data) ==
  {r.field : r \in {rule \in FieldRules :
                      FieldRuleFails(rule, data[rule.field])}}
  \cup {r.blames : r \in {rule \in DocumentRules : data \in rule.rejects}}

(***************************************************************************)
(* renormalize: push a patched document back through the schema; one the   *)
(* schema refuses is kept as it is.                                        *)
(***************************************************************************)
renormalize(data) == IF data \in Fitting THEN Canonical[data] ELSE data

(* The raw readings `patch` written over the document.                     *)
Patched(data, patch) ==
  [f \in Fields |-> IF f \in DOMAIN patch THEN patch[f] ELSE data[f]]

(* The fields the tools name in an error: those with a rule of their own,  *)
(* and those a business rule holds responsible.                            *)
ToolFields == {r.field : r \in FieldRules} \cup {r.blames : r \in DocumentRules}

(* The validators of a schema look at one field each (field_validator), and*)
(* no text is refused for a field the tools name: the amounts among them   *)
(* collapse to null, the others are text.                                  *)
ASSUME SchemaAssumption ==
  /\ \A f \in Fields : \A d, e \in Fitting :
       d[f] = e[f] => Canonical[d][f] = Canonical[e][f]
  /\ \A d \in Fitting : \A patch \in [ToolFields -> Values] :
       Patched(d, patch) \in Fitting
=============================================================================
