------------------------------ MODULE MCInvoice ------------------------------
(***************************************************************************)
(* An invoice of three fields, the document the runs work on.  An amount   *)
(* is printed as a price or, not canonically, as "1.0"; text no parser     *)
(* reads as an amount collapses to null.  Line items that are not a        *)
(* structured list make the schema refuse the document.  The business      *)
(* rules chain as in the code: the line items blame the subtotal, the      *)
(* subtotal blames the total, so repairing one field can make another one  *)
(* fail or pass.                                                           *)
(***************************************************************************)
CONSTANT Prices   (* canonical amounts, "1" among them *)

MCFields == {"line_items", "subtotal", "total_amount"}
MCValues == Prices \cup {"", "1.0", "text"}
MCData   == [MCFields -> MCValues]
Amounts  == {"subtotal", "total_amount"}

ParseAmount(v) ==
  CASE v = "1.0" -> "1" [] v = "text" -> "" [] OTHER -> v

MCFitting == {d \in MCData : d["line_items"] \in Prices \cup {""}}

MCCanonical ==
  [d \in MCFitting |->
    [f \in MCFields |-> IF f \in Amounts THEN ParseAmount(d[f]) ELSE d[f]]]

MCFieldRules ==
  {[field |-> f, accepts |-> Prices \cup {"1.0"}, required |-> TRUE] :
     f \in Amounts}

Unequal(f, g) ==
  {d \in MCData : /\ "" \notin {ParseAmount(d[f]), ParseAmount(d[g])}
                  /\ ParseAmount(d[f]) # ParseAmount(d[g])}

MCDocumentRules ==
  {[rejects |-> Unequal("subtotal", "total_amount"), blames |-> "total_amount"],
   [rejects |-> Unequal("line_items", "subtotal"), blames |-> "subtotal"]}
=============================================================================
