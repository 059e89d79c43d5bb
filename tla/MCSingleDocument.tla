--------------------------- MODULE MCSingleDocument ---------------------------
(* The single document workflow over the example invoice.                  *)
EXTENDS SingleDocument, MCInvoice

(* Approvals and refusals, with no, useful, raw and schema-breaking        *)
(* corrections.                                                            *)
MCDecisions ==
  {[approved |-> TRUE, corrections |-> << >>],
   [approved |-> FALSE, corrections |-> [f \in {"subtotal"} |-> "1"]],
   [approved |-> TRUE, corrections |-> [f \in {"total_amount"} |-> "1.0"]],
   [approved |-> TRUE, corrections |-> [f \in MCFields |-> "1"]],
   [approved |-> TRUE, corrections |-> [f \in {"line_items"} |-> "text"]]}
=============================================================================
