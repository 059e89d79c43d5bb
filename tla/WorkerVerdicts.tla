--------------------------- MODULE WorkerVerdicts ---------------------------
(***************************************************************************)
(* The final worker states a caller of the worker subgraph has to expect:  *)
(* what document_worker_node reads of DocumentWorkerState, with the fields *)
(* that carry a value standing for extracted_data.                         *)
(***************************************************************************)
CONSTANT Fields

Verdict == [status     : {"VALIDATED", "REQUIRES_MANUAL_ENTRY", "FAILED"},
            filled     : SUBSET Fields,
            unresolved : SUBSET Fields]

(* The promise: a validated document leaves nothing open, a manual entry   *)
(* names at least one field, a failed extraction returns no data.          *)
Verdicts ==
  {v \in Verdict :
     /\ v.status = "VALIDATED" => v.unresolved = {}
     /\ v.status = "REQUIRES_MANUAL_ENTRY" => v.unresolved # {}
     /\ v.status = "FAILED" => v.filled = {} /\ v.unresolved = {}}

(* An invocation that has not returned, and one that raised.               *)
NoVerdict == [status |-> "RUNNING", filled |-> {}, unresolved |-> {}]
Raised    == [status |-> "RAISED", filled |-> {}, unresolved |-> {}]
=============================================================================
