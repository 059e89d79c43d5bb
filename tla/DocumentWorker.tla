---------------------------- MODULE DocumentWorker ----------------------------
(***************************************************************************)
(* The headless worker subgraph of the dossier engine                      *)
(* (src/graph/worker_graph.py and its nodes): one logical document, read   *)
(* by the branch its type is routed to, repaired field by field, and       *)
(* handed over with an explicit list of what no pass could settle.  It has *)
(* no checkpointer and no human: an invocation runs to its end, or to an   *)
(* exception no node catches.                                              *)
(***************************************************************************)
EXTENDS FieldRetry

VARIABLES
  node,                 (* next node, "END", or "RAISED"                    *)
  extraction_strategy,
  status,
  extracted_data,
  failed_fields,        (* also the domain of validation_errors             *)
  flagged_fields,
  retry_count,
  unresolved_fields,    (* UnresolvedFieldDetail: field and error reason    *)
  errors

vars == <<node, extraction_strategy, status, extracted_data, failed_fields,
          flagged_fields, retry_count, unresolved_fields, errors>>

Nodes      == {"router", "doc_intel", "vlm_grounding", "worker_validation",
               "vlm_retry", "unresolved_handler"}
Strategies == {"DOC_INTELLIGENCE", "VLM_GROUNDING"}
Statuses   == {"PROCESSING", "VALIDATED", "REQUIRES_MANUAL_ENTRY", "FAILED"}

(* The reason is the tool's own message, or the handler's default.         *)
Detail == [field: Fields, reason: {"tool", "default"}]

TypeOK ==
  /\ node \in Nodes \cup {"END", "RAISED"}
  /\ extraction_strategy \in Strategies \cup {"none"}
  /\ status \in Statuses
  /\ extracted_data \in Data
  /\ failed_fields \subseteq Fields
  /\ flagged_fields \subseteq Fields
  /\ retry_count \in Nat
  /\ unresolved_fields \subseteq Detail
  /\ errors \subseteq {"extraction"} \cup Fields

initial_worker_state ==
  /\ extraction_strategy = "none"
  /\ status = "PROCESSING"
  /\ extracted_data = NoData
  /\ failed_fields = {}
  /\ flagged_fields = {}
  /\ retry_count = 0
  /\ unresolved_fields = {}
  /\ errors = {}

Init ==
  /\ node = "router"
  /\ initial_worker_state

(***************************************************************************)
(* router: policy.strategy_for knows every document type or falls back, so *)
(* one of the two strategies is always recorded.                           *)
(***************************************************************************)
route_after_router(strategy) ==
  IF strategy = "DOC_INTELLIGENCE" THEN "doc_intel" ELSE "vlm_grounding"

router_node ==
  /\ node = "router"
  /\ extraction_strategy' \in Strategies
  /\ node' = route_after_router(extraction_strategy')
  /\ status' = "PROCESSING"
  /\ UNCHANGED <<extracted_data, failed_fields, flagged_fields, retry_count,
                 unresolved_fields, errors>>

(***************************************************************************)
(* doc_intel and vlm_grounding: the same node over two adapters.  What the *)
(* adapter reads, page by page, is any document the schema accepts.        *)
(***************************************************************************)
route_after_extraction(outcome) ==
  IF outcome = "FAILED" THEN "END" ELSE "worker_validation"

extraction_node(branch) ==
  /\ node = branch
  /\ \/ /\ status' = "FAILED"
        /\ errors' = errors \cup {"extraction"}
        /\ UNCHANGED extracted_data
     \/ \E reading \in Fitting :
          /\ extracted_data' = Canonical[reading]
          /\ status' = "PROCESSING"
          /\ UNCHANGED errors
  /\ node' = route_after_extraction(status')
  /\ UNCHANGED <<extraction_strategy, failed_fields, flagged_fields,
                 retry_count, unresolved_fields>>

(* Seeded fault: a run with nothing retryable ends without the handler.    *)
route_to_end(outcome, failed, flagged, count) ==
  IF outcome = "VALIDATED" \/ Retryable(failed, flagged) = {} THEN "END"
  ELSE IF count <= MaxRetries THEN "vlm_retry"
  ELSE "unresolved_handler"

(* Seeded fault: the budget is compared after one pass too many.           *)
route_off_by_one(outcome, failed, flagged, count) ==
  IF outcome = "VALIDATED" THEN "END"
  ELSE IF Retryable(failed, flagged) = {} THEN "unresolved_handler"
  ELSE IF count <= MaxRetries + 1 THEN "vlm_retry"
  ELSE "unresolved_handler"

route_after_worker_validation(outcome, failed, flagged, count) ==
  IF outcome = "VALIDATED" THEN "END"
  ELSE IF Retryable(failed, flagged) = {} THEN "unresolved_handler"
  ELSE IF count <= MaxRetries THEN "vlm_retry"
  ELSE "unresolved_handler"

(* Seeded fault: the failure is not counted.                               *)
failure_not_counted(count) == count

failure_counted(count) == count + 1

worker_validation_node ==
  /\ node = "worker_validation"
  /\ failed_fields' = validate_document(extracted_data)
  /\ IF failed_fields' = {}
     THEN status' = "VALIDATED" /\ UNCHANGED retry_count
     ELSE status' = "PROCESSING" /\ retry_count' = failure_counted(retry_count)
  /\ node' = route_after_worker_validation(status', failed_fields',
                                           flagged_fields, retry_count')
  /\ UNCHANGED <<extraction_strategy, extracted_data, flagged_fields,
                 unresolved_fields, errors>>

Targets == Retryable(failed_fields, flagged_fields)

vlm_retry_node ==
  /\ node = "vlm_retry"
  /\ \E answers \in [Targets -> Answers] :
       /\ extracted_data' = Repaired(extracted_data, Repairs(answers))
       /\ flagged_fields' =
            flagged_fields \cup {f \in Targets : answers[f] = Unreadable}
       /\ errors' = errors \cup {f \in Targets : answers[f] = ReadError}
  /\ status' = "PROCESSING"
  /\ node' = "worker_validation"
  /\ UNCHANGED <<extraction_strategy, failed_fields, retry_count,
                 unresolved_fields>>

(* Seeded fault: only the flagged fields are handed over.                  *)
unresolved_are_the_flagged(failed, flagged) == flagged

Unresolved(failed, flagged) == flagged \cup failed

unresolved_handler_node ==
  /\ node = "unresolved_handler"
  /\ unresolved_fields' =
       {[field |-> f, reason |-> IF f \in failed_fields THEN "tool" ELSE "default"] :
          f \in Unresolved(failed_fields, flagged_fields)}
  /\ flagged_fields' = Unresolved(failed_fields, flagged_fields)
  /\ status' = "REQUIRES_MANUAL_ENTRY"
  /\ node' = "END"
  /\ UNCHANGED <<extraction_strategy, extracted_data, failed_fields,
                 retry_count, errors>>

(* An adapter raised something no node catches; invoke propagates it.      *)
adapter_raises ==
  /\ node \in {"doc_intel", "vlm_grounding", "vlm_retry"}
  /\ node' = "RAISED"
  /\ UNCHANGED <<extraction_strategy, status, extracted_data, failed_fields,
                 flagged_fields, retry_count, unresolved_fields, errors>>

Ended == node \in {"END", "RAISED"}

worker_graph ==
  \/ router_node
  \/ extraction_node("doc_intel")
  \/ extraction_node("vlm_grounding")
  \/ worker_validation_node
  \/ vlm_retry_node
  \/ unresolved_handler_node
  \/ adapter_raises

Next == worker_graph

Spec == Init /\ [][Next]_vars

(* The invocation is a synchronous call of the orchestrator's node.        *)
FairSpec == Spec /\ WF_vars(Next)

-----------------------------------------------------------------------------
(* The subgraph ends with a verdict a caller can act on, and the verdict   *)
(* is the tools' own: VALIDATED leaves nothing failing or unresolved,      *)
(* REQUIRES_MANUAL_ENTRY always names at least one failing field, FAILED   *)
(* comes with the error and without data.                                  *)
VerdictHonest ==
  node = "END" =>
    \/ /\ status = "VALIDATED"
       /\ validate_document(extracted_data) = {}
       /\ unresolved_fields = {}
    \/ /\ status = "REQUIRES_MANUAL_ENTRY"
       /\ validate_document(extracted_data) # {}
    \/ /\ status = "FAILED"
       /\ errors # {}
       /\ extracted_data = NoData

(* Nothing that fails is lost on the way to the operator: every field a    *)
(* tool still rejects is in the hand-over with the tool's reason, and      *)
(* every field the VLM could not read is in it too.                        *)
HandOverComplete ==
  status = "REQUIRES_MANUAL_ENTRY" =>
    /\ \A f \in validate_document(extracted_data) :
         [field |-> f, reason |-> "tool"] \in unresolved_fields
    /\ flagged_fields = {u.field : u \in unresolved_fields}

(* The headless promise the dossier is built on: whatever the adapters     *)
(* answer, the subgraph returns exactly one verdict, of the form           *)
(* document_worker_node translates, or raises.                             *)
FilledFields == {f \in Fields : extracted_data[f] # Blank}

Verdicts == INSTANCE WorkerVerdicts

Outcome ==
  CASE node = "RAISED" -> Verdicts!Raised
    [] node = "END"    -> [status     |-> status,
                           filled     |-> FilledFields,
                           unresolved |-> {u.field : u \in unresolved_fields}]
    [] OTHER           -> Verdicts!NoVerdict

Contract == INSTANCE WorkerContract WITH verdict <- Outcome

KeepsContract == Contract!Spec

-----------------------------------------------------------------------------
(* The worker is the same repair loop, with a router and a comparison of   *)
(* its own and with a hand-over that corrects nothing: a document is       *)
(* re-read only while a pass of the budget is left and only where a tool   *)
(* objects and no flag forbids it, and it is handed over only when one of  *)
(* these is missing.                                                       *)
Stage ==
  CASE node = "worker_validation"  -> "checking"
    [] node = "vlm_retry"          -> "repairing"
    [] node = "unresolved_handler" -> "handing over"
    [] Ended                       -> "over"
    [] OTHER                       -> "reading"

PassesLeft ==
  CASE Stage \in {"reading", "checking"} -> MaxRetries - retry_count
    [] Stage = "repairing"               -> MaxRetries + 1 - retry_count
    [] OTHER                             -> 0

Loop == INSTANCE RepairLoop WITH
  stage <- Stage, data <- extracted_data, failed <- failed_fields,
  flagged <- flagged_fields, budget <- PassesLeft

RepairsInLoop == Loop!Spec
=============================================================================
