------------------------- MODULE DocumentWorkerProofs -------------------------
(***************************************************************************)
(* The safety of the dossier worker, for every schema, registry of rules   *)
(* and retry budget: its types, its verdict, its hand-over, and that it    *)
(* implements the repair loop and the contract with the orchestrator.      *)
(*                                                                         *)
(* The inductive invariant says, node by node, what the nodes before it    *)
(* have established; it has no part that only one property needs.          *)
(***************************************************************************)
EXTENDS DocumentWorker, TLAPS

(* The tools name fields, and the schema returns documents.                *)
LEMMA ToolTypes ==
  ASSUME NEW d \in Data
  PROVE  /\ validate_document(d) \subseteq Fields
         /\ renormalize(d) \in Data
         /\ d \in Fitting => Canonical[d] \in Fitting
<1>1. validate_document(d) \subseteq Fields
  BY ToolsAssumption DEF validate_document
<1>2. renormalize(d) \in Data
  BY ToolsAssumption DEF renormalize
<1> QED BY <1>1, <1>2, ToolsAssumption

(* The empty document is a document.                                       *)
LEMMA NoDataTyped == NoData \in Data
<1>1. Blank \in Values
  BY ToolsAssumption
<1> QED BY <1>1 DEF NoData, Data

(* Patching a document with readings gives a document.                     *)
LEMMA PatchedTypes ==
  ASSUME NEW d \in Data, NEW S \in SUBSET Fields, NEW patch \in [S -> Values]
  PROVE  Patched(d, patch) \in Data
BY DEF Patched, Data

(* What a retry pass writes is a document again.                           *)
LEMMA RepairedTypes ==
  ASSUME NEW d \in Data, NEW T \in SUBSET Fields,
         NEW answers \in [T -> Answers]
  PROVE  Repaired(d, Repairs(answers)) \in Data
<1> DEFINE R == {g \in T : answers[g] \in Values}
<1>1. Repairs(answers) \in [R -> Values]
  BY DEF Repairs
<1>2. R \in SUBSET Fields
  OBVIOUS
<1>3. Patched(d, Repairs(answers)) \in Data
  BY <1>1, <1>2, PatchedTypes
<1> QED BY <1>3, ToolTypes DEF Repaired

(* Every variable stays in its type.                                       *)
THEOREM TypeCorrect == Spec => []TypeOK
<1>1. Init => TypeOK
  BY NoDataTyped DEF Init, initial_worker_state, TypeOK, Nodes, Statuses
<1>2. TypeOK /\ [Next]_vars => TypeOK'
  <2> SUFFICES ASSUME TypeOK, [Next]_vars PROVE TypeOK'
    OBVIOUS
  <2>1. CASE router_node
    BY <2>1 DEF router_node, route_after_router, TypeOK, Nodes, Statuses, Strategies
  <2>2. ASSUME NEW branch \in {"doc_intel", "vlm_grounding"}, extraction_node(branch)
        PROVE  TypeOK'
    <3>1. extracted_data' \in Data
      BY <2>2, ToolsAssumption DEF extraction_node, TypeOK
    <3> QED BY <3>1, <2>2
            DEF extraction_node, route_after_extraction, TypeOK, Nodes, Statuses
  <2>3. CASE worker_validation_node
    <3>1. failed_fields' \subseteq Fields
      BY <2>3, ToolTypes DEF worker_validation_node, TypeOK
    <3>2. retry_count' \in Nat /\ status' \in Statuses
      BY <2>3 DEF worker_validation_node, failure_counted, TypeOK, Statuses
    <3>3. node' \in Nodes \cup {"END"}
      BY <2>3 DEF worker_validation_node, route_after_worker_validation, Nodes
    <3> QED BY <3>1, <3>2, <3>3, <2>3 DEF worker_validation_node, TypeOK
  <2>4. CASE vlm_retry_node
    <3>1. PICK answers \in [Targets -> Answers] :
            /\ extracted_data' = Repaired(extracted_data, Repairs(answers))
            /\ flagged_fields' =
                 flagged_fields \cup {f \in Targets : answers[f] = Unreadable}
            /\ errors' = errors \cup {f \in Targets : answers[f] = ReadError}
      BY <2>4 DEF vlm_retry_node
    <3>2. Targets \in SUBSET Fields
      BY DEF Targets, Retryable, TypeOK
    <3>3. extracted_data' \in Data
      BY <3>1, <3>2, RepairedTypes DEF TypeOK
    <3>4. flagged_fields' \subseteq Fields /\ errors' \subseteq {"extraction"} \cup Fields
      BY <3>1, <3>2 DEF TypeOK
    <3> QED BY <3>3, <3>4, <2>4 DEF vlm_retry_node, TypeOK, Nodes, Statuses
  <2>5. CASE unresolved_handler_node
    <3>1. Unresolved(failed_fields, flagged_fields) \subseteq Fields
      BY DEF Unresolved, TypeOK
    <3>2. unresolved_fields' \subseteq Detail /\ flagged_fields' \subseteq Fields
      BY <3>1, <2>5 DEF unresolved_handler_node, Detail
    <3> QED BY <3>2, <2>5 DEF unresolved_handler_node, TypeOK, Nodes, Statuses
  <2>6. CASE adapter_raises
    BY <2>6 DEF adapter_raises, TypeOK
  <2>7. CASE UNCHANGED vars
    BY <2>7 DEF vars, TypeOK
  <2> QED BY <2>1, <2>2, <2>3, <2>4, <2>5, <2>6, <2>7 DEF Next, worker_graph
<1> QED BY <1>1, <1>2, PTL DEF Spec

-----------------------------------------------------------------------------
(* Before a reading, the worker is as it was called.                       *)
Reading == node \in {"router", "doc_intel", "vlm_grounding"}

Untouched ==
  Reading => /\ extracted_data = NoData
             /\ failed_fields = {} /\ flagged_fields = {} /\ unresolved_fields = {}
             /\ retry_count = 0

(* The failures a repair or a hand-over works from are those of the data,  *)
(* and a repair has a field to read and a pass to spend.                   *)
Rounds ==
  /\ node \in {"worker_validation", "vlm_retry", "unresolved_handler"} =>
       unresolved_fields = {}
  /\ node \in {"worker_validation", "vlm_retry"} => retry_count <= MaxRetries
  /\ node \in {"vlm_retry", "unresolved_handler"} =>
       failed_fields = validate_document(extracted_data) /\ failed_fields # {}

(* What an invocation returns with.                                        *)
Returned ==
  /\ node = "END" =>
       \/ /\ status = "VALIDATED"
          /\ validate_document(extracted_data) = {}
          /\ unresolved_fields = {}
       \/ /\ status = "REQUIRES_MANUAL_ENTRY"
          /\ validate_document(extracted_data) # {}
          /\ \A f \in validate_document(extracted_data) :
               [field |-> f, reason |-> "tool"] \in unresolved_fields
          /\ flagged_fields = {u.field : u \in unresolved_fields}
       \/ /\ status = "FAILED"
          /\ errors # {}
          /\ extracted_data = NoData
          /\ unresolved_fields = {}
  /\ node # "END" => status = "PROCESSING"

WorkerInv == Untouched /\ Rounds /\ Returned

(* Each node hands the next one what the invariant says it finds there.    *)
LEMMA WorkerInvHolds == Spec => []WorkerInv
<1>1. Init => WorkerInv
  BY FieldRetryAssumption
     DEF Init, initial_worker_state, WorkerInv, Untouched, Reading, Rounds, Returned
<1>2. ASSUME TypeOK, WorkerInv, [Next]_vars
      PROVE  WorkerInv'
  <2> USE <1>2
  <2>1. CASE router_node
    BY <2>1 DEF router_node, route_after_router, Strategies, WorkerInv, Untouched,
                Reading, Rounds, Returned
  <2>2. ASSUME NEW branch \in {"doc_intel", "vlm_grounding"}, extraction_node(branch)
        PROVE  WorkerInv'
    <3>1. /\ Reading
          /\ extracted_data = NoData /\ unresolved_fields = {} /\ retry_count = 0
      BY <2>2 DEF extraction_node, WorkerInv, Untouched, Reading
    <3>2. /\ node' \in {"worker_validation", "END"}
          /\ node' = "worker_validation" => status' = "PROCESSING"
          /\ node' = "END" => /\ status' = "FAILED" /\ errors' # {}
                              /\ extracted_data' = NoData
          /\ retry_count' = 0 /\ unresolved_fields' = {}
      BY <2>2, <3>1 DEF extraction_node, route_after_extraction
    <3> QED BY <3>2, FieldRetryAssumption
            DEF WorkerInv, Untouched, Reading, Rounds, Returned
  <2>3. CASE worker_validation_node
    <3>1. /\ node = "worker_validation" /\ unresolved_fields = {}
          /\ retry_count \in Nat
      BY <2>3 DEF worker_validation_node, WorkerInv, Rounds, TypeOK
    <3>2. /\ failed_fields' = validate_document(extracted_data')
          /\ unresolved_fields' = {}
      BY <2>3, <3>1 DEF worker_validation_node
    <3>3. \/ /\ node' = "END" /\ status' = "VALIDATED" /\ failed_fields' = {}
          \/ /\ node' \in {"vlm_retry", "unresolved_handler"}
             /\ status' = "PROCESSING" /\ failed_fields' # {}
             /\ node' = "vlm_retry" => retry_count' <= MaxRetries
      BY <2>3, <3>1 DEF worker_validation_node, route_after_worker_validation
    <3> QED BY <3>2, <3>3 DEF WorkerInv, Untouched, Reading, Rounds, Returned
  <2>4. CASE vlm_retry_node
    BY <2>4 DEF vlm_retry_node, WorkerInv, Untouched, Reading, Rounds, Returned
  <2>5. CASE unresolved_handler_node
    <3> DEFINE handed == Unresolved(failed_fields, flagged_fields)
    <3>1. /\ failed_fields = validate_document(extracted_data)
          /\ failed_fields # {}
      BY <2>5 DEF unresolved_handler_node, WorkerInv, Rounds
    <3>2. /\ node' = "END" /\ status' = "REQUIRES_MANUAL_ENTRY"
          /\ extracted_data' = extracted_data /\ flagged_fields' = handed
          /\ unresolved_fields' =
               {[field |-> f, reason |-> IF f \in failed_fields THEN "tool" ELSE "default"] :
                  f \in handed}
      BY <2>5 DEF unresolved_handler_node
    <3>3. failed_fields \subseteq handed
      BY DEF Unresolved
    <3> HIDE DEF handed
    <3>4. \A f \in failed_fields : [field |-> f, reason |-> "tool"] \in unresolved_fields'
      BY <3>2, <3>3
    <3>5. {u.field : u \in unresolved_fields'} = handed
      <4>1. ASSUME NEW f \in handed PROVE \E u \in unresolved_fields' : u.field = f
        <5> DEFINE detail == [field |-> f, reason |-> IF f \in failed_fields THEN "tool" ELSE "default"]
        <5>1. detail \in unresolved_fields' /\ detail.field = f
          BY <3>2
        <5> QED BY <5>1
      <4>2. \A u \in unresolved_fields' : u.field \in handed
        BY <3>2
      <4> QED BY <4>1, <4>2
    <3>6. validate_document(extracted_data') = failed_fields
      BY <3>1, <3>2
    <3>7. Returned'
      BY <3>1, <3>2, <3>4, <3>5, <3>6 DEF Returned
    <3>8. Untouched' /\ Rounds'
      BY <3>2 DEF Untouched, Reading, Rounds
    <3> QED BY <3>7, <3>8 DEF WorkerInv
  <2>6. CASE adapter_raises
    BY <2>6 DEF adapter_raises, WorkerInv, Untouched, Reading, Rounds, Returned
  <2>7. CASE UNCHANGED vars
    BY <2>7 DEF vars, WorkerInv, Untouched, Reading, Rounds, Returned
  <2> QED BY <2>1, <2>2, <2>3, <2>4, <2>5, <2>6, <2>7 DEF Next, worker_graph
<1> QED BY <1>1, <1>2, TypeCorrect, PTL DEF Spec

(* The verdict is the tools' own, whatever the adapters answered.          *)
THEOREM VerdictHonestHolds == Spec => []VerdictHonest
<1>1. WorkerInv => VerdictHonest
  BY DEF WorkerInv, Returned, VerdictHonest
<1> QED BY <1>1, WorkerInvHolds, PTL

(* The hand-over names every field a tool rejects, and every flagged one.  *)
THEOREM HandOverCompleteHolds == Spec => []HandOverComplete
<1>1. WorkerInv => HandOverComplete
  BY DEF WorkerInv, Returned, HandOverComplete
<1> QED BY <1>1, WorkerInvHolds, PTL

-----------------------------------------------------------------------------
(* The operators of the loop are the operators of the worker: the instance *)
(* substitutes variables, and these have none.                             *)
LEMMA LoopOperators ==
  /\ Loop!NoData = NoData
  /\ \A d : Loop!validate_document(d) = validate_document(d)
  /\ \A S, T : Loop!Retryable(S, T) = Retryable(S, T)
  /\ Loop!Answers = Answers
  /\ \A answers : Loop!Repairs(answers) = Repairs(answers)
  /\ \A d, patch : Loop!Repaired(d, patch) = Repaired(d, patch)
<1>1. Loop!NoData = NoData
  BY DEF NoData, Loop!NoData
<1>2. \A d : Loop!validate_document(d) = validate_document(d)
  BY DEF validate_document, Loop!validate_document, FieldRuleFails,
         Loop!FieldRuleFails
<1>3. \A S, T : Loop!Retryable(S, T) = Retryable(S, T)
  BY DEF Retryable, Loop!Retryable
<1>4. Loop!Answers = Answers
  BY DEF Answers, Loop!Answers
<1>5. \A answers : Loop!Repairs(answers) = Repairs(answers)
  BY DEF Repairs, Loop!Repairs
<1>6. \A d, patch : Loop!Repaired(d, patch) = Repaired(d, patch)
  BY <1>1 DEF Repaired, Loop!Repaired, renormalize, Loop!renormalize, Patched,
              Loop!Patched
<1> QED BY <1>1, <1>2, <1>3, <1>4, <1>5, <1>6

(* Every node is a step of the abstract repair loop, or leaves the loop    *)
(* where it is.                                                            *)
THEOREM RepairsInLoopHolds == Spec => RepairsInLoop
<1>1. Init => Loop!Init
  BY LoopOperators, FieldRetryAssumption
     DEF Init, initial_worker_state, Loop!Init, Loop!Fresh, Stage, PassesLeft, Ended
<1>2. ASSUME TypeOK, WorkerInv, [Next]_vars
      PROVE  [Loop!Next]_(Loop!vars)
  <2> USE <1>2, LoopOperators, FieldRetryAssumption
  <2>0. retry_count \in Nat /\ Rounds
    BY DEF TypeOK, WorkerInv
  <2>1. CASE router_node \/ UNCHANGED vars
    <3>1. /\ UNCHANGED <<extracted_data, failed_fields, flagged_fields, retry_count>>
          /\ \/ node = "router" /\ node' \in {"doc_intel", "vlm_grounding"}
             \/ UNCHANGED node
      BY <2>1 DEF router_node, route_after_router, vars
    <3>2. UNCHANGED Stage
      BY <3>1 DEF Stage, Ended
    <3>3. UNCHANGED PassesLeft
      BY <3>1, <3>2 DEF PassesLeft
    <3> QED BY <3>1, <3>2, <3>3 DEF Loop!vars
  <2>2. ASSUME NEW branch \in {"doc_intel", "vlm_grounding"}, extraction_node(branch)
        PROVE  Loop!Next
    <3>1. Loop!Abandon \/ Loop!Read
      BY <2>2 DEF extraction_node, route_after_extraction, Loop!Abandon, Loop!Read,
                  Stage, PassesLeft, Ended
    <3> QED BY <3>1 DEF Loop!Next
  <2>3. CASE worker_validation_node
    <3>1. node = "worker_validation" /\ retry_count <= MaxRetries
      BY <2>0, <2>3 DEF worker_validation_node, Rounds
    <3>2. Loop!Check
      BY <2>0, <2>3, <3>1
         DEF worker_validation_node, route_after_worker_validation, failure_counted,
             Loop!Check, Stage, PassesLeft, Ended
    <3> QED BY <3>2 DEF Loop!Next
  <2>4. CASE vlm_retry_node
    <3>1. node = "vlm_retry" /\ retry_count <= MaxRetries
      BY <2>0, <2>4 DEF vlm_retry_node, Rounds
    <3>2. Loop!Repair
      BY <2>0, <2>4, <3>1
         DEF vlm_retry_node, Targets, Loop!Repair, Stage, PassesLeft, Ended
    <3> QED BY <3>2 DEF Loop!Next
  <2>5. CASE unresolved_handler_node
    <3>1. node = "unresolved_handler" /\ failed_fields = validate_document(extracted_data)
      BY <2>0, <2>5 DEF unresolved_handler_node, Rounds
    <3>2. extracted_data' \in Loop!Data
      BY <2>5 DEF unresolved_handler_node, TypeOK, Data, Loop!Data
    <3>3. Loop!HandOver
      BY <2>5, <3>1, <3>2
         DEF unresolved_handler_node, Unresolved, Loop!HandOver, Stage, PassesLeft, Ended
    <3> QED BY <3>3 DEF Loop!Next
  <2>6. CASE adapter_raises
    <3>1. Loop!Abandon
      BY <2>6 DEF adapter_raises, Loop!Abandon, Stage, PassesLeft, Ended
    <3> QED BY <3>1 DEF Loop!Next
  <2> QED BY <2>1, <2>2, <2>3, <2>4, <2>5, <2>6 DEF Next, worker_graph
<1> QED BY <1>1, <1>2, TypeCorrect, WorkerInvHolds, PTL DEF Spec, RepairsInLoop, Loop!Spec

-----------------------------------------------------------------------------
(* The safety part of KeepsContract: the orchestrator sees an invocation   *)
(* that runs, and then one verdict of the contract or an exception, once.  *)
(* That it ends is a matter of fairness.                                   *)
THEOREM ContractKept == Spec => Contract!Init /\ [][Contract!Return]_Outcome
<1>1. Init => Contract!Init
  BY DEF Init, Contract!Init, Contract!NoVerdict, Verdicts!NoVerdict, Outcome
<1>2. ASSUME TypeOK, WorkerInv, TypeOK', WorkerInv', [Next]_vars
      PROVE  [Contract!Return]_Outcome
  <2> USE <1>2
  <2>1. CASE node \notin {"END", "RAISED"} /\ node' \notin {"END", "RAISED"}
    BY <2>1 DEF Outcome
  <2>2. CASE node \notin {"END", "RAISED"} /\ node' = "RAISED"
    BY <2>2 DEF Outcome, Contract!Return, Contract!NoVerdict, Contract!Raised,
                Verdicts!NoVerdict, Verdicts!Raised
  <2>3. CASE node \notin {"END", "RAISED"} /\ node' = "END"
    <3>1. Outcome = Contract!NoVerdict
      BY <2>3 DEF Outcome, Contract!NoVerdict, Verdicts!NoVerdict
    <3>2. Outcome' = [status |-> status', filled |-> FilledFields',
                      unresolved |-> {u.field : u \in unresolved_fields'}]
      BY <2>3 DEF Outcome
    <3>3. Outcome' \in Contract!Verdicts
      <4>1. FilledFields' \subseteq Fields
        BY DEF FilledFields
      <4>2. {u.field : u \in unresolved_fields'} \subseteq Fields
        BY DEF TypeOK, Detail
      <4>3. Returned'
        BY DEF WorkerInv
      <4>4. CASE status' = "VALIDATED"
        <5>1. {u.field : u \in unresolved_fields'} = {}
          BY <2>3, <4>3, <4>4 DEF Returned
        <5> QED BY <3>2, <4>1, <4>4, <5>1 DEF Contract!Verdicts, Contract!Verdict
      <4>5. CASE status' = "REQUIRES_MANUAL_ENTRY"
        <5>1. \E f \in validate_document(extracted_data') :
                [field |-> f, reason |-> "tool"] \in unresolved_fields'
          BY <2>3, <4>3, <4>5 DEF Returned
        <5>2. {u.field : u \in unresolved_fields'} # {}
          BY <5>1
        <5> QED BY <3>2, <4>1, <4>2, <4>5, <5>2 DEF Contract!Verdicts, Contract!Verdict
      <4>6. CASE status' = "FAILED"
        <5>1. /\ extracted_data' = NoData
              /\ {u.field : u \in unresolved_fields'} = {}
          BY <2>3, <4>3, <4>6 DEF Returned
        <5>2. FilledFields' = {}
          BY <5>1 DEF FilledFields, NoData
        <5> QED BY <3>2, <4>6, <5>1, <5>2 DEF Contract!Verdicts, Contract!Verdict
      <4> QED BY <2>3, <4>3, <4>4, <4>5, <4>6 DEF Returned
    <3> QED BY <3>1, <3>3 DEF Contract!Return
  <2>4. CASE node \in {"END", "RAISED"}
    <3>1. UNCHANGED vars
      BY <2>4 DEF Next, worker_graph, router_node, extraction_node,
                  worker_validation_node, vlm_retry_node, unresolved_handler_node,
                  adapter_raises
    <3>2. UNCHANGED <<node, status, extracted_data, unresolved_fields>>
      BY <3>1 DEF vars
    <3> QED BY <3>2 DEF Outcome, FilledFields
  <2> QED BY <2>1, <2>2, <2>3, <2>4 DEF TypeOK, Nodes
<1> QED BY <1>1, <1>2, TypeCorrect, WorkerInvHolds, PTL DEF Spec
=============================================================================
