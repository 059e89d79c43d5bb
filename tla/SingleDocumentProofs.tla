------------------------- MODULE SingleDocumentProofs -------------------------
(***************************************************************************)
(* The safety of the single document workflow, for every schema, registry  *)
(* of rules, retry budget and number of kills.                             *)
(*                                                                         *)
(* Each invariant of SingleDocument is the consequence of one inductive    *)
(* part.  The parts say, node by node, what the supersteps before that     *)
(* node have already spent and established; they are proved in the order   *)
(* in which they use one another.                                          *)
(***************************************************************************)
EXTENDS SingleDocument, TLAPS

(* The tools name fields, and the schema returns documents.                *)
LEMMA ToolTypes ==
  ASSUME NEW d \in Data
  PROVE  /\ validate_document(d) \subseteq Fields
         /\ renormalize(d) \in Data
         /\ d \in Fitting => Canonical[d] \in Fitting
<1>1. validate_document(d) \subseteq Fields
  BY ToolsAssumption DEF validate_document
<1>2. renormalize(d) \in Data
  BY ToolsAssumption DEF renormalize
<1> QED BY <1>1, <1>2, ToolsAssumption

(* The empty document is a document.                                       *)
LEMMA NoDataTyped == NoData \in Data
<1>1. Blank \in Values
  BY ToolsAssumption
<1> QED BY <1>1 DEF NoData, Data

(* Patching a document with readings gives a document.                     *)
LEMMA PatchedTypes ==
  ASSUME NEW d \in Data, NEW S \in SUBSET Fields, NEW patch \in [S -> Values]
  PROVE  Patched(d, patch) \in Data
BY DEF Patched, Data

(* What a retry pass writes is a document again.                           *)
LEMMA RepairedTypes ==
  ASSUME NEW d \in Data, NEW T \in SUBSET Fields,
         NEW answers \in [T -> Answers]
  PROVE  Repaired(d, Repairs(answers)) \in Data
<1> DEFINE R == {g \in T : answers[g] \in Values}
<1>1. Repairs(answers) \in [R -> Values]
  BY DEF Repairs
<1>2. R \in SUBSET Fields
  OBVIOUS
<1>3. Patched(d, Repairs(answers)) \in Data
  BY <1>1, <1>2, PatchedTypes
<1> QED BY <1>3, ToolTypes DEF Repaired

(* What an operator's corrections write is a document again.               *)
LEMMA CorrectedTypes ==
  ASSUME NEW d \in Data, NEW decision \in Decisions
  PROVE  Corrected(d, decision.corrections) \in Data
<1>1. decision \in Decision
  BY SingleDocumentAssumption
<1>2. PICK S \in SUBSET Fields : decision.corrections \in [S -> Values]
  BY <1>1 DEF Decision
<1>3. Patched(d, decision.corrections) \in Data
  BY <1>2, PatchedTypes
<1> QED BY <1>3, ToolTypes DEF Corrected

(* A bill stays a bill, and grows by at most one call per billed field.    *)
LEMMA BillTypes ==
  ASSUME NEW S \in SUBSET Fields, calls \in [Fields -> Nat], Bill(S)
  PROVE  /\ calls' \in [Fields -> Nat]
         /\ \A f \in Fields : calls'[f] <= calls[f] + 1
         /\ \A f \in Fields \ S : calls'[f] = calls[f]
<1>1. \A n \in Nat : Count(n, CallBound) \in Nat /\ Count(n, CallBound) <= n + 1
  BY DEF Count
<1> QED BY <1>1 DEF Bill

(* Whatever turns an invocation away leaves every thread as it was.        *)
LEMMA TurnedAwayIs ==
  ASSUME turned_away
  PROVE  /\ proc = "down" /\ exit_code' \in {1, 2}
         /\ printed' \in {"message", "traceback"}
         /\ UNCHANGED <<thread, proc, offer, history>>
BY DEF turned_away, usage_error, configuration_error, image_not_found, resume_refused,
       correction_refused, startup_raises, TurnedAway

-----------------------------------------------------------------------------
(* Every variable stays in its type.                                       *)
THEOREM TypeCorrect == Spec => []TypeOK
<1>1. Init => TypeOK
  <2> SUFFICES ASSUME Init PROVE TypeOK
    OBVIOUS
  <2>1. extracted_data \in Data
    BY NoDataTyped DEF Init
  <2>2. calls \in [Fields -> Nat]
    BY DEF Init
  <2>3. /\ exit_code \in {-1, 0, 1, 2} /\ retry_count \in Nat
        /\ printed \in {"nothing", "message", "traceback", "review", "document"}
        /\ supersteps \in Nat /\ crashes \in Nat
    BY DEF Init
  <2>4. offer \in Decisions \cup {NoDecision}
    BY DEF Init
  <2>5. /\ node \in Nodes \cup {"END", "none"} /\ status \in Statuses
        /\ proc \in {"down", "running", "reporting"}
    BY DEF Init, Nodes, Statuses
  <2>6. /\ failed_fields \subseteq Fields /\ flagged_fields \subseteq Fields
        /\ errors \subseteq {"preprocess", "extraction"} \cup Fields
    BY DEF Init
  <2>7. suspended \in BOOLEAN /\ is_readable \in BOOLEAN
    BY DEF Init
  <2> QED BY <2>1, <2>2, <2>3, <2>4, <2>5, <2>6, <2>7 DEF TypeOK
<1>2. TypeOK /\ [Next]_vars => TypeOK'
  <2> SUFFICES ASSUME TypeOK, [Next]_vars PROVE TypeOK'
    OBVIOUS
  <2>0. supersteps' = Count(supersteps, SuperstepBound) => supersteps' \in Nat
    BY DEF TypeOK, Count
  <2>1. CASE run_document
    BY <2>1, NoDataTyped DEF run_document, initial_state, TypeOK, Nodes, Statuses
  <2>2. CASE resume_document
    BY <2>2 DEF resume_document, TypeOK, thread, document, history
  <2>3. CASE turned_away
    BY <2>3, TurnedAwayIs DEF TypeOK, thread, document, history
  <2>4. CASE preprocess_node
    BY <2>4, <2>0 DEF preprocess_node, route_after_preprocess, Commit, TypeOK,
                      Nodes, Statuses
  <2>5. CASE extraction_node
    <3>1. extracted_data' \in Data
      BY <2>5, ToolsAssumption DEF extraction_node, TypeOK
    <3> QED BY <3>1, <2>5, <2>0
            DEF extraction_node, route_after_extraction, Commit, TypeOK, Nodes,
                Statuses
  <2>6. CASE validation_node
    <3>1. failed_fields' \subseteq Fields
      BY <2>6, ToolTypes DEF validation_node, TypeOK
    <3>2. retry_count' \in Nat /\ status' \in Statuses
      BY <2>6 DEF validation_node, failure_counted, TypeOK, Statuses
    <3>3. node' \in Nodes \cup {"END"}
      BY <2>6 DEF validation_node, route_after_validation, Commit, Nodes
    <3> QED BY <3>1, <3>2, <3>3, <2>6, <2>0
            DEF validation_node, Commit, TypeOK
  <2>7. CASE crop_and_vlm_retry_node
    <3>1. PICK answers \in [Targets -> Answers] :
            /\ extracted_data' = Repaired(extracted_data, Repairs(answers))
            /\ flagged_fields' =
                 flagged_fields \cup {f \in Targets : answers[f] = Unreadable}
            /\ errors' = errors \cup {f \in Targets : answers[f] = ReadError}
      BY <2>7 DEF crop_and_vlm_retry_node
    <3>2. Targets \in SUBSET Fields
      BY DEF Targets, Retryable, TypeOK
    <3>3. extracted_data' \in Data
      BY <3>1, <3>2, RepairedTypes DEF TypeOK
    <3>4. calls' \in [Fields -> Nat]
      BY <2>7, <3>2, BillTypes DEF crop_and_vlm_retry_node, TypeOK
    <3>5. /\ flagged_fields' \subseteq Fields
          /\ errors' \subseteq {"preprocess", "extraction"} \cup Fields
      BY <3>1, <3>2 DEF TypeOK
    <3> QED BY <3>3, <3>4, <3>5, <2>7, <2>0
            DEF crop_and_vlm_retry_node, Commit, TypeOK, Nodes, Statuses
  <2>8. CASE hitl_fallback_suspends
    BY <2>8 DEF hitl_fallback_suspends, document, history, TypeOK
  <2>9. CASE apply_human_review
    <3>1. extracted_data' \in Data
      BY <2>9, CorrectedTypes DEF apply_human_review, TypeOK
    <3>2. failed_fields' \subseteq Fields
      BY <2>9, <3>1, ToolTypes DEF apply_human_review
    <3>3. flagged_fields' \subseteq Fields /\ status' \in Statuses
      BY <2>9 DEF apply_human_review, TypeOK, Statuses
    <3> QED BY <3>1, <3>2, <3>3, <2>9, <2>0
            DEF apply_human_review, Commit, TypeOK
  <2>10. CASE report
    BY <2>10 DEF report, ExitCode, thread, document, history, TypeOK
  <2>11. CASE crash
    <3>1. calls' \in [Fields -> Nat]
      <4>1. Targets \in SUBSET Fields
        BY DEF Targets, Retryable, TypeOK
      <4> QED BY <2>11, <4>1, BillTypes DEF crash, TypeOK
    <3> QED BY <3>1, <2>11 DEF crash, thread, document, TypeOK
  <2>12. CASE UNCHANGED vars
    BY <2>12 DEF vars, thread, document, process, history, TypeOK
  <2> QED BY <2>1, <2>2, <2>3, <2>4, <2>5, <2>6, <2>7, <2>8, <2>9, <2>10,
             <2>11, <2>12 DEF Next, Superstep
<1> QED BY <1>1, <1>2, PTL DEF Spec

-----------------------------------------------------------------------------
(* The inductive invariant.                                                *)

(* Where the run stands, in the process and in the checkpoint.             *)
Control ==
  /\ suspended => node = "hitl_fallback"
  /\ proc = "reporting" => node = "END" \/ suspended
  /\ proc # "down" => exit_code = -1 /\ printed = "nothing" /\ node # "none"
  /\ status \in {"VALIDATED", "HUMAN_REVIEW_REQUIRED"} => node = "END"
  /\ node = "END" => status # "PROCESSING"

(* How many validation failures each node can have behind it.              *)
Failures ==
  /\ retry_count <= MaxRetries + 1
  /\ node \in {"preprocess", "extraction"} => retry_count = 0
  /\ node = "validation" => retry_count <= MaxRetries
  /\ node = "crop_and_vlm_retry" => retry_count \in 1 .. MaxRetries
  /\ node = "hitl_fallback" => retry_count \in 1 .. (MaxRetries + 1)

(* Retry passes committed so far: one less than the failures while the     *)
(* last failure waits to be answered.                                      *)
Passes ==
  IF node \in {"crop_and_vlm_retry", "hitl_fallback"} THEN retry_count - 1
  ELSE IF node \in {"preprocess", "extraction", "validation"} THEN retry_count
  ELSE MaxRetries

Bills == \A f \in Fields : calls[f] <= Passes + crashes

(* Supersteps behind each node: two per round of the repair loop.          *)
Rounds ==
  /\ supersteps <= SuperstepBound
  /\ node = "preprocess" => supersteps = 0
  /\ node = "extraction" => supersteps <= 1
  /\ node = "validation" => supersteps <= 2 * retry_count + 2
  /\ node \in {"crop_and_vlm_retry", "hitl_fallback"} =>
       supersteps <= 2 * retry_count + 1

IInv ==
  TypeOK /\ Control /\ Failures /\ Bills /\ Rounds /\ FailuresAreCurrent

(* A superstep runs in a live process and leaves it live or reporting.     *)
LEMMA ControlStep == TypeOK /\ Control /\ [Next]_vars => Control'
<1> SUFFICES ASSUME TypeOK, Control, [Next]_vars PROVE Control'
  OBVIOUS
<1> USE DEF Control
<1>1. CASE run_document
  BY <1>1 DEF run_document, initial_state
<1>2. CASE resume_document
  BY <1>2 DEF resume_document, has_suspended_run, thread, document
<1>3. CASE turned_away
  BY <1>3, TurnedAwayIs DEF thread, document
<1>4. CASE preprocess_node
  BY <1>4 DEF preprocess_node, route_after_preprocess, Commit, Running
<1>5. CASE extraction_node
  BY <1>5 DEF extraction_node, route_after_extraction, Commit, Running
<1>6. CASE validation_node
  BY <1>6 DEF validation_node, route_after_validation, Commit, Running
<1>7. CASE crop_and_vlm_retry_node
  BY <1>7 DEF crop_and_vlm_retry_node, Commit, Running
<1>8. CASE hitl_fallback_suspends
  BY <1>8 DEF hitl_fallback_suspends, document, Running
<1>9. CASE apply_human_review
  BY <1>9 DEF apply_human_review, Commit, Running
<1>10. CASE report
  BY <1>10 DEF report, thread, document
<1>11. CASE crash
  BY <1>11 DEF crash, thread, document
<1>12. CASE UNCHANGED vars
  BY <1>12 DEF vars, thread, document, process
<1> QED BY <1>1, <1>2, <1>3, <1>4, <1>5, <1>6, <1>7, <1>8, <1>9, <1>10, <1>11,
           <1>12 DEF Next, Superstep

(* Only validation counts, and only while it has budget left.              *)
LEMMA FailuresStep == TypeOK /\ Failures /\ [Next]_vars => Failures'
<1> SUFFICES ASSUME TypeOK, Failures, [Next]_vars PROVE Failures'
  OBVIOUS
<1> USE FieldRetryAssumption DEF Failures
<1>0. retry_count \in Nat
  BY DEF TypeOK
<1>1. CASE run_document
  BY <1>1 DEF run_document, initial_state
<1>2. CASE resume_document \/ turned_away \/ report
  BY <1>2, <1>0, TurnedAwayIs DEF resume_document, report, thread, document
<1>3. CASE crash
  BY <1>3, <1>0 DEF crash, thread, document
<1>4. CASE preprocess_node
  BY <1>4, <1>0 DEF preprocess_node, route_after_preprocess, Commit, Running
<1>5. CASE extraction_node
  BY <1>5, <1>0 DEF extraction_node, route_after_extraction, Commit, Running
<1>6. CASE validation_node
  BY <1>6, <1>0 DEF validation_node, route_after_validation, failure_counted,
                    Commit, Running
<1>7. CASE crop_and_vlm_retry_node
  BY <1>7, <1>0 DEF crop_and_vlm_retry_node, Commit, Running
<1>8. CASE hitl_fallback_suspends
  BY <1>8, <1>0 DEF hitl_fallback_suspends, document
<1>9. CASE apply_human_review
  BY <1>9, <1>0 DEF apply_human_review, Commit, Running
<1>10. CASE UNCHANGED vars
  BY <1>10, <1>0 DEF vars, thread, document
<1> QED BY <1>1, <1>2, <1>3, <1>4, <1>5, <1>6, <1>7, <1>8, <1>9, <1>10
        DEF Next, Superstep

(* A retry pass, or a kill inside one, bills a field at most once.         *)
LEMMA BillsStep == TypeOK /\ Failures /\ Bills /\ [Next]_vars => Bills'
<1> SUFFICES ASSUME TypeOK, Failures, Bills, [Next]_vars,
                    NEW f \in Fields
             PROVE  (calls[f] <= Passes + crashes)'
  BY DEF Bills
<1> USE FieldRetryAssumption
<1>0. /\ retry_count \in Nat /\ crashes \in Nat /\ calls[f] \in Nat
      /\ calls[f] <= Passes + crashes
      /\ Targets \in SUBSET Fields
  BY DEF TypeOK, Bills, Targets, Retryable
<1>1. CASE run_document
  BY <1>1 DEF run_document, initial_state, Passes
<1>2. CASE resume_document \/ turned_away \/ report
  BY <1>2, <1>0, TurnedAwayIs DEF resume_document, report, thread, document,
                    history, Passes
<1>3. CASE crash
  <2>1. crashes' = crashes + 1 /\ Passes' = Passes
    BY <1>3 DEF crash, thread, document, Passes
  <2>2. calls'[f] <= calls[f] + 1
    BY <1>3, <1>0, BillTypes DEF crash, TypeOK
  <2>3. calls'[f] \in Nat
    BY <1>3, <1>0, BillTypes DEF crash, TypeOK
  <2>4. Passes \in Int
    BY <1>0 DEF Passes
  <2> QED BY <2>1, <2>2, <2>3, <2>4, <1>0
<1>4. CASE preprocess_node
  BY <1>4, <1>0 DEF preprocess_node, route_after_preprocess, Commit, Running,
                    Passes, Failures
<1>5. CASE extraction_node
  BY <1>5, <1>0 DEF extraction_node, route_after_extraction, Commit, Running,
                    Passes, Failures
<1>6. CASE validation_node
  BY <1>6, <1>0 DEF validation_node, route_after_validation, failure_counted,
                    Commit, Running, Passes, Failures
<1>7. CASE crop_and_vlm_retry_node
  <2>1. calls'[f] <= calls[f] + 1 /\ calls'[f] \in Nat
    BY <1>7, <1>0, BillTypes DEF crop_and_vlm_retry_node, TypeOK
  <2>2. Passes' = retry_count /\ Passes = retry_count - 1 /\ crashes' = crashes
    BY <1>7 DEF crop_and_vlm_retry_node, Commit, Running, Passes
  <2> QED BY <2>1, <2>2, <1>0
<1>8. CASE hitl_fallback_suspends
  BY <1>8, <1>0 DEF hitl_fallback_suspends, document, history, Passes
<1>9. CASE apply_human_review
  BY <1>9, <1>0 DEF apply_human_review, Commit, Running, Passes, Failures
<1>10. CASE UNCHANGED vars
  BY <1>10, <1>0 DEF vars, thread, document, history, Passes
<1> QED BY <1>1, <1>2, <1>3, <1>4, <1>5, <1>6, <1>7, <1>8, <1>9, <1>10
        DEF Next, Superstep

(* A round of the repair loop is two supersteps and one counted failure.   *)
LEMMA RoundsStep == TypeOK /\ Failures /\ Rounds /\ [Next]_vars => Rounds'
<1> SUFFICES ASSUME TypeOK, Failures, Rounds, [Next]_vars PROVE Rounds'
  OBVIOUS
<1> USE FieldRetryAssumption DEF Rounds
<1>0. retry_count \in Nat /\ supersteps \in Nat
  BY DEF TypeOK
<1>00. Count(supersteps, SuperstepBound) \in Nat
       /\ Count(supersteps, SuperstepBound) <= supersteps + 1
  BY <1>0 DEF Count
<1>1. CASE run_document
  BY <1>1 DEF run_document, initial_state, SuperstepBound
<1>2. CASE resume_document \/ turned_away \/ report
  BY <1>2, <1>0, TurnedAwayIs DEF resume_document, report, thread, document,
                    history
<1>3. CASE crash
  BY <1>3, <1>0 DEF crash, thread, document
<1>4. CASE preprocess_node
  BY <1>4, <1>0, <1>00 DEF preprocess_node, route_after_preprocess, Commit,
                           Running, SuperstepBound, Failures
<1>5. CASE extraction_node
  BY <1>5, <1>0, <1>00 DEF extraction_node, route_after_extraction, Commit,
                           Running, SuperstepBound, Failures
<1>6. CASE validation_node
  BY <1>6, <1>0, <1>00 DEF validation_node, route_after_validation,
                           failure_counted, Commit, Running, SuperstepBound,
                           Failures
<1>7. CASE crop_and_vlm_retry_node
  BY <1>7, <1>0, <1>00 DEF crop_and_vlm_retry_node, Commit, Running,
                           SuperstepBound, Failures
<1>8. CASE hitl_fallback_suspends
  BY <1>8, <1>0 DEF hitl_fallback_suspends, document, history
<1>9. CASE apply_human_review
  BY <1>9, <1>0, <1>00 DEF apply_human_review, Commit, Running, SuperstepBound,
                           Failures
<1>10. CASE UNCHANGED vars
  BY <1>10, <1>0 DEF vars, thread, document, history
<1> QED BY <1>1, <1>2, <1>3, <1>4, <1>5, <1>6, <1>7, <1>8, <1>9, <1>10
        DEF Next, Superstep

(* Every step that changes the data is followed by a validation of it,     *)
(* before the failures are used or the status claims anything.             *)
LEMMA FailuresAreCurrentStep ==
  Control /\ FailuresAreCurrent /\ [Next]_vars => FailuresAreCurrent'
<1> SUFFICES ASSUME Control, FailuresAreCurrent, [Next]_vars
             PROVE  FailuresAreCurrent'
  OBVIOUS
<1> USE DEF FailuresAreCurrent, Control
<1>1. CASE run_document
  BY <1>1 DEF run_document, initial_state
<1>2. CASE resume_document \/ turned_away \/ report
  BY <1>2, TurnedAwayIs DEF resume_document, report, thread, document
<1>3. CASE crash
  BY <1>3 DEF crash, thread, document
<1>4. CASE preprocess_node
  BY <1>4 DEF preprocess_node, route_after_preprocess, Commit
<1>5. CASE extraction_node
  BY <1>5 DEF extraction_node, route_after_extraction, Commit
<1>6. CASE validation_node
  BY <1>6 DEF validation_node, route_after_validation, Retryable, Commit
<1>7. CASE crop_and_vlm_retry_node
  BY <1>7 DEF crop_and_vlm_retry_node, Commit
<1>8. CASE hitl_fallback_suspends
  BY <1>8 DEF hitl_fallback_suspends, document
<1>9. CASE apply_human_review
  BY <1>9 DEF apply_human_review, Resolves, Commit
<1>10. CASE UNCHANGED vars
  BY <1>10 DEF vars, thread, document
<1> QED BY <1>1, <1>2, <1>3, <1>4, <1>5, <1>6, <1>7, <1>8, <1>9, <1>10
        DEF Next, Superstep

(* Every conjunct of the inductive invariant, together.                    *)
LEMMA IInvHolds == Spec => []IInv
<1>1. Init => Control /\ Failures /\ Bills /\ Rounds /\ FailuresAreCurrent
  <2> SUFFICES ASSUME Init
               PROVE  Control /\ Failures /\ Bills /\ Rounds /\ FailuresAreCurrent
    OBVIOUS
  <2>1. Control /\ FailuresAreCurrent
    BY DEF Init, Control, FailuresAreCurrent
  <2>2. Failures /\ Bills /\ Rounds
    BY FieldRetryAssumption
       DEF Init, Failures, Bills, Passes, Rounds, SuperstepBound
  <2> QED BY <2>1, <2>2
<1>2. /\ TypeOK /\ Control /\ Failures /\ Bills /\ Rounds /\ FailuresAreCurrent
      /\ [Next]_vars
      => Control' /\ Failures' /\ Bills' /\ Rounds' /\ FailuresAreCurrent'
  BY ControlStep, FailuresStep, BillsStep, RoundsStep, FailuresAreCurrentStep
<1> QED BY <1>1, <1>2, TypeCorrect, PTL DEF Spec, IInv

-----------------------------------------------------------------------------
(* No field is re-read more often than the retry budget allows, plus once  *)
(* per kill, for any budget and any number of kills.                       *)
THEOREM RetryBudgetHolds == Spec => []RetryBudget
<1>1. IInv => RetryBudget
  <2> SUFFICES ASSUME IInv PROVE RetryBudget
    OBVIOUS
  <2>1. retry_count \in Nat /\ retry_count <= MaxRetries + 1
    BY FieldRetryAssumption DEF IInv, TypeOK, Failures
  <2>2. ASSUME NEW f \in Fields
        PROVE  calls[f] <= MaxRetries + crashes
    <3>1. /\ crashes \in Nat /\ calls[f] \in Nat
          /\ calls[f] <= Passes + crashes
      BY <2>2 DEF IInv, TypeOK, Bills
    <3>2. Passes \in Int /\ Passes <= MaxRetries
      BY <2>1, FieldRetryAssumption DEF IInv, Failures, Passes
    <3> QED BY <3>1, <3>2, FieldRetryAssumption
  <2> QED BY <2>1, <2>2 DEF RetryBudget
<1> QED BY <1>1, IInvHolds, PTL

(* A run of the workflow commits at most 2 N + 4 supersteps.               *)
THEOREM SuperstepBudgetHolds == Spec => []SuperstepBudget
<1>1. IInv => SuperstepBudget
  BY DEF IInv, Rounds, SuperstepBudget
<1> QED BY <1>1, IInvHolds, PTL

(* No path validates a document a tool still rejects.                      *)
THEOREM FailuresAreCurrentHolds == Spec => []FailuresAreCurrent
<1>1. IInv => FailuresAreCurrent
  BY DEF IInv
<1> QED BY <1>1, IInvHolds, PTL

(* A human is called only once the machine is out of options.              *)
THEOREM EscalationJustifiedHolds == Spec => []EscalationJustified
<1>1. Init => EscalationJustified
  BY DEF Init, EscalationJustified
<1>2. IInv /\ EscalationJustified /\ [Next]_vars => EscalationJustified'
  <2> SUFFICES ASSUME IInv, EscalationJustified, [Next]_vars
               PROVE  EscalationJustified'
    OBVIOUS
  <2> USE DEF EscalationJustified
  <2>1. CASE validation_node
    <3>1. retry_count \in Nat /\ retry_count <= MaxRetries
      BY <2>1 DEF validation_node, Running, IInv, Failures, TypeOK
    <3> QED BY <3>1, <2>1, FieldRetryAssumption
            DEF validation_node, route_after_validation, Retryable,
                failure_counted, Commit
  <2>2. CASE run_document \/ preprocess_node \/ extraction_node
             \/ crop_and_vlm_retry_node \/ apply_human_review
    BY <2>2 DEF run_document, preprocess_node, route_after_preprocess,
                extraction_node, route_after_extraction,
                crop_and_vlm_retry_node, apply_human_review, Commit
  <2>3. CASE resume_document \/ turned_away \/ report \/ crash
             \/ hitl_fallback_suspends \/ UNCHANGED vars
    BY <2>3, TurnedAwayIs DEF resume_document, report, crash,
                hitl_fallback_suspends, vars, thread, document
  <2> QED BY <2>1, <2>2, <2>3 DEF Next, Superstep
<1> QED BY <1>1, <1>2, IInvHolds, PTL DEF Spec

(* What an invocation prints and exits with agrees with the checkpoint it  *)
(* leaves, if it reports at all; nothing else looks like a success.        *)
THEOREM ExitCodeHonestHolds == Spec => []ExitCodeHonest
<1>1. Init => ExitCodeHonest
  BY DEF Init, ExitCodeHonest
<1>2. IInv /\ ExitCodeHonest /\ [Next]_vars => ExitCodeHonest'
  <2> SUFFICES ASSUME IInv, ExitCodeHonest, [Next]_vars, proc' = "down"
               PROVE  ExitCodeHonest'
    BY DEF ExitCodeHonest
  <2>0. Control /\ FailuresAreCurrent
    BY DEF IInv
  <2> USE DEF ExitCodeHonest
  <2>1. CASE report
    BY <2>1, <2>0 DEF report, ExitCode, Control, FailuresAreCurrent, thread,
                      document
  <2>2. CASE crash
    BY <2>2, <2>0 DEF crash, Control, thread, document
  <2>3. CASE turned_away
    BY <2>3, TurnedAwayIs
  <2>4. CASE run_document \/ resume_document \/ Superstep
    BY <2>4 DEF run_document, resume_document, Superstep, preprocess_node,
                extraction_node, validation_node, crop_and_vlm_retry_node,
                hitl_fallback_suspends, apply_human_review, Commit
  <2>5. CASE UNCHANGED vars
    BY <2>5 DEF vars, thread, document, process
  <2> QED BY <2>1, <2>2, <2>3, <2>4, <2>5 DEF Next
<1> QED BY <1>1, <1>2, IInvHolds, PTL DEF Spec

-----------------------------------------------------------------------------
(* Pushing a document through the schema leaves it canonical, or refused.  *)
LEMMA RenormalizedIsCanonical ==
  ASSUME NEW d, renormalize(d) \in Fitting
  PROVE  Canonical[renormalize(d)] = renormalize(d)
<1>1. CASE d \in Fitting
  BY <1>1, ToolsAssumption DEF renormalize
<1>2. CASE d \notin Fitting
  BY <1>2 DEF renormalize
<1> QED BY <1>1, <1>2

(* Whatever patched a validated or reviewed document last, its data is in  *)
(* the canonical form of the schema.                                       *)
THEOREM CanonicalDataHolds == Spec => []CanonicalData
<1>1. Init => CanonicalData
  BY DEF Init, CanonicalData
<1>2. CanonicalData /\ [Next]_vars => CanonicalData'
  <2> SUFFICES ASSUME CanonicalData, [Next]_vars PROVE CanonicalData'
    OBVIOUS
  <2> USE DEF CanonicalData
  <2>1. CASE run_document \/ preprocess_node
    BY <2>1 DEF run_document, initial_state, preprocess_node,
                route_after_preprocess, Commit
  <2>2. CASE extraction_node
    BY <2>2, ToolsAssumption DEF extraction_node, route_after_extraction, Commit
  <2>3. CASE validation_node
    BY <2>3 DEF validation_node, Running, Commit
  <2>4. CASE crop_and_vlm_retry_node
    <3>1. node = "crop_and_vlm_retry"
      BY <2>4 DEF crop_and_vlm_retry_node, Running
    <3>2. PICK answers :
            extracted_data' = Repaired(extracted_data, Repairs(answers))
      BY <2>4 DEF crop_and_vlm_retry_node
    <3>3. \/ extracted_data' = extracted_data
          \/ \E d : extracted_data' = renormalize(d)
      BY <3>2 DEF Repaired
    <3> QED BY <3>1, <3>3, RenormalizedIsCanonical
  <2>5. CASE apply_human_review
    <3>1. node = "hitl_fallback"
      BY <2>5 DEF apply_human_review, Running
    <3>2. \/ extracted_data' = extracted_data
          \/ \E d : extracted_data' = renormalize(d)
      BY <2>5 DEF apply_human_review, Corrected
    <3> QED BY <3>1, <3>2, RenormalizedIsCanonical
  <2>6. CASE resume_document \/ turned_away \/ report \/ crash
             \/ hitl_fallback_suspends \/ UNCHANGED vars
    BY <2>6, TurnedAwayIs DEF resume_document, report, crash,
                hitl_fallback_suspends, vars, thread, document
  <2> QED BY <2>1, <2>2, <2>3, <2>4, <2>5, <2>6 DEF Next, Superstep
<1> QED BY <1>1, <1>2, PTL DEF Spec

(* What the tools object to is among the fields they name.                 *)
LEMMA FailuresNamed ==
  ASSUME NEW d
  PROVE  validate_document(d) \subseteq ToolFields
BY DEF validate_document, ToolFields

(* A repair of such fields leaves a document that fits, in canonical form, *)
(* and the same wherever it was not read again.                            *)
LEMMA RepairFits ==
  ASSUME NEW d \in Fitting, Canonical[d] = d,
         NEW T \in SUBSET ToolFields, NEW answers \in [T -> Answers]
  PROVE  LET repaired == Repaired(d, Repairs(answers)) IN
           /\ repaired \in Fitting /\ Canonical[repaired] = repaired
           /\ \A f \in Fields \ T : repaired[f] = d[f]
<1> DEFINE patch == Repairs(answers)
           new == Patched(d, patch)
           full == [f \in ToolFields |-> IF f \in DOMAIN patch THEN patch[f] ELSE d[f]]
<1>1. /\ d \in [Fields -> Values] /\ ToolFields \subseteq Fields
      /\ DOMAIN patch \subseteq T /\ \A f \in DOMAIN patch : patch[f] \in Values
  BY ToolsAssumption DEF Data, ToolFields, Repairs
<1> HIDE DEF patch
<1>2. new = Patched(d, full)
  BY <1>1 DEF Patched
<1>3. full \in [ToolFields -> Values]
  BY <1>1
<1> HIDE DEF full
<1>4. new \in Fitting /\ \A f \in Fields \ T : new[f] = d[f]
  <2>1. \A f \in Fields \ T : new[f] = d[f]
    BY <1>1 DEF Patched
  <2> QED BY <1>2, <1>3, <2>1, SchemaAssumption
<1> HIDE DEF new
<1>5. CASE DOMAIN patch = {}
  BY <1>5 DEF Repaired, patch
<1>6. CASE DOMAIN patch # {}
  <2>1. Repaired(d, patch) = Canonical[new]
    BY <1>4, <1>6 DEF Repaired, renormalize, new
  <2>2. \A f \in Fields \ T : Canonical[new][f] = Canonical[d][f]
    BY <1>4, SchemaAssumption
  <2>3. Canonical[new] \in Fitting /\ Canonical[Canonical[new]] = Canonical[new]
    BY <1>4, ToolsAssumption
  <2> QED BY <2>1, <2>2, <2>3 DEF patch
<1> QED BY <1>5, <1>6

(* In the repair loop the document fits the schema: what a pass patches are*)
(* fields any reading fits.                                                *)
LoopFits ==
  node \in {"validation", "crop_and_vlm_retry"} =>
    extracted_data \in Fitting /\ Canonical[extracted_data] = extracted_data

(* One retry pass.                                                         *)
LEMMA RetryRepairs ==
  ASSUME LoopFits, FailuresAreCurrent, crop_and_vlm_retry_node
  PROVE  /\ extracted_data' \in Fitting
         /\ Canonical[extracted_data'] = extracted_data'
         /\ \A f \in Fields \ Targets : extracted_data'[f] = extracted_data[f]
<1>1. node = "crop_and_vlm_retry"
  BY DEF crop_and_vlm_retry_node, Running
<1>2. PICK answers \in [Targets -> Answers] :
             extracted_data' = Repaired(extracted_data, Repairs(answers))
  BY DEF crop_and_vlm_retry_node
<1>3. Targets \in SUBSET ToolFields
  BY <1>1, FailuresNamed DEF FailuresAreCurrent, Targets, Retryable
<1> HIDE DEF Targets
<1> QED BY <1>1, <1>2, <1>3, RepairFits DEF LoopFits

(* A retry pass writes to the fields it read again and to no other, though *)
(* renormalize pushes the whole document through the schema: RepairsAre-   *)
(* Local, because every earlier pass left the document canonical.          *)
THEOREM RepairsAreLocalHolds == Spec => RepairsAreLocal
<1>1. Init => LoopFits
  BY DEF Init, LoopFits
<1>2. ASSUME IInv, LoopFits, [Next]_vars
      PROVE  LoopFits'
  <2>1. CASE run_document \/ preprocess_node
    BY <2>1 DEF run_document, preprocess_node, route_after_preprocess, Commit,
       LoopFits
  <2>2. CASE extraction_node
    BY <2>2, ToolsAssumption DEF extraction_node, route_after_extraction, Commit,
       LoopFits
  <2>3. CASE validation_node
    BY <1>2, <2>3 DEF validation_node, Running, Commit, LoopFits
  <2>4. CASE crop_and_vlm_retry_node
    BY <1>2, <2>4, RetryRepairs DEF IInv, LoopFits
  <2>5. CASE apply_human_review
    BY <2>5 DEF apply_human_review, Commit, LoopFits
  <2>6. CASE resume_document \/ turned_away \/ report \/ crash
             \/ hitl_fallback_suspends \/ UNCHANGED vars
    BY <1>2, <2>6, TurnedAwayIs DEF resume_document, report, crash,
                hitl_fallback_suspends, vars, thread, document, LoopFits
  <2> QED BY <1>2, <2>1, <2>2, <2>3, <2>4, <2>5, <2>6 DEF Next, Superstep
<1>3. ASSUME IInv, LoopFits, [Next]_vars
      PROVE  [node = "crop_and_vlm_retry" /\ node' = "validation" =>
                \A f \in Fields \ Targets : extracted_data'[f] = extracted_data[f]]_vars
  <2>1. CASE crop_and_vlm_retry_node
    BY <1>3, <2>1, RetryRepairs DEF IInv
  <2>2. CASE run_document
    BY <2>2 DEF run_document
  <2>3. CASE \/ preprocess_node \/ extraction_node \/ validation_node
             \/ apply_human_review \/ hitl_fallback_suspends
    BY <2>3 DEF Running, preprocess_node, extraction_node, validation_node,
                apply_human_review, hitl_fallback_suspends
  <2>4. CASE resume_document \/ turned_away \/ report \/ crash
    BY <2>4, TurnedAwayIs DEF resume_document, report, crash, thread
  <2> QED BY <1>3, <2>1, <2>2, <2>3, <2>4 DEF Next, Superstep
<1> QED BY <1>1, <1>2, <1>3, IInvHolds, PTL DEF Spec, RepairsAreLocal

(* A finished thread is changed by a new run only.                         *)
THEOREM ClosedIsFinalHolds == Spec => ClosedIsFinal
<1>1. ASSUME [Next]_vars
      PROVE  [node = "END" /\ supersteps' # 0 => UNCHANGED thread]_vars
  <2>1. CASE run_document
    BY <2>1 DEF run_document
  <2>2. CASE Superstep
    BY <2>2 DEF Superstep, Running, preprocess_node, extraction_node,
                validation_node, crop_and_vlm_retry_node,
                hitl_fallback_suspends, apply_human_review
  <2>3. CASE resume_document \/ turned_away \/ report \/ crash
    BY <2>3, TurnedAwayIs DEF resume_document, report, crash
  <2> QED BY <1>1, <2>1, <2>2, <2>3 DEF Next
<1> QED BY <1>1, PTL DEF Spec, ClosedIsFinal

(* No superstep, and no kill inside one, bills a re-read of a field that   *)
(* was declared unreadable.                                                *)
THEOREM FlaggedNeverRereadHolds == Spec => FlaggedNeverReread
<1>1. ASSUME TypeOK, [Next]_vars
      PROVE  [\A f \in flagged_fields : calls'[f] <= calls[f]]_vars
  <2>1. SUFFICES ASSUME Next, NEW f \in flagged_fields
                 PROVE  calls'[f] <= calls[f]
    BY <1>1
  <2>2. /\ f \in Fields /\ calls \in [Fields -> Nat] /\ calls[f] \in Nat
        /\ Targets \in SUBSET Fields /\ f \notin Targets
    BY <1>1 DEF TypeOK, Targets, Retryable
  <2>3. CASE run_document
    BY <2>2, <2>3 DEF run_document
  <2>4. CASE crop_and_vlm_retry_node
    <3>1. Bill(Targets)
      BY <2>4 DEF crop_and_vlm_retry_node
    <3> QED BY <3>1, <2>2, BillTypes
  <2>5. CASE crash
    BY <2>2, <2>5, BillTypes DEF crash
  <2>6. CASE preprocess_node \/ extraction_node \/ validation_node
             \/ hitl_fallback_suspends \/ apply_human_review
             \/ resume_document \/ turned_away \/ report
    BY <2>2, <2>6, TurnedAwayIs DEF preprocess_node, extraction_node, validation_node,
                      hitl_fallback_suspends, apply_human_review,
                      resume_document, report, history
  <2> QED BY <2>1, <2>3, <2>4, <2>5, <2>6 DEF Next, Superstep
<1> QED BY <1>1, TypeCorrect, PTL DEF Spec, FlaggedNeverReread

-----------------------------------------------------------------------------
(* The operators of the loop are the operators of the graph: the instance  *)
(* substitutes variables, and these have none.                             *)
LEMMA LoopOperators ==
  /\ Loop!NoData = NoData
  /\ \A d : Loop!validate_document(d) = validate_document(d)
  /\ \A S, T : Loop!Retryable(S, T) = Retryable(S, T)
  /\ Loop!Answers = Answers
  /\ \A answers : Loop!Repairs(answers) = Repairs(answers)
  /\ \A d, patch : Loop!Repaired(d, patch) = Repaired(d, patch)
<1>1. Loop!NoData = NoData
  BY DEF NoData, Loop!NoData
<1>2. \A d : Loop!validate_document(d) = validate_document(d)
  BY DEF validate_document, Loop!validate_document, FieldRuleFails,
         Loop!FieldRuleFails
<1>3. \A S, T : Loop!Retryable(S, T) = Retryable(S, T)
  BY DEF Retryable, Loop!Retryable
<1>4. Loop!Answers = Answers
  BY DEF Answers, Loop!Answers
<1>5. \A answers : Loop!Repairs(answers) = Repairs(answers)
  BY DEF Repairs, Loop!Repairs
<1>6. \A d, patch : Loop!Repaired(d, patch) = Repaired(d, patch)
  BY <1>1 DEF Repaired, Loop!Repaired, renormalize, Loop!renormalize, Patched,
              Loop!Patched
<1> QED BY <1>1, <1>2, <1>3, <1>4, <1>5, <1>6

(* Every superstep of the graph is a step of the abstract repair loop, or  *)
(* leaves the loop where it is; a new run restarts it.                     *)
THEOREM RepairsInLoopHolds == Spec => RepairsInLoop
<1>1. Init => Loop!Init
  BY LoopOperators, FieldRetryAssumption
     DEF Init, Loop!Init, Loop!Fresh, Stage, PassesLeft
<1>2. ASSUME IInv, [Next]_vars
      PROVE  [Loop!Next]_(Loop!vars)
  <2> USE LoopOperators, FieldRetryAssumption
  <2>0. /\ retry_count \in Nat
        /\ Failures
    BY <1>2 DEF IInv, TypeOK
  <2>1. CASE run_document
    <3>1. Loop!Restart
      BY <2>1 DEF run_document, initial_state, Loop!Restart, Loop!Fresh, Stage,
                  PassesLeft
    <3> QED BY <3>1 DEF Loop!Next
  <2>2. CASE preprocess_node
    <3>1. Loop!Abandon \/ UNCHANGED Loop!vars
      BY <2>2 DEF preprocess_node, route_after_preprocess, Commit, Running,
                  Loop!Abandon, Loop!vars, Stage, PassesLeft
    <3> QED BY <3>1 DEF Loop!Next
  <2>3. CASE extraction_node
    <3>1. Loop!Abandon \/ Loop!Read
      BY <2>3 DEF extraction_node, route_after_extraction, Commit, Running,
                  Loop!Abandon, Loop!Read, Stage, PassesLeft
    <3> QED BY <3>1 DEF Loop!Next
  <2>4. CASE validation_node
    <3>1. node = "validation" /\ retry_count <= MaxRetries
      BY <2>0, <2>4 DEF validation_node, Running, Failures
    <3>2. Loop!Check
      BY <2>0, <2>4, <3>1
         DEF validation_node, route_after_validation, failure_counted, Commit,
             Loop!Check, Stage, PassesLeft
    <3> QED BY <3>2 DEF Loop!Next
  <2>5. CASE crop_and_vlm_retry_node
    <3>1. node = "crop_and_vlm_retry" /\ retry_count <= MaxRetries
      BY <2>0, <2>5 DEF crop_and_vlm_retry_node, Running, Failures
    <3>2. Loop!Repair
      BY <2>0, <2>5, <3>1
         DEF crop_and_vlm_retry_node, Targets, Commit, Loop!Repair, Stage,
             PassesLeft
    <3> QED BY <3>2 DEF Loop!Next
  <2>6. CASE apply_human_review
    <3>1. extracted_data' \in Loop!Data
      BY <1>2, <2>6, CorrectedTypes
         DEF apply_human_review, IInv, TypeOK, Data, Loop!Data
    <3>2. Loop!HandOver
      BY <2>6, <3>1 DEF apply_human_review, Resolves, Commit, Running,
                        Loop!HandOver, Stage, PassesLeft
    <3> QED BY <3>2 DEF Loop!Next
  <2>7. CASE \/ resume_document \/ turned_away \/ report \/ crash
             \/ hitl_fallback_suspends \/ UNCHANGED vars
    <3>1. UNCHANGED <<node, extracted_data, failed_fields, flagged_fields,
                      retry_count>>
      BY <2>7, TurnedAwayIs DEF resume_document, report, crash,
                  hitl_fallback_suspends, vars, thread, document
    <3>2. UNCHANGED Stage
      BY <3>1 DEF Stage
    <3>3. UNCHANGED PassesLeft
      BY <3>1 DEF PassesLeft, Stage
    <3> QED BY <3>1, <3>2, <3>3 DEF Loop!vars
  <2> QED BY <1>2, <2>1, <2>2, <2>3, <2>4, <2>5, <2>6, <2>7 DEF Next, Superstep
<1> QED BY <1>1, <1>2, IInvHolds, PTL DEF Spec, RepairsInLoop, Loop!Spec
=============================================================================
