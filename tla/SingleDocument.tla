---------------------------- MODULE SingleDocument ----------------------------
(***************************************************************************)
(* The single document workflow (src/graph/workflow.py and                 *)
(* src/graph/nodes/single_document.py) driven by the command line of       *)
(* main.py over a durable checkpointer.                                    *)
(*                                                                         *)
(* The channels of OCRState are the variables; together with `node`, the   *)
(* node LangGraph runs next, they are the thread's checkpoint.  A node and *)
(* the router behind it are one action, because LangGraph commits them as  *)
(* one superstep: a process killed inside a superstep leaves the           *)
(* checkpoint the previous one wrote, and keeps only the bills it ran up.  *)
(* The process is a variable of its own, so a run can be killed between    *)
(* any two supersteps and its thread picked up by a later invocation.      *)
(***************************************************************************)
EXTENDS FieldRetry

CONSTANTS
  Decisions,     (* operator answers a resume may carry                    *)
  NoDecision,    (* no resume value on offer                               *)
  MaxCrashes     (* bound: kills and uncaught exceptions per run           *)

Decision == [approved: BOOLEAN,
             corrections: UNION {[S -> Values] : S \in SUBSET Fields}]

ASSUME SingleDocumentAssumption ==
  /\ MaxCrashes \in Nat
  /\ Decisions \subseteq Decision
  /\ NoDecision \notin Decision

VARIABLES
  node,             (* next node, "END", or "none": unknown thread          *)
  suspended,        (* an interrupt() of hitl_fallback is pending           *)
  is_readable,
  status,
  extracted_data,
  failed_fields,
  flagged_fields,
  retry_count,
  errors,           (* what run errors name: a phase, or a field            *)
  proc,             (* the CLI process: "down", "running" or "reporting"    *)
  offer,            (* the Command(resume=...) of this invocation           *)
  exit_code,        (* of the last process, -1 before it has one            *)
  printed,          (* what the last process ended on: "nothing", "message",*)
                    (* "traceback", "review" or "document"                  *)
  supersteps,       (* history: supersteps committed in this run            *)
  calls,            (* history: analyze_roi_crop calls billed per field     *)
  crashes           (* history: kills and uncaught exceptions in this run   *)

document == <<is_readable, status, extracted_data, failed_fields,
              flagged_fields, retry_count, errors>>
thread   == <<node, suspended, document>>
process  == <<proc, offer, exit_code, printed>>
history  == <<supersteps, calls, crashes>>
vars     == <<thread, process, history>>

Nodes    == {"preprocess", "extraction", "validation",
             "crop_and_vlm_retry", "hitl_fallback"}
Statuses == {"PROCESSING", "VALIDATED", "EXTRACTION_FAILED", "REJECTED_BLUR",
             "HUMAN_REVIEW_REQUIRED"}

SuperstepBound == 2 * MaxRetries + 4
CallBound      == MaxRetries + MaxCrashes

TypeOK ==
  /\ node \in Nodes \cup {"END", "none"}
  /\ suspended \in BOOLEAN
  /\ is_readable \in BOOLEAN
  /\ status \in Statuses
  /\ extracted_data \in Data
  /\ failed_fields \subseteq Fields
  /\ flagged_fields \subseteq Fields
  /\ retry_count \in Nat
  /\ errors \subseteq {"preprocess", "extraction"} \cup Fields
  /\ proc \in {"down", "running", "reporting"}
  /\ offer \in Decisions \cup {NoDecision}
  /\ exit_code \in {-1, 0, 1, 2}
  /\ printed \in {"nothing", "message", "traceback", "review", "document"}
  /\ supersteps \in Nat
  /\ calls \in [Fields -> Nat]
  /\ crashes \in Nat

initial_state ==
  /\ is_readable' = TRUE
  /\ status' = "PROCESSING"
  /\ extracted_data' = NoData
  /\ failed_fields' = {}
  /\ flagged_fields' = {}
  /\ retry_count' = 0
  /\ errors' = {}

Init ==
  /\ node = "none"
  /\ suspended = FALSE
  /\ is_readable = TRUE
  /\ status = "PROCESSING"
  /\ extracted_data = NoData
  /\ failed_fields = {}
  /\ flagged_fields = {}
  /\ retry_count = 0
  /\ errors = {}
  /\ proc = "down"
  /\ offer = NoDecision
  /\ exit_code = -1
  /\ printed = "nothing"
  /\ supersteps = 0
  /\ calls = [f \in Fields |-> 0]
  /\ crashes = 0

(***************************************************************************)
(* LangGraph: the commit of one superstep.  The resume value is visible to *)
(* the first superstep of an invocation only; reaching END ends the        *)
(* invocation, and the process goes on to report.                          *)
(***************************************************************************)
Running(n) == proc = "running" /\ node = n

Commit(next) ==
  /\ node' = next
  /\ proc' = IF next = "END" THEN "reporting" ELSE "running"
  /\ offer' = NoDecision
  /\ suspended' = FALSE
  /\ supersteps' = Count(supersteps, SuperstepBound)
  /\ UNCHANGED <<exit_code, printed, crashes>>

-----------------------------------------------------------------------------
(***************************************************************************)
(* preprocess and route_after_preprocess: an empty or corrupt payload      *)
(* fails the run, a blurred page rejects it, both before any paid call.    *)
(***************************************************************************)
route_after_preprocess(readable) == IF readable THEN "extraction" ELSE "END"

preprocess_node ==
  /\ Running("preprocess")
  /\ \/ /\ is_readable' = FALSE
        /\ status' = "EXTRACTION_FAILED"
        /\ errors' = errors \cup {"preprocess"}
     \/ /\ is_readable' = FALSE
        /\ status' = "REJECTED_BLUR"
        /\ UNCHANGED errors
     \/ /\ is_readable' = TRUE
        /\ status' = "PROCESSING"
        /\ UNCHANGED errors
  /\ Commit(route_after_preprocess(is_readable'))
  /\ UNCHANGED <<extracted_data, failed_fields, flagged_fields, retry_count,
                 calls>>

(***************************************************************************)
(* extraction and route_after_extraction: a provider outage, or a payload  *)
(* the schema refuses, fails the run; any other reading enters the state   *)
(* in the schema's canonical form.                                         *)
(***************************************************************************)
route_after_extraction(outcome) ==
  IF outcome = "EXTRACTION_FAILED" THEN "END" ELSE "validation"

extraction_node ==
  /\ Running("extraction")
  /\ \/ /\ status' = "EXTRACTION_FAILED"
        /\ errors' = errors \cup {"extraction"}
        /\ UNCHANGED extracted_data
     \/ \E reading \in Fitting :
          /\ extracted_data' = Canonical[reading]
          /\ status' = "PROCESSING"
          /\ UNCHANGED errors
  /\ Commit(route_after_extraction(status'))
  /\ UNCHANGED <<is_readable, failed_fields, flagged_fields, retry_count,
                 calls>>

(***************************************************************************)
(* validation and route_after_validation: a clean pass validates the       *)
(* document and leaves the counter and the flags alone; a failing one      *)
(* counts, and the router arbitrates between a retry and a human.          *)
(***************************************************************************)
(* Seeded fault: one retry pass too few before a human is called.          *)
route_off_by_one_early(outcome, failed, flagged, count) ==
  IF outcome = "VALIDATED" THEN "END"
  ELSE IF Retryable(failed, flagged) = {} THEN "hitl_fallback"
  ELSE IF count < MaxRetries THEN "crop_and_vlm_retry"
  ELSE "hitl_fallback"

(* Seeded fault: one retry pass too many.                                  *)
route_off_by_one_late(outcome, failed, flagged, count) ==
  IF outcome = "VALIDATED" THEN "END"
  ELSE IF Retryable(failed, flagged) = {} THEN "hitl_fallback"
  ELSE IF count <= MaxRetries + 1 THEN "crop_and_vlm_retry"
  ELSE "hitl_fallback"

route_after_validation(outcome, failed, flagged, count) ==
  IF outcome = "VALIDATED" THEN "END"
  ELSE IF Retryable(failed, flagged) = {} THEN "hitl_fallback"
  ELSE IF count <= MaxRetries THEN "crop_and_vlm_retry"
  ELSE "hitl_fallback"

(* Seeded fault: the failure is not counted.                               *)
failure_not_counted(count) == count

failure_counted(count) == count + 1

validation_node ==
  /\ Running("validation")
  /\ failed_fields' = validate_document(extracted_data)
  /\ IF failed_fields' = {}
     THEN status' = "VALIDATED" /\ UNCHANGED retry_count
     ELSE status' = "PROCESSING" /\ retry_count' = failure_counted(retry_count)
  /\ Commit(route_after_validation(status', failed_fields', flagged_fields,
                                   retry_count'))
  /\ UNCHANGED <<is_readable, extracted_data, flagged_fields, errors, calls>>

(***************************************************************************)
(* crop_and_vlm_retry: every failing field not yet declared unreadable is  *)
(* read again, one paid call each.  An error is logged and skipped,        *)
(* UNREADABLE flags the field, and any other answer (never blank:          *)
(* sanitize_scalar_response) patches the document, which is renormalised   *)
(* as soon as one field was patched.                                       *)
(***************************************************************************)
Targets == Retryable(failed_fields, flagged_fields)

Bill(fields) ==
  calls' = [f \in Fields |-> IF f \in fields THEN Count(calls[f], CallBound)
                                             ELSE calls[f]]

crop_and_vlm_retry_node ==
  /\ Running("crop_and_vlm_retry")
  /\ \E answers \in [Targets -> Answers] :
       /\ extracted_data' = Repaired(extracted_data, Repairs(answers))
       /\ flagged_fields' =
            flagged_fields \cup {f \in Targets : answers[f] = Unreadable}
       /\ errors' = errors \cup {f \in Targets : answers[f] = ReadError}
  /\ status' = "PROCESSING"
  /\ Bill(Targets)
  /\ Commit("validation")
  /\ UNCHANGED <<is_readable, failed_fields, retry_count>>

(***************************************************************************)
(* hitl_fallback: without a resume value interrupt() suspends the run and  *)
(* the superstep does not commit.  With one, the node is replayed and      *)
(* _apply_human_review merges the decision: the corrected document must    *)
(* pass the tools that rejected it, whatever the operator approved.        *)
(***************************************************************************)
hitl_fallback_suspends ==
  /\ Running("hitl_fallback")
  /\ offer = NoDecision
  /\ suspended' = TRUE
  /\ proc' = "reporting"
  /\ UNCHANGED <<node, document, offer, exit_code, printed, history>>

Corrected(data, corrections) ==
  IF DOMAIN corrections = {} THEN data
  ELSE renormalize(Patched(data, corrections))

(* Seeded fault: the operator's word is enough.                            *)
resolves_on_approval(approved, remaining) == approved

Resolves(approved, remaining) == approved /\ remaining = {}

apply_human_review ==
  /\ Running("hitl_fallback")
  /\ offer # NoDecision
  /\ extracted_data' = Corrected(extracted_data, offer.corrections)
  /\ failed_fields' = validate_document(extracted_data')
  /\ IF Resolves(offer.approved, failed_fields')
     THEN status' = "VALIDATED" /\ flagged_fields' = {}
     ELSE /\ status' = "HUMAN_REVIEW_REQUIRED"
          /\ flagged_fields' = flagged_fields \cup failed_fields
  /\ Commit("END")
  /\ UNCHANGED <<is_readable, retry_count, errors, calls>>

-----------------------------------------------------------------------------
(***************************************************************************)
(* main.py and the run entry points.  run_document may be given any thread *)
(* id, a used one included: the fresh input resets every channel and       *)
(* drops whatever the thread was waiting for.                              *)
(***************************************************************************)
run_document ==
  /\ proc = "down"
  /\ node' = "preprocess"
  /\ suspended' = FALSE
  /\ initial_state
  /\ proc' = "running"
  /\ offer' = NoDecision
  /\ exit_code' = -1
  /\ printed' = "nothing"
  /\ supersteps' = 0
  /\ calls' = [f \in Fields |-> 0]
  /\ crashes' = 0

(* What _has_suspended_run answers: the thread has any stored values.      *)
has_suspended_run == node # "none"

(***************************************************************************)
(* main --resume: the invocation continues at the node the checkpoint      *)
(* names.  A finished thread has none: invoke returns the stored values.   *)
(***************************************************************************)
(* Seeded fault: a thread closed for human review can be reviewed again.   *)
resume_reopens_review ==
  /\ proc = "down"
  /\ has_suspended_run
  /\ \E decision \in Decisions : offer' = decision
  /\ node' = IF status = "HUMAN_REVIEW_REQUIRED" THEN "hitl_fallback" ELSE node
  /\ proc' = IF node' = "END" THEN "reporting" ELSE "running"
  /\ exit_code' = -1
  /\ printed' = "nothing"
  /\ UNCHANGED <<suspended, document, history>>

resume_document ==
  /\ proc = "down"
  /\ has_suspended_run
  /\ \E decision \in Decisions : offer' = decision
  /\ proc' = IF node = "END" THEN "reporting" ELSE "running"
  /\ exit_code' = -1
  /\ printed' = "nothing"
  /\ UNCHANGED <<thread, history>>

(***************************************************************************)
(* Invocations that end before they reach the graph and leave every thread *)
(* as it was: argparse's exit for a usage error, SystemExit with a message *)
(* for a bad configuration, an image that is not there, a thread nobody    *)
(* knows or a --correct without "=", and any exception on the way.         *)
(***************************************************************************)
TurnedAway(code, output) ==
  /\ proc = "down"
  /\ exit_code' = code
  /\ printed' = output
  /\ UNCHANGED <<thread, proc, offer, history>>

usage_error         == TurnedAway(2, "message")
configuration_error == TurnedAway(1, "message")
image_not_found     == TurnedAway(1, "message")
resume_refused      == ~has_suspended_run /\ TurnedAway(1, "message")
correction_refused  == has_suspended_run /\ TurnedAway(1, "message")
startup_raises      == TurnedAway(1, "traceback")

turned_away ==
  \/ usage_error
  \/ configuration_error
  \/ image_not_found
  \/ resume_refused
  \/ correction_refused
  \/ startup_raises

(* The end of main: _report_interrupt, then the stored status.             *)
(* Seeded fault: the pending interrupt is not looked at.                   *)
exit_code_of_status(pending, outcome) ==
  IF outcome = "VALIDATED" THEN 0 ELSE 1

ExitCode(pending, outcome) ==
  IF pending THEN 2 ELSE IF outcome = "VALIDATED" THEN 0 ELSE 1

report ==
  /\ proc = "reporting"
  /\ proc' = "down"
  /\ offer' = NoDecision
  /\ exit_code' = ExitCode(suspended, status)
  /\ printed' = IF exit_code' = 2 THEN "review" ELSE "document"
  /\ UNCHANGED <<thread, history>>

(***************************************************************************)
(* A kill, which leaves no exit code, or an exception no node catches,     *)
(* which is code 1, at any point of an invocation: the thread stays where  *)
(* the last superstep left it.  The re-reads the lost superstep had        *)
(* already paid for stay on the bill.                                      *)
(***************************************************************************)
crash ==
  /\ proc # "down"
  /\ crashes < MaxCrashes
  /\ crashes' = crashes + 1
  /\ proc' = "down"
  /\ offer' = NoDecision
  /\ \/ UNCHANGED <<exit_code, printed>>
     \/ exit_code' = 1 /\ printed' = "traceback"
  /\ IF Running("crop_and_vlm_retry")
     THEN \E paid \in SUBSET Targets : Bill(paid)
     ELSE UNCHANGED calls
  /\ UNCHANGED <<thread, supersteps>>

Superstep ==
  \/ preprocess_node
  \/ extraction_node
  \/ validation_node
  \/ crop_and_vlm_retry_node
  \/ hitl_fallback_suspends
  \/ apply_human_review

Next ==
  \/ run_document
  \/ resume_document
  \/ turned_away
  \/ Superstep
  \/ report
  \/ crash

Spec == Init /\ [][Next]_vars

(* A live process keeps working: nothing is asked of the operator, who may *)
(* never start or resume a run.                                            *)
FairSpec == Spec /\ WF_vars(Superstep) /\ WF_vars(report)

-----------------------------------------------------------------------------
(* What the tools say about the document is what the state says: a failure *)
(* list the retry or the operator works from was computed from the very    *)
(* data they see, and no path, an operator's approval included, leads to   *)
(* VALIDATED while a tool still objects.                                   *)
FailuresAreCurrent ==
  /\ node \in {"crop_and_vlm_retry", "hitl_fallback"} =>
       failed_fields = validate_document(extracted_data) /\ failed_fields # {}
  /\ status = "HUMAN_REVIEW_REQUIRED" =>
       failed_fields = validate_document(extracted_data)
  /\ status = "VALIDATED" =>
       failed_fields = {} /\ validate_document(extracted_data) = {}

(* A human is called only when the machine has nothing left to try: every  *)
(* failing field was declared unreadable, or the retry budget is spent.    *)
EscalationJustified ==
  node = "hitl_fallback" =>
    failed_fields \subseteq flagged_fields \/ retry_count = MaxRetries + 1

(* The retry budget in money: however validation failures, errors and      *)
(* UNREADABLE answers interleave, no field is read again more often than   *)
(* MaxRetries times, plus once for every kill that lost a paid superstep.  *)
RetryBudget ==
  /\ retry_count <= MaxRetries + 1
  /\ \A f \in Fields : calls[f] <= MaxRetries + crashes

(* Documents that reached validation are in the schema's canonical form,   *)
(* whichever source patched them last, unless the schema refuses them.     *)
CanonicalData ==
  /\ \/ node \in {"validation", "crop_and_vlm_retry", "hitl_fallback"}
     \/ status \in {"VALIDATED", "HUMAN_REVIEW_REQUIRED"}
  /\ extracted_data \in Fitting
  => Canonical[extracted_data] = extracted_data

(* The exit codes of the CLI (0 validated, 1 not validated, 2 waiting for  *)
(* a human) of an invocation that gets to its report: a document is        *)
(* printed for a thread that is over and settled, with 0 exactly when it   *)
(* is validated, by every tool; a review with 2, for a thread that waits   *)
(* for an operator and has failing fields to show.  Nothing else exits     *)
(* with 0.  A 1 or a 2 with a message or a traceback comes from an         *)
(* invocation turned away or an exception, and says nothing of the thread. *)
ExitCodeHonest ==
  proc = "down" =>
    /\ exit_code = 0 => printed = "document"
    /\ printed = "document" =>
         /\ node = "END" /\ status # "PROCESSING"
         /\ exit_code = IF status = "VALIDATED" THEN 0 ELSE 1
         /\ exit_code = 0 => validate_document(extracted_data) = {}
    /\ printed = "review" => exit_code = 2 /\ suspended /\ failed_fields # {}

(* The longest run, operator included, commits 2 N + 4 supersteps.         *)
SuperstepBudget == supersteps <= SuperstepBound

(* A thread that reached END is final: resuming it, approving it or        *)
(* crashing while reporting on it changes nothing of the stored document;  *)
(* only a new run under the same thread id does.                           *)
ClosedIsFinal ==
  [][node = "END" /\ supersteps' # 0 => UNCHANGED thread]_vars

(* A field the VLM declared unreadable is never paid for again.            *)
FlaggedNeverReread ==
  [][\A f \in flagged_fields : calls'[f] <= calls[f]]_vars

(* A retry pass alters the fields it re-read and no other, although it     *)
(* pushes the whole document through the schema again.                     *)
RepairsAreLocal ==
  [][node = "crop_and_vlm_retry" /\ node' = "validation" =>
       \A f \in Fields \ Targets : extracted_data'[f] = extracted_data[f]]_vars

(* Every started invocation comes to an end and reports: the loop between  *)
(* validation and retry cannot run for ever, whatever the VLM answers.     *)
RunsReport == proc # "down" ~> proc = "down"

-----------------------------------------------------------------------------
(* The graph is a repair loop: whatever kills, resumes, new runs and mixed *)
(* answers interleave, a document is re-read only while a pass of the      *)
(* budget is left and only where a tool objects and no flag forbids it,    *)
(* and it reaches the operator only when one of these is missing.  The     *)
(* graph counts failed checks upwards, one ahead of the passes it made.    *)
Stage ==
  CASE node = "validation"         -> "checking"
    [] node = "crop_and_vlm_retry" -> "repairing"
    [] node = "hitl_fallback"      -> "handing over"
    [] node = "END"                -> "over"
    [] OTHER                       -> "reading"

PassesLeft ==
  CASE Stage \in {"reading", "checking"} -> MaxRetries - retry_count
    [] Stage = "repairing"               -> MaxRetries + 1 - retry_count
    [] OTHER                             -> 0

Loop == INSTANCE RepairLoop WITH
  stage <- Stage, data <- extracted_data, failed <- failed_fields,
  flagged <- flagged_fields, budget <- PassesLeft

RepairsInLoop == Loop!Spec

-----------------------------------------------------------------------------
(* main.py documents the test that admits a resume as one for a suspended  *)
(* run.                                                                    *)
ResumeMeansSuspended ==
  [][proc = "down" /\ offer' # NoDecision => suspended]_vars
=============================================================================
