----------------------------- MODULE FieldRetry -----------------------------
(***************************************************************************)
(* What a retry pass does to a document, common to the single document     *)
(* graph and to the dossier worker (the two nodes repeat the code line by  *)
(* line).                                                                  *)
(*                                                                         *)
(* Definitions whose comment says "Seeded fault" are wrong on purpose: a   *)
(* property is trusted once it is seen to fail with the fault in place.    *)
(* They are part of no specification.                                      *)
(***************************************************************************)
EXTENDS ValidationTools, Integers

CONSTANTS
  MaxRetries,    (* WorkflowPolicy.max_retries                             *)
  Unreadable,    (* the answer UNREADABLE_TOKEN of a VLM                   *)
  ReadError      (* a re-read that raised VLMProviderError or ValueError   *)

ASSUME FieldRetryAssumption ==
  /\ MaxRetries \in Nat
  /\ Unreadable \notin Values
  /\ ReadError \notin Values \cup {Unreadable}

(* Seeded fault: the flags are not consulted.                              *)
retry_everything(failed, flagged) == failed

Retryable(failed, flagged) == failed \ flagged

(***************************************************************************)
(* What analyze_roi_crop may answer.  sanitize_scalar_response turns every *)
(* empty answer into the token, so a reading is never blank.               *)
(***************************************************************************)
Answers == (Values \ {Blank}) \cup {Unreadable, ReadError}

(* Seeded fault: no `continue` after a field was flagged unreadable.       *)
repairs_keep_the_token(answers) ==
  [f \in {g \in DOMAIN answers : answers[g] # ReadError} |-> answers[f]]

Repairs(answers) ==
  [f \in {g \in DOMAIN answers : answers[g] \in Values} |-> answers[f]]

(* Seeded fault: raw model output is stored without renormalising it.      *)
repaired_without_schema(data, repairs) == Patched(data, repairs)

(* Seeded fault: the repairs replace the document instead of patching it.  *)
repaired_over_nothing(data, repairs) ==
  IF DOMAIN repairs = {} THEN data ELSE renormalize(Patched(NoData, repairs))

Repaired(data, repairs) ==
  IF DOMAIN repairs = {} THEN data ELSE renormalize(Patched(data, repairs))

(* History counters stop one past the largest value the model cares for.   *)
Count(n, bound) == IF n <= bound THEN n + 1 ELSE n
=============================================================================
