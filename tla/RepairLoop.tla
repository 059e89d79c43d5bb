----------------------------- MODULE RepairLoop -----------------------------
(***************************************************************************)
(* What the single document graph and the dossier worker have in common:   *)
(* a document is read, checked, repaired field by field as long as a       *)
(* budget lasts, and handed to an operator when it does not pass.  The     *)
(* budget counts down here; how a graph keeps it (a counter of failed      *)
(* checks, compared after it was incremented) and where it keeps its       *)
(* position are its own business.  Both graphs implement this loop.        *)
(***************************************************************************)
EXTENDS FieldRetry

VARIABLES
  stage,      (* "reading", "checking", "repairing", "handing over", "over" *)
  data,
  failed,     (* what the last check objected to                           *)
  flagged,    (* fields no pass will read again                            *)
  budget      (* repair passes left                                        *)

vars == <<stage, data, failed, flagged, budget>>

Fresh ==
  /\ stage = "reading"
  /\ data = NoData
  /\ failed = {}
  /\ flagged = {}
  /\ budget = MaxRetries

Init == Fresh

(* A document enters the loop in the form the schema gives it.             *)
Read ==
  /\ stage = "reading"
  /\ \E reading \in Fitting : data' = Canonical[reading]
  /\ stage' = "checking"
  /\ UNCHANGED <<failed, flagged, budget>>

(* A check passes, or leads to a repair exactly when there is a field left *)
(* to repair and a pass left to spend.                                     *)
Check ==
  /\ stage = "checking"
  /\ failed' = validate_document(data)
  /\ \/ /\ failed' = {}
        /\ stage' = "over" /\ budget' = 0
     \/ /\ Retryable(failed', flagged) # {} /\ budget > 0
        /\ stage' = "repairing" /\ UNCHANGED budget
     \/ /\ failed' # {}
        /\ Retryable(failed', flagged) = {} \/ budget = 0
        /\ stage' = "handing over" /\ budget' = 0
  /\ UNCHANGED <<data, flagged>>

(* A pass reads again what failed and is not flagged, and nothing else; it *)
(* patches the document or gives fields up, and costs one of the budget.   *)
Repair ==
  /\ stage = "repairing" /\ budget > 0
  /\ \E answers \in [Retryable(failed, flagged) -> Answers] :
       /\ data' = Repaired(data, Repairs(answers))
       /\ flagged' = flagged \cup
            {f \in DOMAIN answers : answers[f] = Unreadable}
  /\ stage' = "checking"
  /\ budget' = budget - 1
  /\ UNCHANGED failed

(* The operator's side: a document may be corrected before it leaves, and  *)
(* what leaves is checked once more.  Everything the operator was shown    *)
(* stays flagged; flags are lifted only from a document that passes.       *)
HandOver ==
  /\ stage = "handing over"
  /\ stage' = "over"
  /\ data' \in Data
  /\ failed' = validate_document(data')
  /\ \/ flagged' = flagged \cup failed
     \/ failed' = {} /\ flagged' = {}
  /\ UNCHANGED budget

(* A provider or an adapter that fails for good ends the loop.             *)
Abandon ==
  /\ stage \in {"reading", "repairing"}
  /\ stage' = "over" /\ budget' = 0
  /\ UNCHANGED <<data, failed, flagged>>

(* The next document, whatever the state of this one.                      *)
Restart == Fresh'

Next == Read \/ Check \/ Repair \/ HandOver \/ Abandon \/ Restart

Spec == Init /\ [][Next]_vars
=============================================================================
