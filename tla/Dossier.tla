------------------------------- MODULE Dossier -------------------------------
(***************************************************************************)
(* The dossier orchestrator (src/graph/orchestrator.py, src/graph/edges.py *)
(* and src/graph/nodes/consolidation.py): the file is clustered into       *)
(* logical documents, one worker per document runs concurrently with its   *)
(* siblings, their results are reduced into one channel and consolidated   *)
(* into a report.                                                          *)
(*                                                                         *)
(* Workers end in any order; what they wrote is applied when the last one  *)
(* has ended, in dispatch order.  A worker is what WorkerVerdicts promises *)
(* of it.  If durable, the graph is compiled with a checkpointer, so the  *)
(* channels of the thread survive the process and the next run_dossier     *)
(* under the same dossier_id writes its fresh input over them.             *)
(***************************************************************************)
EXTENDS PageGrouping, WorkerVerdicts

CONSTANTS
  FilePageTypes, (* bound: page types that occur in the files              *)
  MaxPages,      (* bound: pages of a file, without and with durability    *)
  MaxRuns        (* bound: calls of run_dossier under one dossier_id       *)

ASSUME DossierAssumption ==
  /\ FilePageTypes \subseteq PageTypes
  /\ MaxPages \in [BOOLEAN -> Nat]
  /\ MaxRuns \in Nat

VARIABLES
  durable,               (* a durable checkpointer was passed to compile   *)
  node,                  (* next node, or "END"                            *)
  raw_pages,             (* types of the pages of the file                 *)
  grouped_documents,
  processed_documents,   (* reduce channel, operator.add                   *)
  dossier_status,
  errors,                (* LastValue channel, no reducer                  *)
  verdicts,              (* of the workers of the running superstep        *)
  proc,                  (* "down" or "running"                            *)
  outcome,               (* of the last call: "none", "report", or what    *)
                         (* raised: "clustering" or "fan_in"               *)
  runs,                  (* history                                        *)
  earlier                (* history: results in the channel when the call  *)
                         (* began                                          *)

thread  == <<node, raw_pages, grouped_documents, processed_documents,
             dossier_status, errors>>
history == <<runs, earlier, durable>>
vars    == <<thread, verdicts, proc, outcome, history>>

FilePages == 1..MaxPages[durable]

(***************************************************************************)
(* _to_document_result: the projection of a finished worker onto the       *)
(* published contract.  A document with no value at all is never a success.*)
(***************************************************************************)
(* Seeded fault: a trivially validated document is published as a success. *)
success_if_validated(verdict) ==
  IF verdict.status = "FAILED" THEN "FAILED"
  ELSE IF verdict.unresolved # {} THEN "REQUIRES_MANUAL_ENTRY"
  ELSE "SUCCESS"

(* Seeded fault: the worker's own status is published.                     *)
worker_status(verdict) == verdict.status

ResultStatus(verdict) ==
  IF verdict.status = "FAILED" THEN "FAILED"
  ELSE IF \/ verdict.unresolved # {}
          \/ verdict.status = "REQUIRES_MANUAL_ENTRY"
          \/ verdict.filled \ verdict.unresolved = {}
       THEN "REQUIRES_MANUAL_ENTRY"
       ELSE "SUCCESS"

EveryField == "*"

UnresolvedFields(verdict) ==
  IF /\ verdict.status = "VALIDATED"
     /\ verdict.unresolved = {}
     /\ verdict.filled = {}
  THEN {EveryField}
  ELSE verdict.unresolved

to_document_result(document, verdict) ==
  [document   |-> document,
   status     |-> ResultStatus(verdict),
   successful |-> verdict.filled \ verdict.unresolved,
   unresolved |-> UnresolvedFields(verdict)]

(* document_worker_node: a worker that raised is a FAILED document.        *)
WorkerResult(document, verdict) ==
  IF verdict = Raised
  THEN [document |-> document, status |-> "FAILED", successful |-> {},
        unresolved |-> {}]
  ELSE to_document_result(document, verdict)

(* Seeded fault: a crashed worker publishes nothing.                       *)
results_of_survivors(documents, ended) ==
  SelectSeq([i \in DOMAIN documents |-> WorkerResult(i, ended[i])],
            LAMBDA result : ended[result.document] # Raised)

(* Every worker returns a list of one result, added in dispatch order.     *)
Results(documents, ended) ==
  [i \in DOMAIN documents |-> WorkerResult(i, ended[i])]

(* The workers whose update carries the "errors" key.                      *)
ErrorWriters(ended) == {i \in DOMAIN ended : ended[i] = Raised}

(***************************************************************************)
(* consolidation: the verdict of the dossier from those of its documents.  *)
(***************************************************************************)
StatusesOf(results) == {results[i].status : i \in DOMAIN results}

(* Seeded fault: one failed document fails the dossier.                    *)
resolve_any_failed(results, had_documents) ==
  IF ~had_documents \/ results = << >> THEN "FAILED"
  ELSE IF StatusesOf(results) = {"SUCCESS"} THEN "COMPLETED"
  ELSE IF "FAILED" \in StatusesOf(results) THEN "FAILED"
  ELSE "REQUIRES_REVIEW"

(* Seeded fault: only a dossier without documents is a failure.            *)
resolve_never_all_failed(results, had_documents) ==
  IF ~had_documents \/ results = << >> THEN "FAILED"
  ELSE IF StatusesOf(results) = {"SUCCESS"} THEN "COMPLETED"
  ELSE "REQUIRES_REVIEW"

resolve_dossier_status(results, had_documents) ==
  IF ~had_documents \/ results = << >> THEN "FAILED"
  ELSE IF StatusesOf(results) = {"SUCCESS"} THEN "COMPLETED"
  ELSE IF StatusesOf(results) = {"FAILED"} THEN "FAILED"
  ELSE "REQUIRES_REVIEW"

-----------------------------------------------------------------------------
Result == [document: FilePages,
           status: {"SUCCESS", "REQUIRES_MANUAL_ENTRY", "FAILED"},
           successful: SUBSET Fields,
           unresolved: SUBSET (Fields \cup {EveryField})]

Errors == [source: {"payload", "page", "worker"}, index: {0} \cup FilePages]

TypeOK ==
  /\ durable \in BOOLEAN
  /\ node \in {"smart_clustering", "document_worker", "consolidation", "END"}
  /\ raw_pages \in Seq(PageTypes)
  /\ Len(grouped_documents) \in {0} \cup FilePages
  /\ processed_documents \in Seq(Result)
  /\ dossier_status \in {"PROCESSING", "COMPLETED", "REQUIRES_REVIEW",
                         "FAILED"}
  /\ errors \subseteq Errors
  /\ verdicts \in Seq(Verdicts \cup {Raised, NoVerdict})
  /\ Len(verdicts) \in {0, Len(grouped_documents)}
  /\ proc \in {"down", "running"}
  /\ outcome \in {"none", "report", "clustering", "fan_in"}
  /\ runs \in 0..MaxRuns
  /\ earlier \in 0..Len(processed_documents)

Init ==
  /\ durable \in BOOLEAN
  /\ node = "END"
  /\ raw_pages = << >>
  /\ grouped_documents = << >>
  /\ processed_documents = << >>
  /\ dossier_status = "PROCESSING"
  /\ errors = {}
  /\ verdicts = << >>
  /\ proc = "down"
  /\ outcome = "none"
  /\ runs = 0
  /\ earlier = 0

(***************************************************************************)
(* run_dossier over initial_dossier_state.  The fresh values overwrite the *)
(* LastValue channels; the empty list is *added* to processed_documents.   *)
(***************************************************************************)
run_dossier ==
  /\ proc = "down"
  /\ runs < MaxRuns
  /\ runs' = runs + 1
  /\ proc' = "running"
  /\ outcome' = "none"
  /\ node' = "smart_clustering"
  /\ raw_pages' = << >>
  /\ grouped_documents' = << >>
  /\ processed_documents' = IF durable THEN processed_documents ELSE << >>
  /\ dossier_status' = "PROCESSING"
  /\ errors' = {}
  /\ verdicts' = << >>
  /\ earlier' = Len(processed_documents')
  /\ UNCHANGED durable

Running(n) == proc = "running" /\ node = n

dispatch_documents(documents) ==
  IF documents = << >> THEN "consolidation" ELSE "document_worker"

(* An empty payload, or a file that cannot be rasterised.                  *)
smart_clustering_fails ==
  /\ Running("smart_clustering")
  /\ raw_pages' = << >>
  /\ grouped_documents' = << >>
  /\ dossier_status' = "FAILED"
  /\ errors' = errors \cup {[source |-> "payload", index |-> 0]}
  /\ node' = dispatch_documents(grouped_documents')
  /\ UNCHANGED <<processed_documents, verdicts, proc, outcome, history>>

(* The file split into documents, with a warning for each page that could  *)
(* not be classified.                                                      *)
smart_clustering_node ==
  /\ Running("smart_clustering")
  /\ \E n \in FilePages : \E types \in [1..n -> FilePageTypes] :
       /\ raw_pages' = types
       /\ grouped_documents' = group_pages_into_logical_docs(types)
       /\ \E warned \in SUBSET {p \in 1..n : types[p] = "UNKNOWN"} :
            errors' = errors \cup [source: {"page"}, index: warned]
  /\ dossier_status' = "PROCESSING"
  /\ node' = dispatch_documents(grouped_documents')
  /\ verdicts' = [i \in DOMAIN grouped_documents' |-> NoVerdict]
  /\ UNCHANGED <<processed_documents, proc, outcome, history>>

(* An exception other than those the node handles leaves run_dossier.      *)
smart_clustering_raises ==
  /\ Running("smart_clustering")
  /\ proc' = "down"
  /\ outcome' = "clustering"
  /\ UNCHANGED <<thread, verdicts, history>>

(* One worker ends; its siblings are anywhere in their own work.           *)
document_worker_node(i) ==
  /\ Running("document_worker")
  /\ verdicts[i] = NoVerdict
  /\ \E verdict \in Verdicts \cup {Raised} :
       verdicts' = [verdicts EXCEPT ![i] = verdict]
  /\ UNCHANGED <<thread, proc, outcome, history>>

(* Seeded fault: the superstep waits for every worker to return a state.   *)
settled_unless_raised(ended) ==
  \A i \in DOMAIN ended : ended[i] \notin {NoVerdict, Raised}

Settled(ended) == \A i \in DOMAIN ended : ended[i] # NoVerdict

(***************************************************************************)
(* The fan-in: LangGraph applies the updates of a superstep once all of    *)
(* its workers have ended.  A LastValue channel takes one write per        *)
(* superstep.                                                              *)
(***************************************************************************)
fan_in ==
  /\ Running("document_worker")
  /\ Settled(verdicts)
  /\ Cardinality(ErrorWriters(verdicts)) <= 1
  /\ processed_documents' =
       processed_documents \o Results(grouped_documents, verdicts)
  /\ errors' = IF ErrorWriters(verdicts) = {} THEN errors
               ELSE [source: {"worker"}, index: ErrorWriters(verdicts)]
  /\ node' = "consolidation"
  /\ verdicts' = << >>
  /\ UNCHANGED <<raw_pages, grouped_documents, dossier_status, proc, outcome,
                 history>>

(* Two writes raise InvalidUpdateError out of run_dossier.                 *)
fan_in_raises ==
  /\ Running("document_worker")
  /\ Settled(verdicts)
  /\ Cardinality(ErrorWriters(verdicts)) > 1
  /\ proc' = "down"
  /\ outcome' = "fan_in"
  /\ verdicts' = << >>
  /\ UNCHANGED <<thread, history>>

(* The consolidation node, and the return of run_dossier behind it.        *)
consolidation_node ==
  /\ Running("consolidation")
  /\ dossier_status' =
       IF dossier_status = "FAILED" /\ processed_documents = << >>
       THEN "FAILED"
       ELSE resolve_dossier_status(processed_documents,
                                   grouped_documents # << >>)
  /\ node' = "END"
  /\ proc' = "down"
  /\ outcome' = "report"
  /\ UNCHANGED <<raw_pages, grouped_documents, processed_documents, errors,
                 verdicts, history>>

(* The process is killed; workers that had ended lose their results.       *)
crash ==
  /\ proc = "running"
  /\ proc' = "down"
  /\ verdicts' = << >>
  /\ UNCHANGED <<thread, outcome, history>>

Progress ==
  \/ smart_clustering_fails
  \/ smart_clustering_node
  \/ smart_clustering_raises
  \/ \E i \in DOMAIN verdicts : document_worker_node(i)
  \/ fan_in
  \/ fan_in_raises
  \/ consolidation_node

Next ==
  \/ run_dossier
  \/ Progress
  \/ crash

Spec == Init /\ [][Next]_vars

(* A live process keeps working; every worker ends (WorkerContract).       *)
FairSpec == Spec /\ WF_vars(Progress)

-----------------------------------------------------------------------------
Reported == outcome = "report"

(* Map and reduce lose nothing and invent nothing: every page of the file  *)
(* is in exactly one document, and whatever order the workers end in, with *)
(* one of them crashing and after runs that were killed at any point, the  *)
(* call adds exactly one result for each document, in dispatch order.  In  *)
(* front of them stand the results a durable thread kept of earlier calls; *)
(* any other thread has none, so its report holds one result per document. *)
NothingLost ==
  Reported =>
    /\ Claimed(grouped_documents) = DOMAIN raw_pages
    /\ \A i, j \in DOMAIN grouped_documents :
         i # j => PagesOf(grouped_documents[i]) \cap PagesOf(grouped_documents[j]) = {}
    /\ Len(processed_documents) = earlier + Len(grouped_documents)
    /\ \A i \in DOMAIN grouped_documents :
         processed_documents[earlier + i].document = i
    /\ ~durable => earlier = 0

(* The status is a promise to a caller who reads nothing else.  COMPLETED: *)
(* there was a file, no worker of the thread failed, nothing is left to an *)
(* operator and every document carries at least one value.  FAILED: either *)
(* this call found no document, and the report is empty but for documents  *)
(* a durable thread kept of earlier calls, successful ones perhaps; or it  *)
(* has documents and none of them, earlier ones included, offers a value.  *)
(* REQUIRES_REVIEW: some document is not a success, and some document has  *)
(* a value or a field for the operator to work on.                         *)
DossierStatusHonest ==
  /\ dossier_status = "COMPLETED" =>
       /\ grouped_documents # << >>
       /\ \A i \in DOMAIN processed_documents :
            /\ processed_documents[i].status # "FAILED"
            /\ processed_documents[i].unresolved = {}
            /\ processed_documents[i].successful # {}
  /\ Reported /\ dossier_status = "FAILED" =>
       IF grouped_documents = << >>
       THEN durable \/ processed_documents = << >>
       ELSE /\ processed_documents # << >>
            /\ \A i \in DOMAIN processed_documents :
                 processed_documents[i].successful = {}
  /\ dossier_status = "REQUIRES_REVIEW" =>
       /\ grouped_documents # << >>
       /\ \E i \in DOMAIN processed_documents :
            processed_documents[i].status # "SUCCESS"
       /\ \E i \in DOMAIN processed_documents :
            \/ processed_documents[i].successful # {}
            \/ processed_documents[i].unresolved # {}

(* The call always returns: every run reports, raises or is killed.        *)
RunsEnd == proc = "running" ~> proc = "down"

-----------------------------------------------------------------------------
(* The README: one bad document does not sink the dossier, a crashing      *)
(* worker returns a FAILED document and every sibling still completes.     *)
BadDocumentsDoNotSink == outcome # "fan_in"
=============================================================================
