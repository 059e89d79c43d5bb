# ImageExtractor: specifications, model checks and proofs

ImageExtractor reads documents: it photographs a page, lets an OCR provider or a
vision model (VLM) extract the fields of a schema, checks them with deterministic
tools, and has the VLM re-read, crop by crop, the fields that fail. Two LangGraph
workflows share that idea:

- the **single document** workflow, driven by `main.py --image` and
  `main.py --resume`, ends at a human operator when the re-reads do not help, and
  lives in a durable checkpointer between invocations;
- the **dossier** engine, `main.py --dossier`, splits a PDF into logical documents,
  processes them in parallel and headless, and reports what an operator has to do.

This directory models both, together with the rules, parsers, adapters and wiring they
work with, checks them with TLC on small instances and proves with TLAPS, for every
instance, the central safety properties of both graphs that repair a document, of the clustering
and the orchestration around them, of the merge of the pages they read, of the crops they
re-read, of the parsers and business rules and what a re-read makes of their blame, of the
recovery of an answer from the text of a model, and of the clients their adapters share.

## Components

| component | source | state | operations | module | status |
|---|---|---|---|---|---|
| single document graph | `src/src/graph/workflow.py`, `graph/nodes/single_document.py`, `domain/state.py` | `OCRState` in the checkpointer | preprocess, extraction, validation, crop and retry, human fallback, and their routers | `SingleDocument` | modelled |
| command line | `src/main.py` | the process: what it was asked, its exit code | run, resume, refuse, report | `SingleDocument`, `Clients` | partly |
| validation tools | `domain/validation_tools.py` | none | `validate_document`, the registered field and business rules, `parse_date` | `ValidationTools`, `DocumentRules`, `Dates`, `BusinessRules` | modelled |
| domain schemas | `domain/models/` | none | `parse_decimal`, normalisation, mapping of extracted entries, geometry of a box | `Amounts`, `BusinessRules`, `ValidationTools`, `PageMerge`, `CropGeometry`, `MCInvoice` | partly |
| dossier worker | `graph/worker_graph.py`, `graph/nodes/{router,_shared,worker_validation,vlm_retry,unresolved_handler}.py`, `domain/worker_state.py` | `DocumentWorkerState` of one invocation | router, two extraction branches, validation, retry, hand-over | `DocumentWorker` | modelled |
| dossier orchestrator | `graph/orchestrator.py`, `graph/edges.py`, `graph/nodes/consolidation.py`, `domain/orchestrator_state.py` | `DossierOrchestratorState` | clustering, dispatch, concurrent workers, reduction, consolidation | `Dossier` | modelled |
| smart clustering | `graph/nodes/smart_clustering.py` | page types, claimed pages, documents | classify a page, group a page | `PageGrouping`, `Clustering` | modelled |
| extraction port and page merge | `ports/extractor_port.py`, `adapters/extractors/native_vlm.py` | fields, boxes, pages of boxes | page by page and single call extraction, mapping, crop | `PageMerge` | partly |
| extraction adapters | `adapters/extractors/` | none but the client | what becomes of a service's answer | `ProviderResponses`, `CropGeometry` | partly |
| VLM port and adapters | `ports/vlm_port.py`, `adapters/vlm/` | the scan of one answer | recovery of a JSON object, answers of a re-read | `JsonRecovery`, `FieldRetry` | partly |
| composition root | `infrastructure/config.py` | lazy SDK clients and credentials | wiring, first use, close | `Wiring`, `Clients` | partly |
| workflow policy | `domain/policy.py` | none | `max_retries`, `strategy_for` | constants and choices | partly |
| preprocessing | `domain/preprocessing.py` | none | image arithmetic, cropping | `CropGeometry`; its three outcomes in `preprocess_node` | partly |
| PDF rasteriser | `ports/pdf_port.py`, `adapters/processors/` | none | render | its outcomes in `Clustering` | partly |
| prompts | `adapters/vlm/prompts.py` | none | text | - | not modelled |

**Interactions.** The command line invokes a compiled graph; LangGraph runs one node
per superstep, applies the returned update to the state channels, evaluates the
router and, with a checkpointer, saves. The orchestrator's fan-out starts one worker
per logical document in a thread of its own; every worker shares the extraction
adapters and the VLM, so their lazily created clients are shared state. Worker
updates are applied together when all have ended, through `operator.add` for
`processed_documents` and as a plain value for `errors`.

**What is hard.** A process killed between two supersteps, or inside one whose VLM
calls are already paid; threads resumed although they are not suspended; failure
lists, flags and data written by different nodes; a retry budget compared off by
one; repairs that make other fields fail; workers that end in any order and several
of which crash; a dossier id used twice; pages of one card scattered through a file;
boxes and pages of a field picked by different functions; fields a service mentions
several times on one page; amounts and dates in conventions that contradict each
other; rules that compare fields and blame one of them; answers of a model cut off in
the middle of the object; check-then-create races on clients that adapters share and
borrow; clamping, padding and rounding of thin boxes near the edge of a page.
`PROJECT.json` lists each at its line with the properties that cover it.

**What makes each part correct.**

- Single document graph and command line: retry and superstep budgets hold whatever a
  kill interrupts; the failure list a decision rests on is that of the stored data; a
  human is called only when machines can do no more; a document or a review that is printed
  and its exit code agree with the checkpoint; a closed thread stays closed; every invocation
  reports.
- Dossier worker: `VALIDATED` and `REQUIRES_MANUAL_ENTRY` are honest, the hand-over
  names every field an operator has to look at, and its caller gets one verdict.
- Clustering: every page is in exactly one document, ids are unique, the two sides of
  as many cards as possible are reunited.
- Orchestrator: one worker's failure costs no sibling's result, and the dossier status
  can be read without reading the documents.
- Page merge and geometry: the first value read wins and none is lost; a re-read looks
  at the page, and at the region of it, where the field is.
- Rules and parsers: what is printed is what is read, in every convention; a right
  document is not blamed, a wrong one is not accepted, and the blame falls on a field
  whose re-read heals it.
- JSON recovery: the first object of an answer is found, whatever is around it.
- Wiring and clients: a client in use is open, and the teardown releases what was
  created, once each, whatever adapters a configuration combines.

## Modules and the code

`ValidationTools` defines what a document is: a total function from fields to
readings, `Blank` for a missing one, with a registry of field rules and business
rules as data, and a schema given by the documents it accepts (`Fitting`) and their
normal forms. `Canonical` is assumed idempotent, which is what running the validators on
their own output does, save for the tiny amounts listed below, which are stored in scientific
notation; to look at one field at a
time, as every `field_validator` does; and to refuse no text of a field the tools name:
what a schema can refuse is the shape of `line_items`, which no rule blames. `FieldRetry` adds what one retry pass does to a
document; both graphs use it because their nodes repeat that code.

`RepairLoop` is the abstract specification of what the two graphs have in common: read,
check, repair what failed and is not flagged while a budget lasts, hand over what does
not pass. Its budget counts down. `SingleDocument` and `DocumentWorker` implement it
under the refinement mapping `Stage` and `PassesLeft`: the position of each graph is its
node, and the passes left are `MaxRetries - retry_count`, one more between a failed check
and the pass it pays for, because the code counts the failure before it compares. The
property `RepairsInLoop` of each is `RepairLoop!Spec` under that mapping.

`SingleDocument` has one variable per channel of `OCRState` that a decision depends
on, `node` and `suspended` for the checkpoint, `proc`, `offer`, `exit_code` and `printed` for
the process, and three history variables. Each node and the router behind it are one
action, since LangGraph commits them together. `crash` stops the process anywhere:
the thread stays at the last commit, and only the bill of the lost superstep
remains; it stands for a kill, which leaves no exit code, and for an exception no node
catches, which exits with 1 and a traceback, and with an
asynchronously written checkpoint it is a crash one superstep earlier. `turned_away` is an
invocation that ends before the graph: a usage error, a bad configuration, an image that is
not there, a thread nobody knows, a `--correct` without "=", an exception while starting. `resume_document`
continues at the node of the checkpoint with a resume value only the first superstep
sees, which is how LangGraph treats `Command(resume=...)` on a thread that is not
suspended. One process at a time works on a thread.

`DocumentWorker` has the nodes of the headless subgraph as actions and
`adapter_raises` for exceptions that escape it. `WorkerVerdicts` names the final
states a caller has to expect, `WorkerContract` is the abstract specification: one
verdict out of `Verdicts`, or `Raised`, returned once and without help.
`DocumentWorker!KeepsContract` is that specification under the refinement mapping
`Outcome`; the mapping is from the worker's variables to the one verdict the
orchestrator reads, and `Dossier` uses the same `Verdicts` as its workers'
nondeterminism, so the two compose.

`PageGrouping` holds the grouping operators, written with recursive functions.
`Clustering` runs them loop iteration by loop iteration behind the classifier, whose
exceptions it catches or not (`node_raises`);
`Dossier` uses the result of the whole loop. `Dossier` models the orchestrator:
`document_worker_node(i)` lets workers end in any order, `fan_in` applies their
updates in dispatch order, `fan_in_raises` is LangGraph's `InvalidUpdateError` for
two writes to a channel without a reducer, `smart_clustering_raises` an exception its node
does not handle, `run_dossier` starts again under the same
dossier id, and if `durable` finds the channels of the earlier run. Two history variables tell
what a call adds from what it found: `earlier` counts the results in the channel when it began.

`PageMerge` follows a value and its box from the page of the provider through
`extract_pages`, `from_extraction` and `page_by_field` to the raster the retry node
crops. An entry is reduced to where it was read, where it was located and which page
its box names. `ProviderResponses` has what the adapters make of the answer of each service,
Azure's documents, Textract's lists and graph of blocks, Google's nested entities: which
mentions are skipped, which of several with one name is kept, which of several values and
places counts. `PageMerge` extends it and reads each page through it. `CropGeometry` takes a box from what each provider reports (`from_polygon`,
Textract's `to_bounding_box`, `from_normalized_vertices`) through the tuple in the state
to the pixels `crop_region` hands to the VLM, in exact integers, one span per axis.

`Amounts` and `Dates` are the parsers. An amount is a text of digits, separators and
signs: `parse_decimal` decides between the notations as the code does, `Stored` is what
the schema writes back into the state, and `Printed` writes an amount in a convention,
which is how the parser is checked against what was meant. `DocumentRules` has the rules
registered for the three document types, each with the field it blames.
`BusinessRules` sends consistent documents through them: printed, read with at most one
field wrong, normalised, checked, and what is blamed is read again as it is printed. It is
the retry loop seen from the data, where `SingleDocument` has it for arbitrary rules.

`JsonRecovery` runs `extract_json_object` character by character over answers made of
braces, quotes, backslashes, keys and numbers; what `json.loads` accepts is a recursive
function on spans of the answer (`IsObject`), against which the scan is checked.

`Wiring` is `build_dependencies` as operators on the settings: which adapters there are,
which are one object, which borrow the vision model, and in which order `close` meets them.
`Clients` extends it with the property `client` of the adapters, one step per access to the
shared attributes, and follows every client and credential of a configuration from the
building of the dependencies to the end of `Dependencies.close`.

Definitions whose comment says "Seeded fault" are wrong on purpose. Each replaces
one definition of the code's model, and the property listed with it in
`PROJECT.json` then fails: this is how the properties are tested. They are in no
specification.

## Runs

| run | bounds | what it shows |
|---|---|---|
| `single_document` | 3 fields, 2 prices, `MaxRetries` 2, one kill, five operator decisions; 73429 states | budgets, current failure lists, justified escalations, canonical data, honest exit codes, finality of closed threads, no re-read of flagged fields, local repairs, refinement of `RepairLoop`, and termination |
| `resume_means_suspended` | as `single_document`, `MaxRetries` 1 | violated: `--resume` accepts any known thread |
| `document_worker` | 3 fields, 3 prices, `MaxRetries` 2; 6889 states | honest verdicts, complete hand-over, refinement of `RepairLoop` and of `WorkerContract` |
| `clustering` | files of up to 6 pages, six kinds of answer; 403107 states | pages partitioned, ids unique, pairs are cards, pairing maximum |
| `dossier` | 2 runs; volatile with 3 pages and up to 3 workers, durable with 2; 109154 states | every page in one document and every document with one new result, an honest dossier status, every run ends, also when a thread is used again |
| `bad_documents_do_not_sink` | as `dossier` | violated: two crashed workers sink the dossier |
| `page_merge` | 2 pages, three provider names, two of them aliases, 4022 small answers of five APIs; 222811 states | the earliest reading is kept and none is lost, crops from the page of the box |
| `boxes_on_their_page` | as `page_merge` | violated: the grounding branch crops page 0 |
| `crop_geometry` | 2 axes, page of 40 units, polygons from -10 to 50, rasters of 1 to 7 pixels; 42256 states | a field on the page has a crop with pixels, which shows it |
| `clients` | 6 configurations, main and 2 workers, 2 uses each; 1331016 states | clients in use stay open, what is held is open, leaks have a cause |
| `business_rules` | 128 invoices by amount and 42 by date, 84 cards, half of them with sex X, and 14 proofs of address, in 4 notations and 7 date layouts, one misreading, 2 passes; 38949 states | conventions are read as meant, right documents pass but for cards that print X, wrong ones do not beyond the stated exceptions, and one pass heals all but the witnesses |
| `json_recovery` | answers of up to 5 of 8 pieces; 263420 states | the first object of an answer is returned, and only an answer without one raises |

**Why the bounds are enough.** The invoice of `MCInvoice` has a chain of two business
rules over three fields, the shortest in which repairing a field makes another one
fail and then pass, with readings that are canonical, not canonical, unparsable and
blank, and line items the schema refuses. Two retry passes tell a budget from an
off-by-one and from a flag; one kill already separates paid from committed work.
Six pages hold two cards with two fronts competing for their backs and unrelated
pages between. Two workers suffice for a conflict, the third is a survivor. Two
pages and two aliases give every order of value, empty value and box; the answers of the
services have two mentions, of Google three, and lead to every sequence of three entries a
page can contribute. The documents of `MCBusinessRules` have amounts without and
with thousands separators, a negative and a round one, sums off by a rounded cent,
discounts present and absent, leap days, both centuries of a CURP and a misreading that
confuses them, a printed sex X with either kind of CURP; amounts are misread by losing what
follows the decimal separator, whatever stands behind them; a second pass tells
what one pass heals from what none does. Five pieces hold an object inside another one
behind a brace of the prose, with an escaped quote or a brace in a string. The six
configurations have every way adapters can be one object, two of a kind, borrowed, or
only dropped. A polygon may
be empty, lie on the page, reach over either edge or lie outside, on rasters smaller
and larger than a unit of the page, so rounding goes both ways and a crop may need
its guaranteed pixel. What these documents exemplify, `BusinessRulesAssumption` says of all
those the proofs are about, and TLC evaluates it on them.
Counters that only record history stop one past the largest value a property
mentions (`Count`); `MaxCrashes`, `MaxRuns`, `MaxPages` and `MaxUses` are the other
bounds, named where they are declared.

**Fairness.** `SingleDocument` assumes weak fairness of the supersteps and of the
report of a live process: `invoke` is a synchronous loop and every provider call has a
timeout. Nothing is assumed of the operator, of `run_document` or of `resume_document`.
The worker is one synchronous call, and a dossier run makes progress while its process
lives; a worker ends because the worker refines its contract. `Clients`, `Clustering`,
`CropGeometry`, `PageMerge`, `BusinessRules` and `JsonRecovery` check safety only.

**Deadlock** is checked in the single document runs; in the others the system stops by
design when the worker, the node, the file, the answer or the process is done.

## Where code and documentation disagree

Each of these has a run whose counterexample shows it, listed under `findings`:

- `main.py:99` tests `bool(snapshot.values)` where its docstring promises a suspended
  run: a finished thread is accepted and its stored state reported again.
- `orchestrator.py:80` writes `errors`, a channel without a reducer, from parallel
  workers: two that crash in one dossier raise out of `run_dossier`.
- `native_vlm.py:265` tags every box of a multi page call with page 0.

Smaller ones were met on the way and have no run.

The graphs:

- `retry_count` ends at `max_retries + 1` although `domain/state.py:54` calls it capped by
  `max_retries` (`RetryBudget` states the true bound).
- The review payload always says the budget was exhausted (`single_document.py:300`), also
  when every failing field is flagged with passes left.
- `src/README.md:258` gives the exit codes as 0 validated, 1 not validated, 2 waiting for a
  human. They mean that of an invocation that prints a document or a review. One that is
  refused (`main.py:84`, `:198`, `:210`, `:225`) or raises exits with 1 too, and a usage error
  of argparse with 2, whatever the thread is: a malformed `--correct` for a suspended thread
  exits with 1 and leaves it suspended. `ExitCodeHonest` separates them by what is printed.
- After a correction that makes another field fail, the thread is closed with that field in
  `failed_fields`, but `flagged_fields` keeps what the operator was shown
  (`single_document.py:354`), and nobody is asked again.
- A flagged field that passes validation after its neighbour was repaired is still handed
  over as unresolved (`orchestrator_state.py:107` calls these fields that never passed).
- `orchestrator.py:230` runs a durable thread again without clearing the results of the
  earlier run, so a report repeats them, although `orchestrator_state.py:143` speaks of
  the documents of one dossier. `NothingLost` counts what the call adds and what stood there
  before. The status is that of all results together, except that a call without documents of
  its own is `FAILED` (`:219`) whatever the report still publishes from earlier calls (`:238`),
  successful documents included; `DossierStatusHonest` states both.
- A crashed worker overwrites the warnings clustering left in `errors`; `run_dossier` has no
  path that resumes a durable run after a crash.

Adapters and pages:

- Two threads that create the client of `azure_document_intelligence.py:133` at once leave a
  credential that `close` (`:288`) never sees. In a dossier this concerns the template
  extractor, whose first use is by the workers; the VLM's client is usually created while
  clustering, before they start.
- On one page the first mention of a field is kept, printed or not
  (`azure_document_intelligence.py:213` and its likes), where `extractor_port.py:62`
  lets the first value that is not empty win: a second document on the same raster cannot
  fill a field the first one named without a value.
- A document of which one page failed and the others had no field fails although
  `extractor_port.py:78-80` says it takes every page.
- `bounding_boxes` answered as a list raises `AttributeError` (`native_vlm.py:209`), which no
  node catches.
- A box that starts before the page edge, or is padded over it, is moved onto the page with
  its length unchanged, so the margin grows on the far side although `base.py:181` says "on
  each side", and a Textract box that starts beyond the page is stored but cannot be cropped.
- An answer cut off inside its object yields a complete object nested in it, if there is one.

Rules and parsers:

- An amount without cents is ambiguous: "1,234" reads as 1.234, and "1,234,567" is none.
  A sign is lost in "(50.00) MXN" and "$(50.00)". A number below a millionth, such as a zero with
  seven decimals or 0.0000001, is stored in scientific notation ("0E-7", "1E-7"), which is read
  as no amount.
- A month-first date whose day could be a month is read day-first.
- The sex of a card may be H, M or X (`validation_tools.py:47`, the expected format at `:312`,
  `models/id_card.py:25`), but the pattern of a CURP knows H and M only (`:31`), and the sex
  must be the one the CURP encodes (`:275`). So no card that prints X passes as it is printed:
  its CURP is blamed if it encodes X, its sex otherwise, and no re-read helps.
  `ConsistentNotBlamed` states it. The elector key is checked against H and M as well (`:42`);
  the model takes the key of a consistent card to match.
- A printed X that is misread as the letter of the CURP is accepted, and so is a birth date
  misread by exactly a century, 1906-07-04 for 2006-07-04, as long as it is neither in the
  future nor more than 120 years ago: the CURP is compared by two digits of the year (`:256`,
  `:229`). `AcceptedIsPrinted` admits these two and no other.
- The rules blame the total for a discount that is printed negative, and for a misread
  tax or discount; a CURP for a misread birth date; the due date for a misread issue date.
  The re-reads are then spent on a right field and never heal the wrong one, although
  `validation_tools.py:238-243` hopes a targeted re-read settles a CURP and a birth date.
- A value invented for a field that is not printed stays: the re-read can only answer
  that it is unreadable, which flags the field.

## Proofs

**The single document graph.** `SingleDocumentProofs` proves, for every schema, rule set,
retry budget, number of kills and set of operator decisions that meet the assumptions of
`ValidationTools`, `FieldRetry` and `SingleDocument`:

`TypeCorrect`, `RetryBudgetHolds`, `SuperstepBudgetHolds`, `FailuresAreCurrentHolds`,
`EscalationJustifiedHolds`, `ExitCodeHonestHolds`, `CanonicalDataHolds`,
`ClosedIsFinalHolds`, `FlaggedNeverRereadHolds`, `RepairsAreLocalHolds` and
`RepairsInLoopHolds`.

None of the properties is inductive alone. The invariant `IInv` is the conjunction of
`TypeOK` with

- `Control`: what the position of a thread says about status, suspension and process;
- `Failures`: at which nodes the failure list belongs to the stored data, and that data
  that reached validation is canonical if the schema accepts it;
- `Bills`: calls of a field are bounded by the passes made so far, which
  `retry_count` counts one ahead, plus the kills;
- `Rounds`: the supersteps committed are a function of the node and `retry_count`;
- `FailuresAreCurrent`.

Each is preserved by each action, one step per action; `Canonical` being idempotent
carries `CanonicalData` through a repair, and `failed \ flagged # {}` is what makes a
retry pass have a target. `RepairsAreLocalHolds` needs both parts of `SchemaAssumption`: the data in
the repair loop was accepted by the schema when it was extracted and stays acceptable, because
only fields the tools name are patched (`FailuresNamed`, `RepairFits`); and it is canonical
(`LoopFits`), so pushing the patched document through the schema again changes patched fields
only. The superstep bound of `2 N + 4` matters beyond the model:
with the largest configurable budget, 10, it is 24, one below LangGraph's default
recursion limit of 25.

`RepairsInLoopHolds` is the refinement of `RepairLoop`. `LoopOperators` says that the
operators of the instance are those of the graph, since both extend `FieldRetry`; then
`Init` maps to the initial states of the loop, and each action to a step of it or to a
stutter, `Failures` telling that a repair or a hand-over works on the failure list of the
last check.

**The dossier worker.** `DocumentWorkerProofs` proves, for every schema, rule set and
retry budget: `TypeCorrect`, `VerdictHonestHolds`, `HandOverCompleteHolds`,
`RepairsInLoopHolds` and `ContractKept`, the last one being the safety part of
`KeepsContract`: the caller sees an invocation that runs and then, once, a verdict of the
contract or an exception. Its invariant `WorkerInv` says what each node finds:

- `Untouched`: nothing was read or flagged before an extraction node ran;
- `Rounds`: nothing is handed over before the last node, `retry_count` is within the budget
  wherever a node compares it, and the failure list a retry or a hand-over works from is not
  empty and is that of the data it sees;
- `Returned`: what an invocation ends with, by status.

The two refinements have the same argument; the lemmas on the types of an answer, a
patch and a repair stand at the head of each.

**Clustering.** `GroupPageExtends` says that
one iteration leaves a partition of the claimed pages one: a page that opens a document was
not claimed, and neither was the back its front is paired with. `GroupingPartitions` carries
that over the whole loop, for every number of pages. The loop is a recursive function of the
pages done, so `LoopExists` first shows that a function with these equations exists, and
`PageInduction` replaces the induction schema the prover cannot instantiate by its least
counterexample. The node and the orchestrator are two state machines over these operators, and
`ClusteringProofs` and `DossierProofs` each state the lemmas they need about them; the whole loop is the
orchestrator's. `ClusteringProofs` proves `TypeCorrect`, `EveryPageOnceHolds` and
`DocumentIdsUniqueHolds` of the node, iteration by iteration. The invariant `IInv` adds to
`TypeOK` what each phase has behind it (`Progress`), and that the documents partition the
claimed pages, all those up to the present position among them (`Partition`); `Numbered`, that no
ordinal exceeds the number of documents of its type, makes the next id a new one.

`PairingMaximumHolds` compares the loop with every pairing at once. `Shapes` says that a
document of two pages is a front and a later back; `Greedy`, that a front the loop has gone
past, with a later back left alone, was given an earlier one. Let `u` be the last back left
alone. `GreedyIsMaximum` maps each pair of a matching to a card: a pair whose front comes
before `u` to the card of that front, which by `Greedy` has its back before `u`; any other to
the card of its back, which comes after `u` and so was not left alone. No two pairs get the
same card, so no matching is larger than what was reunited.

`HandsOverTheLoopHolds` ties the node to the orchestrator: whatever the classifier
answered, the node ends with the value of `group_pages_into_logical_docs` that `Dossier` uses.

**The dossier.** `DossierProofs` proves `TypeCorrect`, `NothingLostHolds` and
`DossierStatusHonestHolds`, for every number of pages and runs and every verdict a worker
may return. `Split` says that the documents of the run are a partition of all pages of its
file (`GroupingPartitions`), or that there is neither; `Calls`
which workers have ended; `Reduced` that the channel holds the `earlier` results a durable
thread had, none otherwise, followed, once the fan-in is done, by one result for each document
of the run in dispatch order, and that every result in it is sound: a `FAILED` one offers
nothing, a `SUCCESS` has a value and leaves nothing to an operator. The status then follows
from the results and from whether the run has documents (`StatusFollows`).

**The page merge.** `PageMergeProofs` proves `TypeCorrect`, `EarliestReadingKeptHolds` and
`CropShowsTheBoxHolds`, for every number of pages, table of aliases and answer of a service. Both
merges are folds: of the mentions of a page into its fields, which keep the first
(`SetdefaultHolds`, `FirstMentionsKept`), and of the fields into those of the earlier pages,
where a value is replaced only if it is empty (`MergedEntryKeeps`, `MergedPageKeeps`). A fold of
the community modules is a recursive function on sets of positions; `FoldExists` shows there is
one, and `ExtractionChain` and `MergedPageChain` unroll it into a chain of single steps, which `StepInduction` goes along.
The invariant: every kept field was seen (`NothingMadeUp`); every printed reading is kept under its name with a
value from its page or an earlier one (`ReadingsKept`), which is `EarliestReadingKept` before
the mapping and still has to be carried over to canonical fields by `MappedFrom`; the tag of a
box is its page (`BoxesTagged`); and the box and the page recorded for a field come from the same
entry (`MappedFrom`, `CropsFrom`), although two functions choose it. The proof of `TypeOK` needed an assumption
the model had left out: a canonical name maps to itself in `alias_lookup`, as `base.py:307-309`
sees to. Without it `page_by_field` could record a box of a field that
`from_extraction` drops under a name that is a field.

**The crop.** The second part of `PageMergeProofs` proves `CropTypeCorrect`, `CropNeverEmptyHolds`
and `FieldInCropHolds` of `CropGeometry`, the other half of what a re-read is shown, for every page, raster, padding and set of coordinates. `Stored` says
that a stored box starts where the field starts on the page and has an area along
each axis in which something of the field is there; `Reaches`, that it ends no earlier than the field does,
which is weaker than equality because Textract's box may be longer. `PaddedCovers` carries
both over the second clamping and the padding, `PixelsCover` over the rounding, whose error
`RoundNear` bounds by half a unit, and over the guaranteed pixel.

**The clients.** `ClientsProofs` proves `TypeCorrect`, `HeldIsOpenHolds`, `HandlesOpenHolds`
and `LeaksExplainedHolds`, for every set of configurations and any number of workers and uses.
`HeldIsOpen` is not inductive: closing one adapter must not close what another one holds. `Owned` adds
that a client belongs to the adapter it was created for, also when a borrowing adapter
created it, so the teardown of one leaves the others alone. `InUse` carries `HandlesOpen`
to the phase between the workers and the teardown. `ClosesTypes`, that the teardown walks over
adapters only, is where the wiring of every provider enters. `LeaksExplained` rests on
`Accounted`: what is open is held, unless another client took its place, and an adapter
that holds something failed to close or has its close before it (`Pending`). `Phases` says
when clients are created, and `AllReleased` that the walk over the adapters of a configuration meets every one that
may hold something.

**Parsers and business rules.** `BusinessRulesProofs` proves all four properties of
`BusinessRules`: `PrintedIsReadHolds`, `ConsistentNotBlamedHolds`, `AcceptedIsPrintedHolds` and
`OnePassHealsHolds`. They hold of any set of documents that meet `Consistent`: amounts of any
size and sign that are whole cents and agree but for a rounded one, any number of lines, dates of
the calendar in order, a code that fits its card, a sex of H, M or X, optional fields there or
not; printed with
either decimal separator, any separator of groups that is not part of a number, and anything
around them that is not either. Misread amounts, dates and the number of re-reads are arbitrary; only
`OnePassHealsHolds` assumes that a re-read is allowed at all (`MaxRetries > 0`), for without
one there is nothing to heal.

- *Amounts.* What the parser computes is recursive over the characters of a text, so
  each operator is a recursive function of the position, and its lemmas follow from a least
  counterexample (`StepInduction`, `StrongInduction`): what is filtered out of a text of two
  parts (`OnlyConcat`), what digits behind digits are read as (`PairBehind`, `TripleBehind`), and
  that groups of three digits are read as the number they were cut from (`GroupedRead`).
  `NotationRead` puts the last separator where the convention has it, `PositiveRead` and
  `NegativeRead` strip what is around the number, and `AmountRead` joins them: an amount with cents
  is read as it was meant. `StoredIsRead` holds of every text whatever: what the schema stores
  of it is read as the same amount, and stored again as itself. So a re-read of one field
  cannot change another.
- *Dates.* `FirstFit` reduces the first layout that fits to seven comparisons, and `DateFits`
  finds that only a month-first date whose day could be a month is read by an earlier one.
- *The rules.* `OneOff` compares a reading with `Right`, what a document read without a mistake is
  stored as: it differs in one field at most, and its amounts are in the form the schema stores.
  `BlameIsRight` is the heart of the argument: if the rules blame anything, the misread field is
  blamed or is a `Witness`. It goes rule by rule: a field rule blames nothing but the
  misread field (`FieldBlame`), the totals rule may blame the total for an operand
  (`TotalsBlame`), and so on for lines, dates, cards and proofs of address. A document read right
  has no such field, so nothing is blamed (`RightPasses`). Cards that print X are outside this
  argument: `CardSex` tells them apart, and `RightIsRefused` computes their blame rule by rule.
  The other direction, `PassedAmounts` and
  `PassedCard`, bounds what may be wrong with a reading that is blamed for nothing; `CenturyOff`
  is where the limit of 120 years leaves one century.
- *The loop.* `IInv`: the reading is `OneOff`; the verdict of a stage is that of the data it
  sees (`Judged`); and after one pass the document is read right or the misread field is a
  witness (`Reread`). `RetriedIsOneOff` and `WitnessStays` carry it over a retry, which may replace
  a witness by what is printed.

The attempt corrected the model. As first written, `OnePassHeals` did not count a misread
subtotal as a witness when the lines allow it, and was false of documents TLC had not been
given: where the lines add up to a cent above the subtotal and the subtotal is misread by two
cents, the totals are off by more than the tolerance, the lines by no more than it, and the re-reads are spent
on a right total. `LinesAllow` now says so, and `MCBusinessRules` has such documents. What a
consistent document is had been left to the enumeration and is now an assumption, `Consistent`.

**JSON recovery.** `JsonRecoveryProofs` proves `FirstObjectRecoveredHolds` for answers of any
length. What `json.loads` accepts is defined from an object inwards, the scan goes from left to
right with a counter and two flags. Objects have one member, so those around a position all end
together, and the innermost of them says what the scan must have in its variables: `Inside(j)` lists the
places inside an object that ends at `j` (before a value that is an object, before a string, in
one, at a colon, a number or a closing brace) with the depth and flags of each. The invariant:
the scan is inside every object that starts at `start` (`Scan`), and none starts before
(`Found`). So the brace that takes the depth to zero is the end of such an object if there is one,
and a scan that gives up has shown that none starts at its brace. `ObjectSpans` shows that the recursive
definition has a solution; `EscapedNext` ties the flag `escaped` to the parity of a run of
backslashes. The proof needed characters that are named instead of written, because
the prover's translation breaks on strings with braces in them, and definitions with the text as a parameter.

**Model-checked only.** Liveness (`RunsReport`, `RunsEnd`, the fairness part of
`KeepsContract`) is outside the prover's reach. Every safety property of the passing runs is
proved. What a recursive function computes was proved where it follows from a least counterexample:
the grouping loop, the folds of the merge, the objects of an answer, and the digits of an amount.
Where the code and its documentation disagree, the counterexample is TLC's.

## Left out

- Bounding boxes and images in `SingleDocument` and `DocumentWorker` (a retry works on a
  crop or on the full page; pages and boxes are the subject of `PageMerge` and
  `CropGeometry`), `structured_extras`
  of a merge, and write-only channels: reports, metadata, `human_review_*`.
- In `SingleDocument` and `DocumentWorker` the registered rules are data; their bodies are
  in `DocumentRules`. A rule that raises reports under its own name
  (`validation_tools.py:138`), which is no field and cannot be re-read; the rules of the
  model do not raise. Of a text whose rule is one pattern only whether it matches counts.
- The normalisation of codes, names and postal codes by the schemas, and values the operator
  corrects in `BusinessRules`, whose documents are read wrong in one field at most.
- Code fences around an answer, and commas and further members in its objects: they make
  longer answers and no other scan. Line items, confidences, and the choice of a model or
  processor by the extraction adapters.
- The validation of settings, and adapters injected into `build_dependencies`, which tests use.
- `calls` counts attempted re-reads: a crop that fails before the provider is called
  counts too, which only makes the bound stronger.
- The branch of `vlm_retry` for a worker without source pages, which no worker state reaches.
- Floating point: `CropGeometry` works with exact multiples of a unit of the page.
- LangGraph itself: the order and atomicity of channel writes, one write per superstep for a
  plain channel, fresh input passing through reducers, and the loss of a killed superstep's
  writes are modelled as the code relies on them and marked external.
- A keyboard interrupt while workers run, after which `close` could meet live threads.
- The measurements of `preprocessing.py` (blur, skew, resizing), whose verdicts are choices,
  and the rendering of a PDF: image arithmetic of OpenCV and MuPDF, whose control is in
  `preprocess_node` and `Clustering`.

## Plan

Built so far, in order of importance: `ValidationTools`, `FieldRetry`, `SingleDocument`
and its proofs; `DocumentWorker` under `WorkerContract`; `PageGrouping`, `Clustering`,
`Dossier`; `PageMerge` and `CropGeometry`; `RepairLoop` over both graphs; `Amounts`, `Dates`,
`DocumentRules` and `BusinessRules`; `JsonRecovery`; `Wiring` and `Clients`;
`ProviderResponses`; with the proofs of both repair loops, of the clustering, the dossier, the
page merge, the crop, the parsers and business rules, the JSON recovery and the clients.

Next: documents with several fields read wrong at once, for which one pass heals less, and the
normalisation of codes and names by the schemas.
