--------------------------- MODULE WorkerContract ---------------------------
(***************************************************************************)
(* What the worker subgraph promises its caller: one verdict, reached      *)
(* without help from outside and never revised.                            *)
(***************************************************************************)
EXTENDS WorkerVerdicts

VARIABLE verdict

Init == verdict = NoVerdict

Return ==
  /\ verdict = NoVerdict
  /\ verdict' \in Verdicts \cup {Raised}

Spec == Init /\ [][Return]_verdict /\ WF_verdict(Return)
=============================================================================
