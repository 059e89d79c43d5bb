----------------------------- MODULE JsonRecovery -----------------------------
(***************************************************************************)
(* The recovery of a JSON object from a model's answer                     *)
(* (extract_json_object of src/infrastructure/adapters/vlm/base.py): the   *)
(* whole answer if it is one, else the first balanced object a scan finds, *)
(* which keeps track of strings and escapes to know which braces count.    *)
(*                                                                         *)
(* An answer is a sequence of the characters the scan tells apart: braces, *)
(* quotes, backslashes, colons, and "x" for any other, which in a value is *)
(* a number.  An object has one member at most: commas and blanks would    *)
(* make longer answers and no other scan.  Code fences are gone.           *)
(***************************************************************************)
EXTENDS Integers, Sequences, FiniteSets, FiniteSetsExt

CONSTANT Responses   (* answers without their code fences                  *)

LBrace    == "lbrace"
RBrace    == "rbrace"
Colon     == "colon"
Quote     == "quote"
Backslash == "backslash"

ASSUME ResponsesAssumption ==
  Responses \subseteq Seq({LBrace, RBrace, Colon, "x", Quote, Backslash})

VARIABLES
  text,
  stage,       (* "whole", "find", "scan", "parsed" or "raised"            *)
  start,       (* position of the brace the scan started from              *)
  index,       (* position the scan reads next                             *)
  depth,
  in_string,
  escaped,
  object       (* first and last position of the object returned           *)

scan == <<index, depth, in_string, escaped>>
vars == <<text, stage, start, scan, object>>

-----------------------------------------------------------------------------
(* json.loads, as what a span of a text t must be to be an object.  A      *)
(* character of a string is escaped when an odd number of backslashes      *)
(* stands before it; of the escapes only \" and \\ are valid here.         *)
Escaped(t, from, p) ==
  LET run == {b \in from..(p - 1) : \A i \in b..(p - 1) : t[i] = Backslash}
  IN Cardinality(run) % 2 = 1

IsString(t, i, j) ==
  /\ i < j /\ t[i] = Quote /\ t[j] = Quote
  /\ ~Escaped(t, i + 1, j)
  /\ \A p \in (i + 1)..(j - 1) :
       IF Escaped(t, i + 1, p) THEN t[p] \in {Quote, Backslash} ELSE t[p] # Quote

Span(t) == (1..Len(t)) \X (1..Len(t))

IsObject(t) ==
  LET is_object[span \in Span(t)] ==
        LET i == span[1]
            j == span[2]
        IN /\ i < j /\ t[i] = LBrace /\ t[j] = RBrace
           /\ \/ j = i + 1
              \/ \E k \in (i + 2)..(j - 3) :
                   /\ IsString(t, i + 1, k) /\ t[k + 1] = Colon
                   /\ \/ IsString(t, k + 2, j - 1)
                      \/ k + 2 = j - 1 /\ t[k + 2] = "x"
                      \/ is_object[<<k + 2, j - 1>>]
  IN is_object

Parses(i, j) == i <= j /\ IsObject(text)[<<i, j>>]

-----------------------------------------------------------------------------
Init ==
  /\ text \in Responses
  /\ stage = "whole"
  /\ start = 0
  /\ index = 0
  /\ depth = 0
  /\ in_string = FALSE
  /\ escaped = FALSE
  /\ object = << >>

(* An empty answer, and one that is the object.                            *)
load_whole ==
  /\ stage = "whole"
  /\ \/ /\ text = << >>
        /\ stage' = "raised"
        /\ UNCHANGED object
     \/ /\ text # << >> /\ Parses(1, Len(text))
        /\ object' = <<1, Len(text)>>
        /\ stage' = "parsed"
     \/ /\ text # << >> /\ ~Parses(1, Len(text))
        /\ stage' = "find"
        /\ UNCHANGED object
  /\ UNCHANGED <<text, start, scan>>

(* text.find("{", start + 1), and the state of a fresh scan.               *)
find_start ==
  /\ stage = "find"
  /\ LET braces == {p \in (start + 1)..Len(text) : text[p] = LBrace}
     IN IF braces = {}
        THEN stage' = "raised" /\ UNCHANGED <<start, scan>>
        ELSE /\ start' = Min(braces)
             /\ index' = start'
             /\ depth' = 0 /\ in_string' = FALSE /\ escaped' = FALSE
             /\ stage' = "scan"
  /\ UNCHANGED <<text, object>>

Scanning(character) ==
  /\ stage = "scan" /\ index <= Len(text)
  /\ text[index] = character

Advance == index' = index + 1 /\ UNCHANGED <<text, start, object>>

(* Seeded fault: the scan starts again behind the object it gave up.       *)
resume_behind(opened, closed) == closed

(* The next candidate may lie inside the one that does not parse.          *)
ResumeAt(opened, closed) == opened

(* Seeded fault: a backslash is a character like any other.                *)
escapes_ignored == FALSE

BeginsEscape == text[index] = Backslash

scan_string ==
  /\ stage = "scan" /\ index <= Len(text) /\ in_string
  /\ escaped' = (~escaped /\ BeginsEscape)
  /\ in_string' = (escaped \/ text[index] # Quote)
  /\ Advance /\ UNCHANGED <<stage, depth>>

scan_character ==
  /\ stage = "scan" /\ index <= Len(text) /\ ~in_string
  /\ text[index] # RBrace
  /\ in_string' = (text[index] = Quote)
  /\ depth' = IF text[index] = LBrace THEN depth + 1 ELSE depth
  /\ Advance /\ UNCHANGED <<stage, escaped>>

scan_closing ==
  /\ Scanning(RBrace) /\ ~in_string
  /\ depth' = depth - 1
  /\ IF depth' # 0 THEN Advance /\ UNCHANGED stage
     ELSE /\ IF Parses(start, index)
             THEN stage' = "parsed" /\ object' = <<start, index>> /\ UNCHANGED start
             ELSE stage' = "find" /\ start' = ResumeAt(start, index) /\ UNCHANGED object
          /\ UNCHANGED <<text, index>>
  /\ UNCHANGED <<in_string, escaped>>

(* The answer ends before the object does.                                 *)
scan_truncated ==
  /\ stage = "scan" /\ index > Len(text)
  /\ stage' = "find"
  /\ UNCHANGED <<text, start, scan, object>>

Next ==
  \/ load_whole
  \/ find_start
  \/ scan_string
  \/ scan_character
  \/ scan_closing
  \/ scan_truncated

Spec == Init /\ [][Next]_vars

-----------------------------------------------------------------------------
(* Prose around the object, braces and quotes in its strings, an answer    *)
(* cut off in the middle: what is returned is the first object of the      *)
(* answer as a JSON parser sees it, and the call raises only when there is *)
(* none.  In an answer cut off inside its object that is a fragment of it. *)
FirstObjectRecovered ==
  LET objects == {span \in Span(text) : Parses(span[1], span[2])}
      first   == Min({span[1] : span \in objects})
  IN /\ stage = "parsed" => object \in objects /\ object[1] = first
     /\ stage = "raised" => objects = {}
=============================================================================
