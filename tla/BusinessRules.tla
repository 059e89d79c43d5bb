---------------------------- MODULE BusinessRules ----------------------------
(***************************************************************************)
(* A consistent document on its way through the tools: it is printed in    *)
(* some convention, read with at most one field wrong, stored in the form  *)
(* of its schema, checked by the tools of src/domain/validation_tools.py,  *)
(* and what they blame is read again, this time as it is printed; a field  *)
(* that is not printed at all is answered unreadable and flagged           *)
(* (crop_and_vlm_retry_node of src/graph/nodes/single_document.py).        *)
(*                                                                         *)
(* This is the retry loop seen from the data: SingleDocument has any rules *)
(* and any answers, here the rules are the code's and a re-read is right.  *)
(***************************************************************************)
EXTENDS DocumentRules

CONSTANTS
  Documents,    (* documents: what they say, and the convention they are   *)
                (* printed in                                              *)
  OtherAmounts, (* amounts a field may be misread as                       *)
  OtherDates,   (* dates a field may be misread as                         *)
  MaxRetries

VARIABLES
  document,
  data,         (* the flat dictionary of the state                        *)
  failed_fields,
  flagged_fields,
  misread,      (* history: the field read wrong, or "none"                *)
  retries,
  stage         (* "extraction", "validation", "retry", "accepted" or      *)
                (* "refused"                                               *)

vars == <<document, data, failed_fields, flagged_fields, misread, retries, stage>>

AmountFields == {"subtotal", "tax_amount", "discount_amount", "total_amount"}
DateFields   == {"invoice_date", "due_date", "date_of_birth", "issue_date"}

-----------------------------------------------------------------------------
(* A convention to print amounts in.  What separates the groups cannot be  *)
(* taken for a part of the number, and what is around the number for none. *)
Convention(style) ==
  /\ style.point \in {<<",">>, <<".">>}
  /\ {style.group, style.before, style.after} \subseteq Seq(STRING)
  /\ ToSet(style.group) \cap (DigitChars \cup {"-"} \cup ToSet(style.point)) = {}
  /\ (ToSet(style.before) \cup ToSet(style.after)) \cap (NumberChars \cup {"("}) = {}

IsCents(amount) == amount \in Int /\ amount % 10 = 0

(* The printed amounts agree but for a rounded cent.                       *)
AddsUp(says) ==
  \A subtotal \in says.subtotal, tax \in says.tax_amount, total \in says.total_amount,
     discount \in (IF says.discount_amount = {} THEN {0} ELSE says.discount_amount) :
    /\ Within(subtotal - discount + tax, total)
    /\ says.line_items # << >> => Within(LineSum(says.line_items), subtotal)

ConsistentInvoice(says) ==
  /\ says.line_items \in Seq(Int)
  /\ \A i \in DOMAIN says.line_items : IsCents(says.line_items[i])
  /\ AddsUp(says)
  /\ \A issued \in says.invoice_date, due \in says.due_date : ~Before(due, issued)

(* A card that prints X has a CURP that encodes X, or the sex it was       *)
(* issued with.                                                            *)
ConsistentCard(says) ==
  /\ says.sex \in {"H", "M", "X"}
  /\ \A born \in says.date_of_birth :
       /\ \E encoded \in {"H", "M", "X"} :
            /\ says.curp = [form |-> "curp", birth |-> ShortDate(born), sex |-> encoded]
            /\ says.sex \in {encoded, "X"}
       /\ ~Before(Today, born) /\ born[1] >= Today[1] - 120
  /\ says.expiration_date = Unprinted \/ Fits("expiration_date", says.expiration_date)

Consistent(doc) ==
  LET says == doc.says
      required == FieldsOf(doc.doc_type) \ Optional(doc.doc_type)
  IN /\ doc.doc_type \in DocTypes
     /\ Convention(doc.style)
     /\ doc.layout \in ToSet(SupportedDateFormats)
     /\ DOMAIN says = FieldsOf(doc.doc_type) \cup
          (IF doc.doc_type = "invoice" THEN {"discount_amount", "line_items"} ELSE {})
     /\ \A f \in TextFields(doc.doc_type) :
          says[f] = "well formed" \/ (says[f] = "" /\ f \notin required)
     /\ \A f \in AmountFields \cap DOMAIN says :
          \A amount \in says[f] : IsCents(amount) /\ says[f] = {amount}
     /\ \A f \in DateFields \cap DOMAIN says :
          \A date \in says[f] :
            date \in Int \X Int \X Int /\ Calendar(date) /\ says[f] = {date}
     /\ \A f \in (AmountFields \cup DateFields) \cap required : says[f] # {}
     /\ doc.doc_type = "invoice" => ConsistentInvoice(says)
     /\ doc.doc_type = "ine" => ConsistentCard(says)
     /\ doc.doc_type = "proof_of_address" =>
          \A issued \in says.issue_date : ~Before(Today, issued)

ASSUME BusinessRulesAssumption ==
  /\ \A doc \in Documents : Consistent(doc)
  /\ \A amount \in OtherAmounts : IsCents(amount)
  /\ MaxRetries \in Nat

-----------------------------------------------------------------------------
(* What is printed: a value that the document does not have is a set       *)
(* without elements, and prints as nothing.                                *)
PrintedField(doc, f) ==
  LET said == doc.says[f]
  IN CASE f \in AmountFields ->
            IF said = {} THEN << >> ELSE Printed(CHOOSE a \in said : TRUE, doc.style)
       [] f \in DateFields ->
            IF said = {} THEN Unprinted ELSE PrintedDate(CHOOSE d \in said : TRUE, doc.layout)
       [] f = "line_items" -> [i \in DOMAIN said |-> Printed(said[i], doc.style)]
       [] OTHER -> said

PrintedDocument(doc) == [f \in DOMAIN doc.says |-> PrintedField(doc, f)]

(* The schema: amounts become decimals; dates, codes and the sex letter    *)
(* keep the form they are printed in.                                      *)
Normalized(reading) ==
  [f \in DOMAIN reading |->
     CASE f \in AmountFields -> Stored(reading[f])
       [] f = "line_items"   -> [i \in DOMAIN reading[f] |-> Stored(reading[f][i])]
       [] OTHER              -> reading[f]]

(* A price cut off at its decimal separator, an illegible one, another one.*)
MisreadAmounts(doc, text) ==
  {<< >>, <<"x">>} \cup {Printed(a, doc.style) : a \in OtherAmounts}
    \cup {SubSeq(text, 1, cut - 1) : cut \in {LastAt(text, Head(doc.style.point))} \ {0}}

Misreadings(doc, f) ==
  LET text == PrintedField(doc, f)
  IN CASE f \in AmountFields -> MisreadAmounts(doc, text)
       [] f \in DateFields   -> {Unprinted, [sep |-> "?", parts |-> <<0, 0, 0>>]}
                                  \cup {PrintedDate(d, doc.layout) : d \in OtherDates}
       [] f = "line_items"   -> UNION {{[text EXCEPT ![i] = r] : r \in MisreadAmounts(doc, text[i])} :
                                         i \in DOMAIN text}
       [] f = "curp"         -> {[text EXCEPT !.form = "missing"], [text EXCEPT !.form = "malformed"],
                                 [text EXCEPT !.sex = IF @ = "H" THEN "M" ELSE "H"]}
                                  \cup {[text EXCEPT !.birth = ShortDate(d)] : d \in OtherDates}
       [] f = "sex"          -> {"", "H", "M", "X", "?"}
       [] f = "expiration_date" -> {Unprinted, [text EXCEPT !.parts[1] = @ - 200]}
       [] OTHER              -> {"", "malformed"}

-----------------------------------------------------------------------------
Init ==
  /\ document \in Documents
  /\ data = << >>
  /\ failed_fields = {}
  /\ flagged_fields = {}
  /\ misread = "none"
  /\ retries = 0
  /\ stage = "extraction"

extract ==
  /\ stage = "extraction"
  /\ LET printed == PrintedDocument(document)
     IN \/ /\ data' = Normalized(printed)
           /\ UNCHANGED misread
        \/ \E f \in DOMAIN printed :
             \E reading \in Misreadings(document, f) \ {printed[f]} :
               /\ data' = Normalized([printed EXCEPT ![f] = reading])
               /\ misread' = f
  /\ stage' = "validation"
  /\ UNCHANGED <<document, failed_fields, flagged_fields, retries>>

validation_node ==
  /\ stage = "validation"
  /\ failed_fields' = validate_document(document.doc_type, data)
  /\ stage' = IF failed_fields' = {} THEN "accepted"
              ELSE IF /\ failed_fields' \ flagged_fields # {}
                      /\ retries < MaxRetries
                   THEN "retry" ELSE "refused"
  /\ UNCHANGED <<document, data, flagged_fields, misread, retries>>

crop_and_vlm_retry_node ==
  /\ stage = "retry"
  /\ LET targets == failed_fields \ flagged_fields
         blank   == {f \in targets : Missing(f, PrintedField(document, f))}
     IN /\ data' = Normalized([f \in DOMAIN data |->
                     IF f \in targets \ blank THEN PrintedField(document, f) ELSE data[f]])
        /\ flagged_fields' = flagged_fields \cup blank
  /\ retries' = retries + 1
  /\ stage' = "validation"
  /\ UNCHANGED <<document, failed_fields, misread>>

Next == extract \/ validation_node \/ crop_and_vlm_retry_node

Spec == Init /\ [][Next]_vars

-----------------------------------------------------------------------------
(* The one convention the parsers cannot tell from another: a month-first  *)
(* date whose day could be a month.                                        *)
Legible(doc) ==
  \A f \in DateFields \cap DOMAIN doc.says :
    \A d \in doc.says[f] : ~Ambiguous(d, doc.layout)

(* An amount with cents is read as it was meant in either convention, with *)
(* a currency or in accounting notation, and a date in every supported     *)
(* layout.  Storing an amount changes nothing: read back from the state,   *)
(* and stored again after a retry of another field, it is the same amount. *)
PrintedIsRead ==
  LET printed == PrintedDocument(document)
  IN /\ \A f \in AmountFields \cap DOMAIN printed :
          /\ parse_decimal(printed[f]) = document.says[f]
          /\ parse_decimal(Stored(printed[f])) = document.says[f]
          /\ Stored(Stored(printed[f])) = Stored(printed[f])
     /\ Legible(document) =>
          \A f \in DateFields \cap DOMAIN printed :
            parse_date(printed[f]) = document.says[f]

(* The sex rule admits an X, the pattern of a CURP encodes none, and the   *)
(* two must agree: no card that prints X can pass.                         *)
RefusedForX(doc) ==
  IF doc.doc_type # "ine" \/ doc.says.sex # "X" THEN {}
  ELSE IF doc.says.curp.sex = "X" THEN {"curp"} ELSE {"sex"}

(* The tools accept what is right: a consistent document read without a    *)
(* mistake is never sent to a paid re-read, whatever is optional in it and *)
(* whatever sums are off by a rounded cent.  The exception is a card that  *)
(* prints X for the sex: it is blamed, for its CURP when that encodes X,   *)
(* for its sex otherwise, and for nothing else.                            *)
ConsistentNotBlamed ==
  Legible(document) /\ misread = "none" /\ stage \notin {"extraction", "validation"}
    => failed_fields = RefusedForX(document)

(* What passes the tools is what is printed, as far as they can know it.   *)
(* No single misreading of an amount, a birth date or a sex survives them, *)
(* and no re-read of another field talks them round, but for these:        *)
(* amounts may be off by the tolerance of the rule and by the rounding of  *)
(* the document; a birth date may be a century off, for a CURP encodes two *)
(* digits of its year; a sex may be missing, and a printed X may be read   *)
(* as the sex that the CURP encodes.                                       *)
AcceptedIsPrinted ==
  Legible(document) /\ stage = "accepted" =>
    /\ \A f \in AmountFields \cap DOMAIN data :
         LET read == IF data[f] = << >> THEN {0} ELSE parse_decimal(data[f])
             said == IF document.says[f] = {} THEN {0} ELSE document.says[f]
         IN \A a \in read, b \in said : a - b \in (-2 * Tolerance)..(2 * Tolerance)
    /\ document.doc_type = "ine" =>
         /\ \A d \in parse_date(data.date_of_birth), e \in document.says.date_of_birth :
              d[1] - e[1] \in {-100, 0, 100} /\ d[2] = e[2] /\ d[3] = e[3]
         /\ data.sex \in {"", document.says.sex, document.says.curp.sex}

(* The lines cannot refute the subtotal: there are none, or it differs     *)
(* from them by no more than a rounded cent would.                         *)
LinesAllow(reading) ==
  LET lines == document.says.line_items
  IN lines = << >> \/ \A subtotal \in parse_decimal(reading) : Within(LineSum(lines), subtotal)

(* Fields the rules compare others with.  They are blamed for being        *)
(* missing or illegible, and never for being wrong; a discount and a line  *)
(* are not even blamed for that.  Nor can a re-read take back a field that *)
(* is not printed: the model's empty answer counts as unreadable.          *)
Witnesses ==
  {"discount_amount", "line_items"}
    \cup {f \in {"tax_amount", "invoice_date", "date_of_birth", "curp", "subtotal"}
              \cap DOMAIN data :
            Fits(f, data[f]) /\ (f = "subtotal" => LinesAllow(data[f]))}
    \cup {f \in FieldsOf(document.doc_type) : Missing(f, PrintedField(document, f))}

(* The blame is right often enough: one right re-read of the blamed fields *)
(* heals every misreading, a misread total, subtotal with its lines, due   *)
(* date or sex included, but those of a witness, which a human must see.   *)
(* A card that prints X, which no re-read can help, is left out.           *)
OnePassHeals ==
  Legible(document) /\ RefusedForX(document) = {} /\ (stage = "refused" \/ retries > 1)
    => misread \in Witnesses
=============================================================================
