---------------------------- MODULE DocumentRules ----------------------------
(***************************************************************************)
(* The registered tools of the document types: the field rules and the     *)
(* business rules of src/domain/validation_tools.py, over what the schemas *)
(* of src/domain/models store.                                             *)
(*                                                                         *)
(* A document is a record of readings.  Amounts and dates are texts; a     *)
(* CURP is the birth date and the sex it encodes, unless it is malformed;  *)
(* of a text whose rule is one pattern or a length, only whether it is     *)
(* "well formed", "malformed" or missing counts.  What a rule returns is   *)
(* the set of fields it holds responsible.                                 *)
(***************************************************************************)
EXTENDS Amounts, Dates

CONSTANT Today   (* date.today()                                           *)

ASSUME TodayAssumption == Calendar(Today)

DocTypes == {"invoice", "ine", "proof_of_address"}

Tolerance == 10

Within(amount, other) == amount - other \in -Tolerance..Tolerance

-----------------------------------------------------------------------------
(* Seeded fault: no discount, no verdict.                                  *)
discount_required(data) ==
  IF \E subtotal \in parse_decimal(data.subtotal), tax \in parse_decimal(data.tax_amount),
        total \in parse_decimal(data.total_amount),
        discount \in parse_decimal(data.discount_amount) :
       ~Within(subtotal - discount + tax, total)
  THEN {"total_amount"} ELSE {}

(* Seeded fault: the first operand is blamed.                              *)
subtotal_blamed(data) ==
  IF \E subtotal \in parse_decimal(data.subtotal), tax \in parse_decimal(data.tax_amount),
        total \in parse_decimal(data.total_amount) :
       ~Within(subtotal + tax, total)
  THEN {"subtotal"} ELSE {}

(* Missing amounts prove nothing, but a missing discount is zero.          *)
Discount(data) ==
  LET printed == parse_decimal(data.discount_amount)
  IN IF printed = {} THEN {0} ELSE printed

check_invoice_totals(data) ==
  IF \E subtotal \in parse_decimal(data.subtotal), tax \in parse_decimal(data.tax_amount),
        total \in parse_decimal(data.total_amount), discount \in Discount(data) :
       ~Within(subtotal - discount + tax, total)
  THEN {"total_amount"} ELSE {}

LineSum(amounts) ==
  LET sum[i \in 0..Len(amounts)] == IF i = 0 THEN 0 ELSE sum[i - 1] + amounts[i]
  IN sum[Len(amounts)]

(* Partial line detail cannot prove an inconsistency.                      *)
check_invoice_line_items(data) ==
  LET lines    == data.line_items
      complete == lines # << >> /\ \A i \in DOMAIN lines : parse_decimal(lines[i]) # {}
      amounts  == [i \in DOMAIN lines |-> CHOOSE amount \in parse_decimal(lines[i]) : TRUE]
  IN IF /\ complete
        /\ \E subtotal \in parse_decimal(data.subtotal) :
             ~Within(LineSum(amounts), subtotal)
     THEN {"subtotal"} ELSE {}

(* Seeded fault: an invoice due on the day it is issued is refused.        *)
due_later(data) ==
  IF \E issued \in parse_date(data.invoice_date), due \in parse_date(data.due_date) :
       ~Before(issued, due)
  THEN {"due_date"} ELSE {}

check_invoice_dates(data) ==
  IF \E issued \in parse_date(data.invoice_date), due \in parse_date(data.due_date) :
       Before(due, issued)
  THEN {"due_date"} ELSE {}

check_birth_date_in_past(data) ==
  IF \E born \in parse_date(data.date_of_birth) :
       Before(Today, born) \/ born[1] < Today[1] - 120
  THEN {"date_of_birth"} ELSE {}

(* CURP_PATTERN knows two sexes.                                           *)
MatchesCurp(curp) == curp.form = "curp" /\ curp.sex \in {"H", "M"}

check_curp_matches_birth_date(data) ==
  IF /\ MatchesCurp(data.curp)
     /\ \E born \in parse_date(data.date_of_birth) : ShortDate(born) # data.curp.birth
  THEN {"curp"} ELSE {}

check_curp_matches_sex(data) ==
  IF MatchesCurp(data.curp) /\ data.sex \notin {"", data.curp.sex}
  THEN {"sex"} ELSE {}

check_proof_of_address_dates(data) ==
  IF \E issued \in parse_date(data.issue_date) : Before(Today, issued)
  THEN {"issue_date"} ELSE {}

-----------------------------------------------------------------------------
(* The field rules: what each kind of field must look like, and which      *)
(* fields may be missing.                                                  *)
TextFields(doc_type) ==
  CASE doc_type = "invoice" -> {"invoice_id", "vendor_name", "vendor_tax_id",
                                "customer_tax_id", "currency"}
    [] doc_type = "ine" -> {"full_name", "voter_key", "postal_code"}
    [] doc_type = "proof_of_address" -> {"holder_name", "address", "postal_code",
                                         "service_provider", "account_number"}

FieldsOf(doc_type) ==
  TextFields(doc_type) \cup
  CASE doc_type = "invoice" -> {"subtotal", "tax_amount", "total_amount",
                                "invoice_date", "due_date"}
    [] doc_type = "ine" -> {"curp", "date_of_birth", "sex", "expiration_date"}
    [] doc_type = "proof_of_address" -> {"issue_date"}

Optional(doc_type) ==
  CASE doc_type = "invoice" -> {"due_date", "vendor_tax_id", "customer_tax_id", "currency"}
    [] doc_type = "ine" -> {"sex", "expiration_date", "postal_code"}
    [] doc_type = "proof_of_address" -> {"service_provider", "account_number"}

(* A card may print the year it expires and no more.                       *)
IsYear(text) == text.sep = "year" /\ text.parts[1] \in 1900..2099

Missing(field, reading) ==
  CASE field \in {"subtotal", "tax_amount", "total_amount"} -> reading = << >>
    [] field = "curp" -> reading.form = "missing"
    [] field \in {"sex"} \cup UNION {TextFields(d) : d \in DocTypes} -> reading = ""
    [] OTHER          -> reading = Unprinted

Fits(field, reading) ==
  CASE field \in {"subtotal", "tax_amount", "total_amount"} -> parse_decimal(reading) # {}
    [] field = "curp" -> MatchesCurp(reading)
    [] field = "sex"  -> reading \in {"H", "M", "X"}
    [] field = "expiration_date" -> parse_date(reading) # {} \/ IsYear(reading)
    [] field \in UNION {TextFields(d) : d \in DocTypes} -> reading = "well formed"
    [] OTHER          -> parse_date(reading) # {}

FieldRuleErrors(doc_type, data) ==
  {f \in FieldsOf(doc_type) :
     IF Missing(f, data[f]) THEN f \notin Optional(doc_type) ELSE ~Fits(f, data[f])}

DocumentRuleErrors(doc_type, data) ==
  CASE doc_type = "invoice" ->
         check_invoice_totals(data) \cup check_invoice_line_items(data)
           \cup check_invoice_dates(data)
    [] doc_type = "ine" ->
         check_birth_date_in_past(data) \cup check_curp_matches_birth_date(data)
           \cup check_curp_matches_sex(data)
    [] doc_type = "proof_of_address" -> check_proof_of_address_dates(data)

validate_document(doc_type, data) ==
  FieldRuleErrors(doc_type, data) \cup DocumentRuleErrors(doc_type, data)
=============================================================================
