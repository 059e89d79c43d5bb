--------------------------- MODULE MCBusinessRules ---------------------------
(***************************************************************************)
(* Invoices that vary in their amounts, invoices that vary in their dates, *)
(* cards and proofs of address.  Amounts are thousandths: 1234560 is       *)
(* 1,234.56.                                                               *)
(***************************************************************************)
EXTENDS BusinessRules, TLC

MCToday == <<2026, 6, 15>>

Style(group, point, before, after) ==
  [group |-> group, point |-> point, before |-> before, after |-> after]

Anglo   == Style(<<",">>, <<".">>, <<"$", " ">>, << >>)
Styles  == {Anglo, Style(<<".">>, <<",">>, << >>, <<" ", "E", "U", "R">>),
            Style(<<" ">>, <<",">>, << >>, << >>), Style(<< >>, <<".">>, << >>, << >>)}

DayFirst == Layout("/", <<"d", "m", "y">>)
Layouts  == {SupportedDateFormats[i] : i \in DOMAIN SupportedDateFormats}

MCOtherAmounts == {0, 1234550, 1234580, 5010}

(* One is a century off a birth date.                                      *)
MCOtherDates ==
  {<<2024, 2, 29>>, <<2026, 4, 3>>, <<1885, 12, 31>>, <<2026, 12, 31>>, <<1906, 7, 4>>}

(* What a card prints for the sex, and what its CURP encodes.              *)
Sexes == {<<"H", "H">>, <<"M", "M">>, <<"X", "H">>, <<"X", "X">>}

(* Two optional texts are not printed.                                     *)
Texts(doc_type) ==
  [f \in TextFields(doc_type) |->
     IF f \in {"customer_tax_id", "service_provider"} THEN "" ELSE "well formed"]

InvoiceSays(subtotal, tax, discount, rounding, lines, issued, due) ==
  Texts("invoice") @@
  [subtotal |-> {subtotal}, tax_amount |-> {tax}, discount_amount |-> discount,
   total_amount |-> {subtotal + tax + rounding - (IF discount = {} THEN 0
                                                  ELSE CHOOSE d \in discount : TRUE)},
   line_items |-> lines, invoice_date |-> {issued}, due_date |-> due]

AmountInvoices ==
  {[doc_type |-> "invoice", style |-> style, layout |-> DayFirst,
    says |-> InvoiceSays(subtotal, tax, discount, rounding, lines, <<2026, 1, 31>>, {})] :
     style \in Styles, rounding \in {0, 10}, tax \in {0, 197530},
     discount \in {{}, {50000}}, subtotal \in {-5000, 1234560, 1000000000},
     lines \in {<< >>}} \cup
  {[doc_type |-> "invoice", style |-> style, layout |-> DayFirst,
    says |-> InvoiceSays(subtotal, 197530, {}, 0, <<subtotal - rest, rest + rounding>>,
                         <<2026, 1, 31>>, {})] :
     style \in Styles, rounding \in {0, 10}, subtotal \in {1234560, 1000000000},
     rest \in {50, 1000000}}

DatedInvoices ==
  {[doc_type |-> "invoice", style |-> Anglo, layout |-> layout,
    says |-> InvoiceSays(1234560, 0, {}, 0, << >>, issued, due)] :
     layout \in Layouts, issued \in {<<2024, 2, 28>>, <<2026, 4, 2>>},
     due \in {{}, {<<2026, 4, 2>>}, {<<2026, 5, 31>>}}}

Cards ==
  {[doc_type |-> "ine", style |-> Anglo, layout |-> layout,
    says |-> Texts("ine") @@
             [curp |-> [form |-> "curp", birth |-> ShortDate(born), sex |-> sex[2]],
              date_of_birth |-> {born}, sex |-> sex[1],
              expiration_date |-> [sep |-> "year", parts |-> <<2030, 0, 0>>]]] :
     layout \in Layouts, sex \in Sexes,
     born \in {<<1985, 3, 15>>, <<2004, 2, 29>>, <<2006, 7, 4>>}}

Proofs ==
  {[doc_type |-> "proof_of_address", style |-> Anglo, layout |-> layout,
    says |-> Texts("proof_of_address") @@ [issue_date |-> {issued}]] :
     layout \in Layouts, issued \in {<<2026, 6, 15>>, <<2026, 1, 2>>}}

MCDocuments == AmountInvoices \cup DatedInvoices \cup Cards \cup Proofs
=============================================================================
