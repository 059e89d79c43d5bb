--------------------------- MODULE MCDocumentWorker ---------------------------
(* The dossier worker over the example invoice.                            *)
EXTENDS DocumentWorker, MCInvoice
=============================================================================
