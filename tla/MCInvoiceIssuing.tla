--------------------------- MODULE MCInvoiceIssuing ---------------------------
(* Small instances of InvoiceIssuing for TLC. *)
EXTENDS InvoiceIssuing, TLC

Interchangeable == Permutations(Invoices)
=============================================================================
