--------------------------- MODULE MCInvoiceSync ---------------------------
(* InvoiceSync on small instances: the constants TLC's runs give it. *)
EXTENDS InvoiceSync, TLC

CONSTANTS w1, w2

OneWorker == {w1}
TwoWorkers == {w1, w2}
=============================================================================
