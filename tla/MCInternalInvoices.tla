------------------------- MODULE MCInternalInvoices -------------------------
(* InternalInvoices on small instances: the constants TLC's runs give it. *)
EXTENDS InternalInvoices

CONSTANTS c1, c2, c3, r1

MCClients == {c1, c2, c3}
TwoClients == {c1, c2}
MCTotals == {1, 2}
MCAmounts == {1}
MCRefs == {r1}
=============================================================================
