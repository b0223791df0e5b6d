--------------------------- MODULE MCPaymentSync ---------------------------
(* PaymentSync on small instances: the constants TLC's runs give it. *)
EXTENDS PaymentSync

CONSTANTS i1, i2, w1, w2

MCInvoices == {i1, i2}
OneWorker == {w1}
TwoWorkers == {w1, w2}
\* A payment of one invoice, one of both, and one with two lines for one.
MCSplits == {<<i1>>, <<i2, i1>>}
MCDoubled == MCSplits \cup {<<i2, i2>>}
\* Kept as credit, applied in part and as a whole; to the other invoice, for a
\* payment of i2.
MCStored == {<<>>, <<i1>>, <<i1, i1>>}
=============================================================================
