--------------------------- MODULE MCQuotaLedger ---------------------------
(* The ledger on three items, two of them of different sizes, and a        *)
(* catalogue of three plans, the smallest of which holds only one item.    *)
EXTENDS QuotaLedger

MCItems == 1 .. 3
MCSize == [i \in MCItems |-> IF i = 1 THEN 2 ELSE 1]
MCLimits == {2, 3, 5}
=============================================================================
