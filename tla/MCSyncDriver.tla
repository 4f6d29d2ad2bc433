---------------------------- MODULE MCSyncDriver ----------------------------
(* Three wallet txs on two addresses, pages of 2 rows (25 in the code) and *)
(* a node that accepts counts up to 4 (INT_MAX), so that a full page, a    *)
(* short page, a second page and a rejected page all happen.              *)
EXTENDS SyncDriver

CONSTANTS t1, t2, t3, s1, s2

MCTxAddr == [t \in {t1, t2, t3} |-> IF t = t2 THEN s2 ELSE s1]

MCTxHasFee == [t \in {t1, t2, t3} |-> t = t1]

=============================================================================
