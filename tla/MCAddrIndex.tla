---------------------------- MODULE MCAddrIndex ----------------------------
(* Two transactions, two addresses, tips 0..2 of a three-block chain. *)
EXTENDS AddrIndex

CONSTANTS t1, t2, s1, s2

\* A conflicting record (-1), a mempool record and confirmed ones.
MCConfirmations == -1 .. 2

=============================================================================
