---------------------------- MODULE MCAddrLocks ----------------------------
(* Two query threads, two update() rounds and two list_unspent calls each, *)
(* a node that mines or reorgs twice.                                     *)
EXTENDS AddrLocks, TLC

CONSTANTS q1, q2

\* No symmetry set: the locks_reader_pref run checks a liveness property,
\* under which TLC's symmetry reduction is unsound.

=============================================================================
