---------------------------- MODULE MCMemoryStore ----------------------------
(***************************************************************************)
(* A small wallet for TLC: three transactions with two owned outputs each, *)
(* two watched scripthashes, heights 0..1.  t2 spends an output of t1 and  *)
(* t3 spends one output of t2 and one of t1, so status changes and purges *)
(* cascade across scripthashes.  MCPrevoutDoubleSpend adds an input of t3 *)
(* that spends the same outpoint as t2 (an RBF double spend); the safety *)
(* runs use it.                                                           *)
(***************************************************************************)
EXTENDS MemoryStore, TLC

CONSTANTS t1, t2, t3, s1, s2

MCFundedScript ==
    [o \in Outpoints |->
        CASE o = <<t1, 0>> -> s1 [] o = <<t1, 1>> -> s2
          [] o = <<t2, 0>> -> s2 [] o = <<t2, 1>> -> s1
          [] o = <<t3, 0>> -> s1 [] o = <<t3, 1>> -> s2]

\* Each owned outpoint is spent by at most one owned input.
MCPrevout ==
    (<<t2, 0>> :> <<t1, 0>>) @@ (<<t3, 0>> :> <<t2, 0>>) @@ (<<t3, 1>> :> <<t1, 1>>)

\* t3's input 1 spends <<t1, 0>>, which t2 spends too.
MCPrevoutDoubleSpend ==
    (<<t2, 0>> :> <<t1, 0>>) @@ (<<t3, 0>> :> <<t2, 0>>) @@ (<<t3, 1>> :> <<t1, 0>>)

=============================================================================
