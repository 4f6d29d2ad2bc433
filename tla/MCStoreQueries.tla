--------------------------- MODULE MCStoreQueries ---------------------------
(* The wallet of MCMemoryStore, with a byte order on its txids. *)
EXTENDS StoreQueries, TLC

CONSTANTS t1, t2, t3, s1, s2

MCFundedScript ==
    [o \in Outpoints |->
        CASE o = <<t1, 0>> -> s1 [] o = <<t1, 1>> -> s2
          [] o = <<t2, 0>> -> s2 [] o = <<t2, 1>> -> s1
          [] o = <<t3, 0>> -> s1 [] o = <<t3, 1>> -> s2]

MCPrevout ==
    (<<t2, 0>> :> <<t1, 0>>) @@ (<<t3, 0>> :> <<t2, 0>>) @@ (<<t3, 1>> :> <<t1, 1>>)

MCTxidRank == (t1 :> 3) @@ (t2 :> 1) @@ (t3 :> 2)

=============================================================================
