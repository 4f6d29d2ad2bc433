-------------------------- MODULE SyncDriverProofs --------------------------
(***************************************************************************)
(* Proof that the tip check of load_transactions_since makes every row    *)
(* handed to the chunk handler get the node's status at the time it was   *)
(* read (HandledStatusesTrue), for all txids, page sizes, bounds and       *)
(* HeightMod.                                                              *)
(*                                                                         *)
(* HandledStatusesTrue is not inductive: a page read in "check" is only    *)
(* trustworthy while the tip read at the start is still the best block,   *)
(* and that rests on two facts about the node: the best block is always   *)
(* the newest hash (so a hash that stopped being the tip never returns),  *)
(* and every confirmed wallet tx sits at a height from 1 to the tip (so   *)
(* TxStatus::new inverts the node's confirmation count).                  *)
(***************************************************************************)
EXTENDS SyncDriver, SequenceTheorems, TLAPS

USE SyncAssumption, HeightModAssumption

RowRecs == [txid : Txids, conf : -1 .. MaxBlocks, truth : Statuses]

\* The rows of a page give back the status the node reported.
RowsTrue(c) == \A i \in DOMAIN c : NewStatus(c[i].conf, tipHeight) = c[i].truth

\* The types the proof needs, of the node and of the driver.
NodeTypes ==
    /\ blocks \in 0 .. MaxBlocks
    /\ chain \in Seq(0 .. blocks) /\ Len(chain) \in 1 .. blocks + 1
    /\ wallet \in Seq(Txids)
    /\ \A i \in 1 .. Len(wallet) : wallet[i] \in DOMAIN nodeStatus

DriverTypes ==
    /\ perPage \in Nat \ {0} /\ startIndex \in Nat
    /\ tipHeight \in 0 .. MaxBlocks /\ tipHash \in 0 .. blocks
    /\ chunk \in Seq(RowRecs)

\* The best block is the newest hash; every other block is older.
ChainFresh ==
    /\ BestHash = blocks
    /\ \A i \in 1 .. Len(chain) - 1 : chain[i] < blocks

\* Confirmed wallet txs are in the chain.
NodeStatusesSound ==
    \A t \in DOMAIN nodeStatus :
        nodeStatus[t] \in {Unconfirmed, Conflicted} \cup {Confirmed(h) : h \in 1 .. NodeTip}

NodeInv == NodeTypes /\ ChainFresh /\ NodeStatusesSound

\* What the attempt read of the tip, and what it may trust of its page.
TipTracked ==
    /\ pc \in {"hash", "fetch", "check", "process"} => tipHeight <= NodeTip
    /\ pc \in {"fetch", "check", "process"} =>
          (tipHash = BestHash => tipHeight = NodeTip)
    /\ (pc = "check" /\ tipHash = BestHash) => RowsTrue(chunk)
    /\ pc = "process" => RowsTrue(chunk)

IInv == NodeInv /\ DriverTypes /\ TipTracked

-----------------------------------------------------------------------------
(* The node's tip is below HeightMod, so heights do not wrap. *)
LEMMA TipBelowMod ==
    ASSUME NodeTypes PROVE NodeTip \in 0 .. HeightMod - 1
BY DEF NodeTypes, NodeTip

(* The confirmation count the node reports is at least -1 and at most the
   tip height. *)
LEMMA ConfsRange ==
    ASSUME NEW t, NodeTip \in Nat,
           IsConfirmed(nodeStatus[t]) => nodeStatus[t].height \in 1 .. NodeTip
    PROVE  Confs(t) \in -1 .. NodeTip
<1>1. CASE IsConfirmed(nodeStatus[t])
  <2>1. Confs(t) = NodeTip - nodeStatus[t].height + 1
    BY <1>1 DEF Confs, IsConfirmed, IsUnconfirmed
  <2>. QED
    BY <1>1, <2>1
<1>2. CASE ~IsConfirmed(nodeStatus[t])
  <2>1. Confs(t) \in {0, -1}
    BY <1>2 DEF Confs, IsConfirmed, IsUnconfirmed
  <2>. QED
    BY <2>1
<1>. QED
  BY <1>1, <1>2

(* TxStatus::new(confirmations, tip) gives back the node's status of every
   wallet tx when the tip is the node's tip. *)
LEMMA NodeStatusInverts ==
    ASSUME NodeTypes, NodeStatusesSound, NEW t \in DOMAIN nodeStatus
    PROVE  NewStatus(Confs(t), NodeTip) = nodeStatus[t]
<1>1. NodeTip \in 0 .. HeightMod - 1
  BY TipBelowMod
<1>2. CASE nodeStatus[t] = Unconfirmed
  BY <1>2 DEF Confs, NewStatus, Unconfirmed, IsConfirmed, IsUnconfirmed
<1>3. CASE nodeStatus[t] = Conflicted
  BY <1>3 DEF Confs, NewStatus, Conflicted, IsConfirmed, IsUnconfirmed
<1>4. CASE \E h \in 1 .. NodeTip : nodeStatus[t] = Confirmed(h)
  <2>1. PICK h \in 1 .. NodeTip : nodeStatus[t] = Confirmed(h)
    BY <1>4
  <2>2. Confs(t) = NodeTip - h + 1
    BY <2>1 DEF Confs, Confirmed, IsConfirmed, IsUnconfirmed
  <2>3. (NodeTip - (NodeTip - h + 1) + 1) % HeightMod = h
    BY <1>1
  <2>4. Confs(t) > 0
    BY <1>1, <2>2
  <2>. QED
    BY <2>1, <2>2, <2>3, <2>4 DEF NewStatus
<1>. QED
  BY <1>2, <1>3, <1>4 DEF NodeStatusesSound

(* Reverse keeps a sequence's length and elements. *)
LEMMA ReverseProps ==
    ASSUME NEW S, NEW q \in Seq(S)
    PROVE  /\ Reverse(q) \in Seq(S)
           /\ Len(Reverse(q)) = Len(q)
           /\ \A i \in 1 .. Len(q) : /\ Len(q) - i + 1 \in 1 .. Len(q)
                                    /\ Reverse(q)[i] = q[Len(q) - i + 1]
BY DEF Reverse

(* A page read at the node's tip gives back the node's statuses. *)
LEMMA PageTrue ==
    ASSUME NodeTypes, NodeStatusesSound, NEW count \in Nat, NEW from \in Nat
    PROVE  /\ ListTransactions(count, from) \in Seq(RowRecs)
           /\ \A i \in DOMAIN ListTransactions(count, from) :
                 NewStatus(ListTransactions(count, from)[i].conf, NodeTip)
                    = ListTransactions(count, from)[i].truth
<1>. DEFINE n == IF from + count < Len(wallet) THEN count
                 ELSE IF from < Len(wallet) THEN Len(wallet) - from ELSE 0
            page == [i \in 1 .. n |-> Row(wallet[from + i])]
<1>1. n \in Nat /\ \A i \in 1 .. n : from + i \in 1 .. Len(wallet)
  BY DEF NodeTypes
<1>2. \A i \in 1 .. n : /\ Row(wallet[from + i]) \in RowRecs
                        /\ NewStatus(Row(wallet[from + i]).conf, NodeTip)
                              = Row(wallet[from + i]).truth
  <2>. SUFFICES ASSUME NEW i \in 1 .. n
                PROVE  /\ Row(wallet[from + i]) \in RowRecs
                       /\ NewStatus(Row(wallet[from + i]).conf, NodeTip)
                             = Row(wallet[from + i]).truth
    OBVIOUS
  <2>1. wallet[from + i] \in DOMAIN nodeStatus /\ wallet[from + i] \in Txids
    BY <1>1 DEF NodeTypes
  <2>2. NewStatus(Confs(wallet[from + i]), NodeTip) = nodeStatus[wallet[from + i]]
    BY <2>1, NodeStatusInverts
  <2>3. nodeStatus[wallet[from + i]] \in Statuses
    BY <2>1, TipBelowMod DEF NodeStatusesSound, Statuses, Heights
  <2>4. Confs(wallet[from + i]) \in -1 .. MaxBlocks
    <3>1. NodeTip \in 0 .. MaxBlocks
      BY DEF NodeTypes, NodeTip
    <3>2. IsConfirmed(nodeStatus[wallet[from + i]])
             => nodeStatus[wallet[from + i]].height \in 1 .. NodeTip
      BY <2>1, <3>1 DEF NodeStatusesSound, IsConfirmed, Confirmed, Unconfirmed, Conflicted
    <3>3. Confs(wallet[from + i]) \in -1 .. NodeTip
      BY <3>1, <3>2, ConfsRange
    <3>. QED
      BY <3>1, <3>3
  <2>. QED
    BY <2>1, <2>2, <2>3, <2>4 DEF Row, RowRecs
<1>3. page \in Seq(RowRecs)
  BY <1>1, <1>2
<1>4. ListTransactions(count, from) = Reverse(page)
  BY DEF ListTransactions
<1>5. Len(page) = n
  BY <1>1
<1>6. \A i \in DOMAIN Reverse(page) :
         NewStatus(Reverse(page)[i].conf, NodeTip) = Reverse(page)[i].truth
  <2>. SUFFICES ASSUME NEW i \in DOMAIN Reverse(page)
                PROVE  NewStatus(Reverse(page)[i].conf, NodeTip) = Reverse(page)[i].truth
    OBVIOUS
  <2>1. i \in 1 .. n
    BY <1>5 DEF Reverse
  <2>2. n - i + 1 \in 1 .. n /\ Reverse(page)[i] = page[n - i + 1]
    BY <1>1, <1>5, <2>1 DEF Reverse
  <2>. QED
    BY <1>2, <2>2
<1>7. Reverse(page) \in Seq(RowRecs)
  BY <1>3, ReverseProps
<1>. QED
  BY <1>4, <1>6, <1>7

-----------------------------------------------------------------------------
(* The initial state. *)
LEMMA InitIInv == Init => IInv
<1>. SUFFICES ASSUME Init PROVE IInv
  OBVIOUS
<1>1. NodeInv
  BY DEF Init, NodeInv, NodeTypes, ChainFresh, NodeStatusesSound, BestHash
<1>2. DriverTypes
  BY DEF Init, DriverTypes
<1>3. TipTracked
  BY DEF Init, TipTracked
<1>. QED
  BY <1>1, <1>2, <1>3 DEF IInv

(* A step that leaves the node alone keeps the node's invariant. *)
LEMMA NodeKept ==
    ASSUME NodeInv, UNCHANGED nodeVars PROVE NodeInv'
BY DEF NodeInv, NodeTypes, ChainFresh, NodeStatusesSound, NodeTip, BestHash, nodeVars

(* A step that changes the node and leaves the driver alone keeps TipTracked
   when the best block is a fresh hash or is unchanged. *)
LEMMA DriverKept ==
    ASSUME IInv, NodeInv', UNCHANGED driverVars,
           NodeTip' >= NodeTip,
           BestHash' = BestHash \/ BestHash' = blocks + 1,
           blocks' \in {blocks, blocks + 1},
           NodeTip' = NodeTip \/ BestHash' = blocks + 1
    PROVE  DriverTypes' /\ TipTracked'
<1>1. DriverTypes'
  BY DEF IInv, DriverTypes, NodeInv, NodeTypes, driverVars
<1>2. BestHash' = BestHash => NodeTip' = NodeTip
  BY DEF IInv, NodeInv, NodeTypes, ChainFresh
<1>3. tipHash # blocks + 1
  BY DEF IInv, DriverTypes, NodeInv, NodeTypes
<1>4. RowsTrue(chunk)' = RowsTrue(chunk)
  BY DEF RowsTrue, driverVars
<1>5. tipHash = BestHash' => tipHash = BestHash /\ NodeTip' = NodeTip
  BY <1>2, <1>3
<1>6. TipTracked'
  <2>0. NodeTip \in Int /\ NodeTip' \in Int /\ tipHeight \in Int
    BY DEF IInv, NodeInv, NodeTypes, NodeTip, DriverTypes
  <2>1. (pc \in {"hash", "fetch", "check", "process"} => tipHeight <= NodeTip)'
    BY <2>0 DEF IInv, TipTracked, driverVars
  <2>2. (pc \in {"fetch", "check", "process"} =>
          (tipHash = BestHash => tipHeight = NodeTip))'
    BY <1>5 DEF IInv, TipTracked, driverVars
  <2>3. ((pc = "check" /\ tipHash = BestHash) => RowsTrue(chunk))'
    BY <1>4, <1>5 DEF IInv, TipTracked, driverVars
  <2>4. (pc = "process" => RowsTrue(chunk))'
    BY <1>4 DEF IInv, TipTracked, driverVars
  <2>. QED
    BY <2>1, <2>2, <2>3, <2>4 DEF TipTracked
<1>. QED
  BY <1>1, <1>6

-----------------------------------------------------------------------------
(* A tx entering the mempool is prepended to the wallet's list. *)
LEMMA NewTxIInv ==
    ASSUME IInv, NEW t \in Txids, NewTx(t), UNCHANGED driverVars
    PROVE  IInv'
<1>1. NodeTypes'
  <2>1. wallet' \in Seq(Txids) /\ Len(wallet') = Len(wallet) + 1
    BY DEF NewTx, IInv, NodeInv, NodeTypes
  <2>2. \A i \in 1 .. Len(wallet') : wallet'[i] \in DOMAIN nodeStatus'
    <3>. SUFFICES ASSUME NEW i \in 1 .. Len(wallet') PROVE wallet'[i] \in DOMAIN nodeStatus'
      OBVIOUS
    <3>1. wallet'[i] = IF i = 1 THEN t ELSE wallet[i - 1]
      BY <2>1 DEF NewTx, IInv, NodeInv, NodeTypes
    <3>. QED
      BY <2>1, <3>1 DEF NewTx, IInv, NodeInv, NodeTypes
  <2>. QED
    BY <2>1, <2>2 DEF NewTx, IInv, NodeInv, NodeTypes
<1>2. ChainFresh' /\ NodeStatusesSound'
  BY DEF NewTx, IInv, NodeInv, ChainFresh, NodeStatusesSound, NodeTip, BestHash
<1>3. DriverTypes' /\ TipTracked'
  BY <1>1, <1>2, DriverKept DEF NewTx, NodeInv, NodeTip, BestHash
<1>. QED
  BY <1>1, <1>2, <1>3 DEF IInv, NodeInv

(* A block appends a fresh hash and confirms some mempool txs at its height. *)
LEMMA MineBlockIInv ==
    ASSUME IInv, NEW c \in SUBSET MempoolTxs, NEW d \in SUBSET MempoolTxs,
           MineBlock(c, d), UNCHANGED driverVars
    PROVE  IInv'
<1>1. NodeTypes'
  BY DEF MineBlock, IInv, NodeInv, NodeTypes
<1>2. ChainFresh'
  BY DEF MineBlock, IInv, NodeInv, NodeTypes, ChainFresh, BestHash
<1>3. NodeTip' = NodeTip + 1
  BY DEF MineBlock, IInv, NodeInv, NodeTypes, NodeTip
<1>4. NodeStatusesSound'
  <2>. SUFFICES ASSUME NEW x \in DOMAIN nodeStatus'
                PROVE  nodeStatus'[x] \in {Unconfirmed, Conflicted}
                                         \cup {Confirmed(h) : h \in 1 .. NodeTip'}
    BY DEF NodeStatusesSound
  <2>0. NodeTip \in Nat /\ x \in DOMAIN nodeStatus
    BY DEF MineBlock, IInv, NodeInv, NodeTypes, NodeTip
  <2>1. CASE x \in c
    <3>1. nodeStatus'[x] = Confirmed(NodeTip + 1)
      BY <2>0, <2>1 DEF MineBlock
    <3>. QED
      BY <1>3, <2>0, <3>1
  <2>2. CASE x \notin c /\ x \in d
    BY <2>0, <2>2 DEF MineBlock
  <2>3. CASE x \notin c /\ x \notin d
    <3>1. nodeStatus'[x] = nodeStatus[x]
      BY <2>0, <2>3 DEF MineBlock
    <3>. QED
      BY <1>3, <2>0, <3>1 DEF IInv, NodeInv, NodeStatusesSound
  <2>. QED
    BY <2>1, <2>2, <2>3
<1>5. BestHash' = blocks + 1 /\ blocks' = blocks + 1
  BY DEF MineBlock, IInv, NodeInv, NodeTypes, BestHash
<1>6. DriverTypes' /\ TipTracked'
  BY <1>1, <1>2, <1>3, <1>4, <1>5, DriverKept DEF NodeInv, IInv, NodeTypes, NodeTip
<1>. QED
  BY <1>1, <1>2, <1>4, <1>6 DEF IInv, NodeInv

(* A reorg replaces the tip by a fresh hash at the same height and sends the
   tip's txs back to the mempool or conflicts them. *)
LEMMA ReorgIInv ==
    ASSUME IInv, NEW d \in SUBSET ToSet(wallet), Reorg(d), UNCHANGED driverVars
    PROVE  IInv'
<1>1. NodeTypes'
  BY DEF Reorg, IInv, NodeInv, NodeTypes
<1>2. ChainFresh'
  BY DEF Reorg, IInv, NodeInv, NodeTypes, ChainFresh, BestHash
<1>3. NodeTip' = NodeTip
  BY DEF Reorg, IInv, NodeInv, NodeTypes, NodeTip
<1>4. NodeStatusesSound'
  <2>. SUFFICES ASSUME NEW x \in DOMAIN nodeStatus'
                PROVE  nodeStatus'[x] \in {Unconfirmed, Conflicted}
                                         \cup {Confirmed(h) : h \in 1 .. NodeTip'}
    BY DEF NodeStatusesSound
  <2>0. x \in DOMAIN nodeStatus
    BY DEF Reorg
  <2>1. CASE nodeStatus[x] # Confirmed(NodeTip)
    <3>1. nodeStatus'[x] = nodeStatus[x]
      BY <2>0, <2>1 DEF Reorg
    <3>. QED
      BY <1>3, <2>0, <3>1 DEF IInv, NodeInv, NodeStatusesSound
  <2>2. CASE nodeStatus[x] = Confirmed(NodeTip)
    BY <2>0, <2>2 DEF Reorg
  <2>. QED
    BY <2>1, <2>2
<1>5. BestHash' = blocks + 1 /\ blocks' = blocks + 1
  BY DEF Reorg, IInv, NodeInv, NodeTypes, BestHash
<1>6. DriverTypes' /\ TipTracked'
  <2>1. NodeTip \in Int
    BY DEF IInv, NodeInv, NodeTypes, NodeTip
  <2>2. NodeTip' >= NodeTip
    BY <1>3, <2>1
  <2>. QED
    BY <1>1, <1>2, <1>4, <1>5, <2>2, DriverKept DEF NodeInv
<1>. QED
  BY <1>1, <1>2, <1>4, <1>6 DEF IInv, NodeInv

-----------------------------------------------------------------------------
(* The steps of load_transactions_since that leave the attempt (a call of
   update, an error, a restart, a return) owe TipTracked nothing. *)
LEMMA LeaveIInv ==
    ASSUME IInv,
           Call \/ FetchRejected \/ RpcError \/ TipChanged \/ SentinelMismatch \/ Return
    PROVE  IInv'
<1>1. UNCHANGED nodeVars /\ pc' \in {"height", "done", "failed"}
  BY DEF Call, FetchRejected, RpcError, TipChanged, SentinelMismatch, Return,
         Restart, StartCall, nodeVars
<1>2. NodeInv'
  BY <1>1, NodeKept DEF IInv
<1>3. DriverTypes'
  <2>1. CASE Call
    BY <2>1 DEF Call, StartCall, IInv, DriverTypes, nodeVars
  <2>2. CASE TipChanged \/ SentinelMismatch
    <3>1. Restart
      BY <2>2 DEF TipChanged, SentinelMismatch
    <3>. QED
      BY <1>1, <3>1 DEF Restart, StartCall, IInv, DriverTypes, nodeVars
  <2>3. CASE FetchRejected \/ RpcError \/ Return
    BY <1>1, <2>3 DEF FetchRejected, RpcError, Return, IInv, DriverTypes, nodeVars
  <2>. QED
    BY <2>1, <2>2, <2>3
<1>4. TipTracked'
  BY <1>1 DEF TipTracked
<1>. QED
  BY <1>2, <1>3, <1>4 DEF IInv

(* get_block_count reads the node's tip height. *)
LEMMA GetBlockCountIInv ==
    ASSUME IInv, GetBlockCount PROVE IInv'
<1>1. NodeInv'
  BY NodeKept DEF IInv, GetBlockCount
<1>2. NodeTip \in 0 .. MaxBlocks
  BY DEF IInv, NodeInv, NodeTypes, NodeTip
<1>3. DriverTypes'
  BY <1>2 DEF GetBlockCount, IInv, DriverTypes, nodeVars
<1>4. TipTracked'
  BY DEF GetBlockCount, TipTracked, NodeTip, nodeVars
<1>. QED
  BY <1>1, <1>3, <1>4 DEF IInv

(* get_block_hash(tip_height) gives the best hash only if tip_height is still
   the tip: every hash below the tip is older than the best one. *)
LEMMA GetBlockHashIInv ==
    ASSUME IInv, GetBlockHash PROVE IInv'
<1>1. NodeInv'
  BY NodeKept DEF IInv, GetBlockHash
<1>2. tipHeight \in 0 .. NodeTip /\ NodeTip \in Nat
  BY DEF GetBlockHash, IInv, TipTracked, DriverTypes, NodeInv, NodeTypes, NodeTip
<1>3. tipHash' = chain[tipHeight + 1] /\ tipHeight + 1 \in 1 .. Len(chain)
  BY <1>2 DEF GetBlockHash, NodeTip
<1>4. DriverTypes'
  BY <1>3 DEF GetBlockHash, IInv, DriverTypes, NodeInv, NodeTypes, nodeVars
<1>5. tipHash' = BestHash => tipHeight = NodeTip
  <2>. SUFFICES ASSUME tipHeight # NodeTip PROVE tipHash' # BestHash
    OBVIOUS
  <2>1. tipHeight + 1 \in 1 .. Len(chain) - 1
    BY <1>2, <1>3 DEF NodeTip
  <2>2. chain[tipHeight + 1] < blocks /\ BestHash = blocks
    BY <2>1 DEF IInv, NodeInv, ChainFresh
  <2>3. chain[tipHeight + 1] \in Int /\ blocks \in Int
    BY <1>3 DEF IInv, NodeInv, NodeTypes
  <2>. QED
    BY <1>3, <2>2, <2>3
<1>6. TipTracked'
  BY <1>2, <1>5 DEF GetBlockHash, TipTracked, NodeTip, BestHash, nodeVars
<1>. QED
  BY <1>1, <1>4, <1>6 DEF IInv

(* listtransactions reads a page that is true at the node's tip; it is true
   at tip_height when the tip has not moved. *)
LEMMA FetchPageIInv ==
    ASSUME IInv, FetchPage PROVE IInv'
<1>1. NodeInv'
  BY NodeKept DEF IInv, FetchPage
<1>2. /\ chunk' \in Seq(RowRecs)
      /\ \A i \in DOMAIN chunk' : NewStatus(chunk'[i].conf, NodeTip) = chunk'[i].truth
  <2>1. perPage \in Nat /\ startIndex \in Nat /\ NodeTypes /\ NodeStatusesSound
    BY DEF IInv, NodeInv, DriverTypes
  <2>2. chunk' = ListTransactions(perPage, startIndex)
    BY DEF FetchPage
  <2>. QED
    BY <2>1, <2>2, PageTrue
<1>3. DriverTypes'
  BY <1>2 DEF FetchPage, IInv, DriverTypes, nodeVars
<1>4. tipHash = BestHash => RowsTrue(chunk')
  BY <1>2 DEF FetchPage, IInv, TipTracked, RowsTrue
<1>5. TipTracked'
  <2>1. UNCHANGED <<tipHeight, tipHash, chain, blocks>> /\ pc' = "check" /\ pc = "fetch"
    BY DEF FetchPage, nodeVars
  <2>2. RowsTrue(chunk)' = RowsTrue(chunk')
    BY <2>1 DEF RowsTrue
  <2>. QED
    BY <1>4, <2>1, <2>2 DEF TipTracked, NodeTip, BestHash, IInv
<1>. QED
  BY <1>1, <1>3, <1>5 DEF IInv

(* A sub-sequence of true rows is true. *)
LEMMA RowsTrueSub ==
    ASSUME NEW c \in Seq(RowRecs), RowsTrue(c), NEW k \in 0 .. Len(c)
    PROVE  SubSeq(c, 1, k) \in Seq(RowRecs) /\ RowsTrue(SubSeq(c, 1, k))
BY DEF RowsTrue

(* Both checks passed with the tip unmoved: the rows kept are true. *)
LEMMA AcceptPageIInv ==
    ASSUME IInv, AcceptPage PROVE IInv'
<1>. DEFINE rows == IF oldestSeen = None THEN chunk ELSE Front(chunk)
<1>1. NodeInv'
  BY NodeKept DEF IInv, AcceptPage
<1>2. chunk \in Seq(RowRecs) /\ RowsTrue(chunk)
  BY DEF AcceptPage, IInv, TipTracked, DriverTypes
<1>3. rows \in Seq(RowRecs) /\ RowsTrue(rows)
  <2>1. CASE oldestSeen = None
    BY <1>2, <2>1
  <2>2. CASE oldestSeen # None
    <3>1. Len(chunk) - 1 \in 0 .. Len(chunk) \/ chunk = << >>
      BY <1>2
    <3>2. CASE chunk = << >>
      BY <1>2, <2>2, <3>2 DEF Front, RowsTrue
    <3>3. CASE Len(chunk) - 1 \in 0 .. Len(chunk)
      BY <1>2, <2>2, <3>3, RowsTrueSub DEF Front
    <3>. QED
      BY <3>1, <3>2, <3>3
  <2>. QED
    BY <2>1, <2>2
<1>4. chunk' = rows /\ pc' = "process"
      /\ UNCHANGED <<tipHeight, tipHash, perPage, startIndex, chain, blocks>>
  BY DEF AcceptPage, nodeVars
<1>5. RowsTrue(chunk)'
  BY <1>3, <1>4 DEF RowsTrue
<1>6. DriverTypes'
  BY <1>3, <1>4 DEF IInv, DriverTypes
<1>7. TipTracked'
  BY <1>4, <1>5 DEF AcceptPage, IInv, TipTracked, NodeTip, BestHash
<1>. QED
  BY <1>1, <1>6, <1>7 DEF IInv

(* The handler takes the oldest row; the rows left stay true. *)
LEMMA ProcessRowIInv ==
    ASSUME IInv, ProcessRow PROVE IInv'
<1>1. NodeInv'
  BY NodeKept DEF IInv, ProcessRow
<1>2. chunk \in Seq(RowRecs) /\ RowsTrue(chunk) /\ chunk # << >>
  BY DEF ProcessRow, IInv, TipTracked, DriverTypes
<1>3. chunk' = Tail(chunk) /\ pc' = "process"
      /\ UNCHANGED <<tipHeight, tipHash, perPage, startIndex, chain, blocks>>
  BY DEF ProcessRow, nodeVars
<1>4. Tail(chunk) \in Seq(RowRecs)
      /\ \A i \in 1 .. Len(Tail(chunk)) : Tail(chunk)[i] = chunk[i + 1]
  BY <1>2, HeadTailProperties
<1>5. RowsTrue(chunk)'
  BY <1>2, <1>3, <1>4 DEF RowsTrue
<1>6. DriverTypes'
  BY <1>3, <1>4 DEF IInv, DriverTypes
<1>7. TipTracked'
  BY <1>3, <1>5 DEF ProcessRow, IInv, TipTracked, NodeTip, BestHash
<1>. QED
  BY <1>1, <1>6, <1>7 DEF IInv

(* The next page of the same attempt keeps the tip read at its start. *)
LEMMA NextPageIInv ==
    ASSUME IInv, NextPage PROVE IInv'
<1>1. NodeInv'
  BY NodeKept DEF IInv, NextPage
<1>2. DriverTypes'
  BY DEF NextPage, IInv, DriverTypes, nodeVars
<1>3. TipTracked'
  BY DEF NextPage, IInv, TipTracked, NodeTip, BestHash, nodeVars
<1>. QED
  BY <1>1, <1>2, <1>3 DEF IInv

-----------------------------------------------------------------------------
(* Every step of the node, of the driver, and every stutter keeps IInv. *)
LEMMA NextIInv ==
    ASSUME IInv, [Next]_vars PROVE IInv'
<1>1. CASE NodeNext
  <2>1. UNCHANGED driverVars
    BY <1>1 DEF NodeNext
  <2>2. CASE \E t \in Txids : NewTx(t)
    BY <2>1, <2>2, NewTxIInv
  <2>3. CASE \E c, d \in SUBSET MempoolTxs : MineBlock(c, d)
    BY <2>1, <2>3, MineBlockIInv
  <2>4. CASE \E d \in SUBSET {x \in ToSet(wallet) : nodeStatus[x] = Confirmed(NodeTip)} :
               Reorg(d)
    <3>1. PICK d \in SUBSET {x \in ToSet(wallet) : nodeStatus[x] = Confirmed(NodeTip)} :
            Reorg(d)
      BY <2>4
    <3>2. d \in SUBSET ToSet(wallet)
      OBVIOUS
    <3>. QED
      BY <2>1, <3>1, <3>2, ReorgIInv
  <2>. QED
    BY <1>1, <2>2, <2>3, <2>4 DEF NodeNext
<1>2. CASE DriverNext
  <2>1. CASE Call \/ FetchRejected \/ RpcError \/ TipChanged \/ SentinelMismatch \/ Return
    BY <2>1, LeaveIInv
  <2>2. CASE GetBlockCount
    BY <2>2, GetBlockCountIInv
  <2>3. CASE GetBlockHash
    BY <2>3, GetBlockHashIInv
  <2>4. CASE FetchPage
    BY <2>4, FetchPageIInv
  <2>5. CASE AcceptPage
    BY <2>5, AcceptPageIInv
  <2>6. CASE ProcessRow
    BY <2>6, ProcessRowIInv
  <2>7. CASE NextPage
    BY <2>7, NextPageIInv
  <2>. QED
    BY <1>2, <2>1, <2>2, <2>3, <2>4, <2>5, <2>6, <2>7 DEF DriverNext
<1>3. CASE UNCHANGED vars
  <2>1. UNCHANGED nodeVars /\ UNCHANGED driverVars
    BY <1>3 DEF vars
  <2>2. NodeInv'
    BY <2>1, NodeKept DEF IInv
  <2>. QED
    BY <2>1, <2>2 DEF IInv, DriverTypes, TipTracked, RowsTrue, NodeTip, BestHash,
                      nodeVars, driverVars
<1>. QED
  BY <1>1, <1>2, <1>3 DEF Next

(* load_transactions_since hands the chunk handler only rows whose status,
   derived from the confirmation count and the tip height read at the start
   of the attempt, is the status the node gave the tx: for every set of
   txids, page size, start height and integer width, and however the chain
   grows or reorganises between the RPCs of an attempt. *)
THEOREM HandledStatusesCorrect == Spec => []HandledStatusesTrue
<1>1. IInv => HandledStatusesTrue
  BY DEF IInv, TipTracked, RowsTrue, HandledStatusesTrue
<1>. QED
  BY <1>1, InitIInv, NextIInv, PTL DEF Spec


-----------------------------------------------------------------------------
(***************************************************************************)
(* The type invariant of the driver and of the index it fills.  The index *)
(* part reuses the proofs about AddrIndex through an instance.  That       *)
(* instance gets the confirmation counts and the tip heights that          *)
(* load_transactions_since hands to process_ltx.                           *)
(***************************************************************************)
IdxP == INSTANCE AddrIndexProofs WITH Confirmations <- -1 .. MaxBlocks,
                                      MaxTip <- MaxBlocks

\* The instance's assumption holds of the values it is given.
LEMMA IdxAssumptionHolds ==
    (-1 .. MaxBlocks) \subseteq Int /\ MaxBlocks \in IdxP!Heights
BY DEF IdxP!Heights

PcValues == {"height", "hash", "fetch", "check", "process", "done", "failed"}

\* What TypeOK says beyond IInv: the wallet's txids are the node's, and the
\* index is well typed with every history entry current.
SyncTypes ==
    /\ DOMAIN nodeStatus = ToSet(wallet)
    /\ pc \in PcValues
    /\ oldestSeen \in Txids \cup {None}
    /\ exhausted \in BOOLEAN /\ quiet \in BOOLEAN
    /\ IdxP!IndexInv

LEMMA IndexKept ==
    ASSUME IdxP!IndexInv, UNCHANGED indexVars PROVE IdxP!IndexInv'
BY DEF IdxP!IndexInv, IdxP!MapsTyped, IdxP!Current, indexVars

LEMMA InitSyncTypes == Init => SyncTypes
<1>. SUFFICES ASSUME Init PROVE SyncTypes
  OBVIOUS
<1>1. DOMAIN nodeStatus = ToSet(wallet)
  BY DEF Init, ToSet
<1>2. IdxP!IndexInv
  BY DEF Init, Idx!Init, IdxP!IndexInv, IdxP!MapsTyped, IdxP!Current
<1>. QED
  BY <1>1, <1>2 DEF Init, SyncTypes, PcValues, SyncAssumption

(* A tx entering the node's wallet is prepended to the list and given a
   status; a block or a reorg changes statuses only. *)
LEMMA NodeSyncTypes ==
    ASSUME IInv, SyncTypes, NodeNext PROVE SyncTypes'
<1>1. UNCHANGED <<driverVars, indexVars>> /\ quiet' \in BOOLEAN
  BY DEF NodeNext
<1>2. IdxP!IndexInv'
  BY <1>1, IndexKept DEF SyncTypes
<1>3. DOMAIN nodeStatus' = ToSet(wallet')
  <2>1. CASE \E t \in Txids : NewTx(t)
    <3>1. PICK t \in Txids : NewTx(t)
      BY <2>1
    <3>2. wallet \in Seq(Txids)
      BY DEF IInv, NodeInv, NodeTypes
    <3>3. DOMAIN nodeStatus' = DOMAIN nodeStatus \cup {t}
      BY <3>1 DEF NewTx
    <3>4. ToSet(wallet') = ToSet(wallet) \cup {t}
      <4>1. wallet' = <<t>> \o wallet
        BY <3>1 DEF NewTx
      <4>2. Len(wallet') = Len(wallet) + 1 /\ wallet'[1] = t
            /\ \A i \in 1 .. Len(wallet) : wallet'[i + 1] = wallet[i]
        BY <3>2, <4>1
      <4>3. DOMAIN wallet' = 1 .. Len(wallet) + 1 /\ DOMAIN wallet = 1 .. Len(wallet)
        BY <3>2, <4>1
      <4>. QED
        <5>1. ToSet(wallet') \subseteq ToSet(wallet) \cup {t}
          <6>. SUFFICES ASSUME NEW i \in 1 .. Len(wallet) + 1
                        PROVE  wallet'[i] \in ToSet(wallet) \cup {t}
            BY <4>3 DEF ToSet
          <6>1. CASE i = 1
            BY <6>1, <4>2
          <6>2. CASE i # 1
            <7>1. i - 1 \in 1 .. Len(wallet) /\ wallet'[i] = wallet[i - 1]
              BY <6>2, <4>2, <3>2
            <7>. QED  BY <7>1, <4>3 DEF ToSet
          <6>. QED  BY <6>1, <6>2
        <5>2. ToSet(wallet) \cup {t} \subseteq ToSet(wallet')
          BY <4>2, <4>3, <3>2 DEF ToSet
        <5>. QED  BY <5>1, <5>2
    <3>. QED
      BY <3>3, <3>4 DEF SyncTypes
  <2>2. CASE \E c, d \in SUBSET MempoolTxs : MineBlock(c, d)
    BY <2>2 DEF MineBlock, SyncTypes
  <2>3. CASE \E d \in SUBSET {x \in ToSet(wallet) : nodeStatus[x] = Confirmed(NodeTip)} :
               Reorg(d)
    BY <2>3 DEF Reorg, SyncTypes
  <2>. QED
    BY <2>1, <2>2, <2>3 DEF NodeNext
<1>. QED
  BY <1>1, <1>2, <1>3 DEF SyncTypes, driverVars

(* The index of SyncDriver (Idx) and the instance of its proofs (IdxP) are
   instances of the same AddrIndex with the same substitutions, so their
   operators agree; one lemma per layer of definitions. *)
LEMMA IdxSameStatus ==
    ASSUME NEW c, NEW h, NEW a, NEW b
    PROVE  /\ Idx!NewStatus(c, h) = IdxP!NewStatus(c, h)
           /\ Idx!IsViable(a) = IdxP!IsViable(a)
           /\ Idx!StatusCmp(a, b) = IdxP!StatusCmp(a, b)
BY DEF Idx!NewStatus, IdxP!NewStatus, Idx!IsViable, IdxP!IsViable,
       Idx!Confirmed, IdxP!Confirmed, Idx!Unconfirmed, IdxP!Unconfirmed,
       Idx!Conflicted, IdxP!Conflicted, Idx!StatusCmp, IdxP!StatusCmp,
       Idx!KindRank, IdxP!KindRank, Idx!IntCmp, IdxP!IntCmp

LEMMA IdxSameSets ==
    ASSUME NEW set, NEW x
    PROVE  /\ Idx!BRemove(set, x) = IdxP!BRemove(set, x)
           /\ Idx!BInsert(set, x) = IdxP!BInsert(set, x)
           /\ Idx!BContains(set, x) = IdxP!BContains(set, x)
<1>1. \A y : Idx!SameKey(y, x) = IdxP!SameKey(y, x)
  BY IdxSameStatus DEF Idx!SameKey, IdxP!SameKey
<1>2. Idx!BContains(set, x) = IdxP!BContains(set, x)
  BY <1>1 DEF Idx!BContains, IdxP!BContains
<1>. QED
  BY <1>1, <1>2 DEF Idx!BRemove, IdxP!BRemove, Idx!BInsert, IdxP!BInsert

LEMMA IdxSameMaps ==
    ASSUME NEW txid, NEW st, NEW fee, NEW hmap, NEW sh, NEW h, NEW o, NEW n
    PROVE  /\ Idx!HistoryEntry(txid, st) = IdxP!HistoryEntry(txid, st)
           /\ Idx!UpdateTxStatus(hmap, txid, o, n) = IdxP!UpdateTxStatus(hmap, txid, o, n)
           /\ Idx!IndexTxEntry(txid, st, fee) = IdxP!IndexTxEntry(txid, st, fee)
           /\ Idx!IndexAddressHistory(hmap, sh, h) = IdxP!IndexAddressHistory(hmap, sh, h)
<1>1. Idx!HistoryEntry(txid, st) = IdxP!HistoryEntry(txid, st)
  BY DEF Idx!HistoryEntry, IdxP!HistoryEntry
<1>2. \A hm, t, p, q : Idx!UpdateTxStatus(hm, t, p, q) = IdxP!UpdateTxStatus(hm, t, p, q)
  <2>. SUFFICES ASSUME NEW hm, NEW t, NEW p, NEW q
                PROVE  Idx!UpdateTxStatus(hm, t, p, q) = IdxP!UpdateTxStatus(hm, t, p, q)
    OBVIOUS
  <2>1. Idx!HistoryEntry(t, p) = IdxP!HistoryEntry(t, p)
        /\ Idx!HistoryEntry(t, q) = IdxP!HistoryEntry(t, q)
    BY DEF Idx!HistoryEntry, IdxP!HistoryEntry
  <2>2. \A k \in DOMAIN hm :
          /\ Idx!BContains(hm[k], Idx!HistoryEntry(t, p))
               = IdxP!BContains(hm[k], IdxP!HistoryEntry(t, p))
          /\ Idx!BInsert(Idx!BRemove(hm[k], Idx!HistoryEntry(t, p)), Idx!HistoryEntry(t, q))
               = IdxP!BInsert(IdxP!BRemove(hm[k], IdxP!HistoryEntry(t, p)),
                              IdxP!HistoryEntry(t, q))
    BY <2>1, IdxSameSets
  <2>. QED
    BY <2>2 DEF Idx!UpdateTxStatus, IdxP!UpdateTxStatus
<1>3. Idx!IndexTxEntry(txid, st, fee) = IdxP!IndexTxEntry(txid, st, fee)
  BY <1>2 DEF Idx!IndexTxEntry, IdxP!IndexTxEntry
<1>4. Idx!IndexAddressHistory(hmap, sh, h) = IdxP!IndexAddressHistory(hmap, sh, h)
  BY IdxSameSets DEF Idx!IndexAddressHistory, IdxP!IndexAddressHistory
<1>. QED
  BY <1>1, <1>2, <1>3, <1>4

LEMMA IdxSameSteps ==
    ASSUME NEW txid, NEW st, NEW fee, NEW shs
    PROVE  /\ Idx!IndexViable(txid, st, fee, shs) <=> IdxP!IndexViable(txid, st, fee, shs)
           /\ Idx!PurgeTx(txid) <=> IdxP!PurgeTx(txid)
<1>1. Idx!IndexViable(txid, st, fee, shs) <=> IdxP!IndexViable(txid, st, fee, shs)
  <2>1. Idx!IndexTxEntry(txid, st, fee) = IdxP!IndexTxEntry(txid, st, fee)
        /\ Idx!HistoryEntry(txid, st) = IdxP!HistoryEntry(txid, st)
    BY IdxSameMaps
  <2>2. \A hm, sh, h : Idx!IndexAddressHistory(hm, sh, h) = IdxP!IndexAddressHistory(hm, sh, h)
    BY IdxSameMaps
  <2>. QED
    BY <2>1, <2>2 DEF Idx!IndexViable, IdxP!IndexViable
<1>2. Idx!PurgeTx(txid) <=> IdxP!PurgeTx(txid)
  <2>1. Idx!HistoryEntry(txid, transactions[txid].status)
          = IdxP!HistoryEntry(txid, transactions[txid].status)
    BY IdxSameMaps
  <2>2. \A set, x : Idx!BRemove(set, x) = IdxP!BRemove(set, x)
    BY IdxSameSets
  <2>3. \A f, S : Idx!Restrict(f, S) = IdxP!Restrict(f, S)
    BY DEF Idx!Restrict, IdxP!Restrict
  <2>. DEFINE ho == Idx!HistoryEntry(txid, transactions[txid].status)
              hp == IdxP!HistoryEntry(txid, transactions[txid].status)
  <2>4. {sh \in DOMAIN scripthashes : Idx!BRemove(scripthashes[sh], ho) # {}}
          = {sh \in DOMAIN scripthashes : IdxP!BRemove(scripthashes[sh], hp) # {}}
    BY <2>1, <2>2
  <2>5. [sh \in {sh \in DOMAIN scripthashes : Idx!BRemove(scripthashes[sh], ho) # {}} |->
           Idx!BRemove(scripthashes[sh], ho)]
          = [sh \in {sh \in DOMAIN scripthashes : IdxP!BRemove(scripthashes[sh], hp) # {}} |->
               IdxP!BRemove(scripthashes[sh], hp)]
    BY <2>1, <2>2, <2>4
  <2>. QED
    <3>1. Idx!Restrict(transactions, DOMAIN transactions \ {txid})
            = IdxP!Restrict(transactions, DOMAIN transactions \ {txid})
      BY <2>3
    <3>. DEFINE Rp == IdxP!Restrict(transactions, DOMAIN transactions \ {txid})
                Fp == [sh \in {sh \in DOMAIN scripthashes : IdxP!BRemove(scripthashes[sh], hp) # {}} |->
                         IdxP!BRemove(scripthashes[sh], hp)]
                Purged == IF txid \in DOMAIN transactions
                          THEN /\ transactions' = Rp
                               /\ scripthashes' = Fp
                               /\ indexed' = {p \in indexed : p[2] # txid}
                               /\ UNCHANGED used
                          ELSE UNCHANGED <<scripthashes, transactions, used, indexed>>
    <3>2. Idx!PurgeTx(txid) <=> Purged
      <4>1. CASE txid \in DOMAIN transactions
        <5>1. Idx!PurgeTx(txid) <=>
                /\ transactions' = Idx!Restrict(transactions, DOMAIN transactions \ {txid})
                /\ scripthashes' = [sh \in {sh \in DOMAIN scripthashes :
                                              Idx!BRemove(scripthashes[sh], ho) # {}} |->
                                      Idx!BRemove(scripthashes[sh], ho)]
                /\ indexed' = {p \in indexed : p[2] # txid}
                /\ UNCHANGED used
          BY <4>1 DEF Idx!PurgeTx, ho
        <5>2. Purged <=>
                /\ transactions' = Rp
                /\ scripthashes' = Fp
                /\ indexed' = {p \in indexed : p[2] # txid}
                /\ UNCHANGED used
          BY <4>1
        <5>. QED
          BY <5>1, <5>2, <3>1, <2>5, Zenon
      <4>2. CASE txid \notin DOMAIN transactions
        BY <4>2 DEF Idx!PurgeTx
      <4>. QED
        BY <4>1, <4>2
    <3>3. IdxP!PurgeTx(txid) <=> Purged
      BY DEF IdxP!PurgeTx, hp
    <3>. QED
      BY <3>2, <3>3
<1>. QED
  BY <1>1, <1>2

(* The chunk handler indexes the oldest row with process_ltx, whose count
   and tip height are in the ranges the index's lemma is stated for. *)
LEMMA ProcessRowSyncTypes ==
    ASSUME IInv, SyncTypes, ProcessRow PROVE IdxP!IndexInv'
<1>. DEFINE r == Head(chunk)
<1>1. chunk \in Seq(RowRecs) /\ chunk # << >>
  BY DEF ProcessRow, IInv, DriverTypes
<1>2. r \in RowRecs
  BY <1>1, HeadTailProperties
<1>3. /\ r.txid \in Txids /\ r.conf \in Int /\ tipHeight \in Int
      /\ TxAddr[r.txid] \in ScriptHashes /\ TxHasFee[r.txid] \in BOOLEAN
  BY <1>2 DEF RowRecs, IInv, DriverTypes
<1>4. Idx!ProcessLtx(r.txid, TxAddr[r.txid], r.conf, tipHeight, TxHasFee[r.txid])
  BY DEF ProcessRow
<1>5. Idx!ProcessLtx(r.txid, TxAddr[r.txid], r.conf, tipHeight, TxHasFee[r.txid])
        <=> IdxP!ProcessLtx(r.txid, TxAddr[r.txid], r.conf, tipHeight, TxHasFee[r.txid])
  <2>. DEFINE st == Idx!NewStatus(r.conf, tipHeight)
  <2>1. st = IdxP!NewStatus(r.conf, tipHeight) /\ Idx!IsViable(st) = IdxP!IsViable(st)
    BY IdxSameStatus
  <2>2. /\ Idx!IndexViable(r.txid, st, TxHasFee[r.txid], {TxAddr[r.txid]})
             <=> IdxP!IndexViable(r.txid, st, TxHasFee[r.txid], {TxAddr[r.txid]})
        /\ Idx!PurgeTx(r.txid) <=> IdxP!PurgeTx(r.txid)
    BY IdxSameSteps
  <2>. QED
    BY <2>1, <2>2 DEF Idx!ProcessLtx, IdxP!ProcessLtx
<1>6. LET status == IdxP!NewStatus(r.conf, tipHeight) IN
      IF IdxP!IsViable(status)
      THEN IdxP!IndexViable(r.txid, status, TxHasFee[r.txid], {TxAddr[r.txid]})
      ELSE IdxP!PurgeTx(r.txid)
  BY <1>4, <1>5 DEF IdxP!ProcessLtx
<1>7. {TxAddr[r.txid]} \in SUBSET ScriptHashes
  BY <1>3
<1>8. IdxP!IndexInv
  BY DEF SyncTypes
<1>. QED
  BY <1>3, <1>6, <1>7, <1>8, IdxAssumptionHolds, HeightModAssumption, IdxP!ProcessInv, Zenon

(* Every step of load_transactions_since keeps the types. *)
LEMMA DriverSyncTypes ==
    ASSUME IInv, SyncTypes, DriverNext PROVE SyncTypes'
<1>1. IInv'
  BY NextIInv DEF Next
<1>2. CASE ProcessRow
  <2>1. UNCHANGED <<nodeVars, pc, oldestSeen, exhausted, quiet>>
    BY <1>2 DEF ProcessRow
  <2>. QED
    BY <1>2, <2>1, ProcessRowSyncTypes DEF SyncTypes, nodeVars
<1>3. CASE AcceptPage
  <2>. DEFINE rows == IF oldestSeen = None THEN chunk ELSE Front(chunk)
  <2>1. UNCHANGED <<nodeVars, indexVars, quiet>> /\ pc' = "process" /\ chunk' = rows
    BY <1>3 DEF AcceptPage
  <2>2. chunk' \in Seq(RowRecs)
    BY <1>1 DEF IInv, DriverTypes
  <2>3. rows # << >> => Last(rows).txid \in Txids
    <3>. SUFFICES ASSUME rows # << >> PROVE Last(rows).txid \in Txids
      OBVIOUS
    <3>1. Len(chunk') \in Nat \ {0} /\ chunk' # << >>
      BY <2>1, <2>2
    <3>2. chunk'[Len(chunk')] \in RowRecs
      BY <2>2, <3>1
    <3>. QED
      BY <2>1, <3>2 DEF Last, RowRecs
  <2>4. oldestSeen' \in Txids \cup {None} /\ exhausted' \in BOOLEAN
    BY <1>3, <2>3 DEF AcceptPage, SyncTypes
  <2>. QED
    BY <2>1, <2>4, IndexKept DEF SyncTypes, PcValues, nodeVars
<1>4. CASE Call \/ TipChanged \/ SentinelMismatch
  <2>1. StartCall(perPage') /\ UNCHANGED <<nodeVars, exhausted, indexVars>>
        /\ quiet' \in BOOLEAN
    BY <1>4 DEF Call, TipChanged, SentinelMismatch, Restart, StartCall, SyncTypes
  <2>. QED
    BY <2>1, IndexKept DEF StartCall, SyncTypes, PcValues, nodeVars, SyncAssumption
<1>5. CASE GetBlockCount \/ GetBlockHash \/ FetchPage \/ FetchRejected \/ RpcError
           \/ NextPage \/ Return
  <2>1. UNCHANGED <<nodeVars, oldestSeen, quiet, indexVars>> /\ pc' \in PcValues
        /\ exhausted' \in BOOLEAN
    <3>1. CASE GetBlockCount \/ GetBlockHash \/ FetchRejected \/ RpcError
               \/ NextPage \/ Return
      BY <3>1 DEF GetBlockCount, GetBlockHash, FetchRejected, RpcError,
                  NextPage, Return, PcValues, SyncTypes
    <3>2. CASE FetchPage
      BY <3>2 DEF FetchPage, PcValues
    <3>. QED
      BY <1>5, <3>1, <3>2
  <2>. QED
    BY <2>1, IndexKept DEF SyncTypes, nodeVars
<1>. QED
  BY <1>2, <1>3, <1>4, <1>5 DEF DriverNext

LEMMA NextSyncTypes ==
    ASSUME IInv, SyncTypes, [Next]_vars PROVE SyncTypes'
<1>1. CASE NodeNext
  BY <1>1, NodeSyncTypes
<1>2. CASE DriverNext
  BY <1>2, DriverSyncTypes
<1>3. CASE UNCHANGED vars
  <2>1. UNCHANGED <<nodeVars, driverVars, quiet, indexVars>>
    BY <1>3 DEF vars
  <2>. QED
    BY <2>1, IndexKept DEF SyncTypes, nodeVars, driverVars
<1>. QED
  BY <1>1, <1>2, <1>3 DEF Next

(* The driver and the index it fills stay well typed whatever the node
   does: every row handed to process_ltx has a confirmation count between
   -1 and the node's tip, the sentinel oldest_seen is a txid or None, and
   the index's maps hold only viable statuses, with every history entry
   current.  The index part is HistoryEntriesCurrent of AddrIndex for the
   counts and tips the node really reports. *)
THEOREM SyncTypeCorrect == Spec => []TypeOK
<1>1. IInv /\ SyncTypes => TypeOK
  <2>. SUFFICES ASSUME IInv, SyncTypes PROVE TypeOK
    OBVIOUS
  <2>1. chain \in Seq(0 .. MaxBlocks) /\ blocks \in 0 .. MaxBlocks
    BY DEF IInv, NodeInv, NodeTypes
  <2>2. Idx!TypeOK
    <3>1. Idx!ViableStatuses = IdxP!ViableStatuses
      BY DEF Idx!ViableStatuses, IdxP!ViableStatuses, Idx!Statuses, IdxP!Statuses,
             Idx!IsViable, IdxP!IsViable, Idx!Conflicted, IdxP!Conflicted,
             Idx!Unconfirmed, IdxP!Unconfirmed, Idx!Confirmed, IdxP!Confirmed,
             Idx!Heights, IdxP!Heights
    <3>. QED
      BY <3>1 DEF SyncTypes, IdxP!IndexInv, IdxP!MapsTyped, IdxP!Entries, IdxP!Records,
                  Idx!TypeOK
  <2>3. /\ perPage \in Nat \ {0} /\ startIndex \in Nat
        /\ tipHeight \in 0 .. MaxBlocks /\ tipHash \in 0 .. MaxBlocks
        /\ chunk \in Seq(Rows) /\ wallet \in Seq(Txids)
    BY <2>1 DEF IInv, DriverTypes, NodeInv, NodeTypes, RowRecs, Rows
  <2>. QED
    BY <2>1, <2>2, <2>3 DEF SyncTypes, PcValues, TypeOK
<1>2. IInv /\ SyncTypes /\ [Next]_vars => IInv' /\ SyncTypes'
  BY NextIInv, NextSyncTypes
<1>. QED
  BY <1>1, <1>2, InitIInv, InitSyncTypes, PTL DEF Spec

-----------------------------------------------------------------------------
(***************************************************************************)
(* The action property IndexedStatusesReported, from IInv: the only step  *)
(* that writes a status into the index is the chunk handler, and the rows *)
(* it handles are true at the tip height it is given (TipTracked).         *)
(***************************************************************************)
IndexStep ==
    \A t \in DOMAIN transactions' :
        (t \notin DOMAIN transactions \/ transactions'[t].status # transactions[t].status)
        => /\ chunk # << >>
           /\ t = Head(chunk).txid
           /\ transactions'[t].status = Head(chunk).truth

\* A step that keeps every stored entry and adds none satisfies IndexStep.
LEMMA IndexStepKept ==
    ASSUME DOMAIN transactions' \subseteq DOMAIN transactions,
           \A t \in DOMAIN transactions' : transactions'[t] = transactions[t]
    PROVE  IndexStep
BY DEF IndexStep

LEMMA ProcessRowReported ==
    ASSUME IInv, ProcessRow PROVE IndexStep
<1>. DEFINE r == Head(chunk)
            st == NewStatus(r.conf, tipHeight)
            fee == TxHasFee[r.txid]
<1>1. chunk \in Seq(RowRecs) /\ chunk # << >> /\ RowsTrue(chunk)
  BY DEF ProcessRow, IInv, DriverTypes, TipTracked
<1>2. st = r.truth
  <2>1. 1 \in DOMAIN chunk /\ r = chunk[1]
    BY <1>1
  <2>. QED
    BY <1>1, <2>1 DEF RowsTrue
<1>3. Idx!ProcessLtx(r.txid, TxAddr[r.txid], r.conf, tipHeight, fee)
  BY DEF ProcessRow
<1>4. Idx!NewStatus(r.conf, tipHeight) = st
  BY DEF Idx!NewStatus, NewStatus, Idx!Confirmed, Confirmed, Idx!Unconfirmed, Unconfirmed,
         Idx!Conflicted, Conflicted
<1>5. CASE Idx!IsViable(st)
  <2>1. transactions' = Idx!IndexTxEntry(r.txid, st, fee)[1]
    BY <1>3, <1>4, <1>5 DEF Idx!ProcessLtx, Idx!IndexViable
  <2>2. /\ DOMAIN transactions' = DOMAIN transactions \cup {r.txid}
        /\ transactions'[r.txid].status = st
        /\ \A t \in DOMAIN transactions \ {r.txid} : transactions'[t] = transactions[t]
    <3>1. CASE r.txid \notin DOMAIN transactions
      BY <2>1, <3>1 DEF Idx!IndexTxEntry
    <3>2. CASE r.txid \in DOMAIN transactions
      BY <2>1, <3>2 DEF Idx!IndexTxEntry
    <3>. QED
      BY <3>1, <3>2
  <2>. QED
    BY <1>1, <1>2, <2>2 DEF IndexStep
<1>6. CASE ~Idx!IsViable(st)
  <2>1. Idx!PurgeTx(r.txid)
    BY <1>3, <1>4, <1>6 DEF Idx!ProcessLtx
  <2>2. /\ DOMAIN transactions' \subseteq DOMAIN transactions
        /\ \A t \in DOMAIN transactions' : transactions'[t] = transactions[t]
    BY <2>1 DEF Idx!PurgeTx, Idx!Restrict
  <2>. QED
    BY <2>2, IndexStepKept
<1>. QED
  BY <1>5, <1>6

LEMMA NextReported ==
    ASSUME IInv, [Next]_vars PROVE [IndexStep]_vars
<1>1. CASE ProcessRow
  BY <1>1, ProcessRowReported
<1>2. CASE ~ProcessRow
  <2>1. UNCHANGED transactions
    BY <1>2 DEF Next, NodeNext, DriverNext, Call, GetBlockCount, GetBlockHash,
                FetchPage, FetchRejected, RpcError, TipChanged, SentinelMismatch,
                Restart, AcceptPage, NextPage, Return, vars, indexVars
  <2>. QED
    BY <2>1, IndexStepKept
<1>. QED
  BY <1>1, <1>2

(* A step of update_transactions that adds a tx to the index or changes
   its status is process_ltx on the row being handled, and records the
   status the node gave that tx when the page was read: for every set of
   txids, page size, start height and block bound, and however the chain
   moves between the RPCs of the attempt and the handler. *)
THEOREM IndexedStatusesReportedHolds == Spec => IndexedStatusesReported
<1>1. IInv /\ [Next]_vars => [IndexStep]_vars
  BY NextReported
<1>. QED
  BY <1>1, InitIInv, NextIInv, PTL DEF Spec, IndexedStatusesReported, IndexStep
=============================================================================
