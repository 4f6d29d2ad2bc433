----------------------------- MODULE SyncDriver -----------------------------
(***************************************************************************)
(* The Sync Driver of AddrManager (src/addrman.rs): one call of           *)
(* update_transactions, i.e. load_transactions_since(rpc, 25, 0, handler)  *)
(* whose chunk handler runs Index::process_ltx on every row, against a    *)
(* node whose chain and wallet change while the pages are read.           *)
(*                                                                         *)
(* Every RPC is a step of its own, so that the node may move between any  *)
(* two of them: get_block_count, get_block_hash, listtransactions and the *)
(* get_best_block_hash of the tip check.  The chunk handler runs with the *)
(* index write lock held and makes no RPC; it is one step per row (no     *)
(* other index user can run in between).  A restart (the recursive call   *)
(* of load_transactions_since) is a return to the get_block_count step    *)
(* with the current page size.  update() is called again by its caller    *)
(* after each return.                                                      *)
(*                                                                         *)
(* The node (bitcoind, not part of this repository) is modelled after its  *)
(* RPC contract: listtransactions(count, from) skips the `from` newest     *)
(* rows and returns the next `count` ones oldest first, and rejects a     *)
(* count or from above INT_MAX (RpcIntMax here); blocks get fresh hashes, *)
(* and the chain only grows or replaces its tip, so a hash that stopped   *)
(* being the tip never becomes it again.  Each wallet tx has one row.     *)
(***************************************************************************)
EXTENDS TxStatus, SequencesExt

CONSTANTS
    Txids,          \* transaction ids
    ScriptHashes,   \* scripthashes of the wallet's addresses
    TxAddr,         \* txid -> the address of its listtransactions row
    TxHasFee,       \* txid -> whether its row reports a fee (a send)
    None,           \* oldest_seen = None
    InitPerPage,    \* init_per_page (25 in update_transactions)
    StartHeight,    \* start_height (0 in update_transactions)
    RpcIntMax,      \* largest count and from the node accepts (INT_MAX)
    MaxBlocks,      \* bound on the blocks the node creates
    NodeFaults      \* whether an RPC may fail with a transport error

ASSUME SyncAssumption ==
    /\ TxAddr \in [Txids -> ScriptHashes]
    /\ TxHasFee \in [Txids -> BOOLEAN]
    /\ None \notin Txids
    /\ InitPerPage \in Nat \ {0}
    /\ StartHeight \in Heights
    /\ RpcIntMax \in Nat
    /\ MaxBlocks \in 1 .. HeightMod - 1
    /\ NodeFaults \in BOOLEAN

VARIABLES
    chain,          \* node: block hashes, chain[h + 1] at height h
    blocks,         \* node: hashes used so far
    wallet,         \* node: wallet txids, newest first
    nodeStatus,     \* node: txid -> its status on the best chain
    pc,             \* where the call of update_transactions is
    perPage,        \* per_page
    startIndex,     \* start_index
    oldestSeen,     \* oldest_seen: the txid of a row, or None
    tipHeight,      \* tip_height read by get_block_count
    tipHash,        \* tip_hash read by get_block_hash
    chunk,          \* the page read, then the rows left for the handler
    exhausted,      \* exhausted
    quiet,          \* ghost: the node has not changed during this call
    scripthashes, transactions, used, indexed   \* the index (AddrIndex)

nodeVars   == <<chain, blocks, wallet, nodeStatus>>
driverVars == <<pc, perPage, startIndex, oldestSeen, tipHeight, tipHash,
                chunk, exhausted>>
indexVars  == <<scripthashes, transactions, used, indexed>>
vars       == <<nodeVars, driverVars, quiet, indexVars>>

Idx == INSTANCE AddrIndex WITH Confirmations <- -1 .. MaxBlocks,
                               MaxTip <- MaxBlocks

-----------------------------------------------------------------------------
(* The node. *)
NodeTip  == Len(chain) - 1
BestHash == chain[Len(chain)]

\* The confirmation count the node reports for t (negative when conflicted).
Confs(t) == CASE IsConfirmed(nodeStatus[t])   -> NodeTip - nodeStatus[t].height + 1
              [] IsUnconfirmed(nodeStatus[t]) -> 0
              [] OTHER                        -> -1

\* A listtransactions row; truth is a ghost: the node's status at the read.
Row(t) == [txid |-> t, conf |-> Confs(t), truth |-> nodeStatus[t]]

\* listtransactions("*", count, from, true): rows from+1 .. from+count of
\* the newest-first list, returned oldest first.
ListTransactions(count, from) ==
    LET n == IF from + count < Len(wallet) THEN count
             ELSE IF from < Len(wallet) THEN Len(wallet) - from ELSE 0
    IN Reverse([i \in 1 .. n |-> Row(wallet[from + i])])

MempoolTxs == {t \in ToSet(wallet) : IsUnconfirmed(nodeStatus[t])}

\* A wallet tx enters the mempool.
NewTx(t) ==
    /\ t \notin ToSet(wallet)
    /\ wallet' = <<t>> \o wallet
    /\ nodeStatus' = [x \in DOMAIN nodeStatus \cup {t} |->
                        IF x = t THEN Unconfirmed ELSE nodeStatus[x]]
    /\ UNCHANGED <<chain, blocks>>

\* A block confirms the txs of c and conflicts those of d.
MineBlock(c, d) ==
    /\ blocks < MaxBlocks
    /\ c \cap d = {}
    /\ chain' = Append(chain, blocks + 1)
    /\ blocks' = blocks + 1
    /\ nodeStatus' = [x \in DOMAIN nodeStatus |->
                        IF x \in c THEN Confirmed(NodeTip + 1)
                        ELSE IF x \in d THEN Conflicted ELSE nodeStatus[x]]
    /\ UNCHANGED wallet

\* The tip is replaced by another block at the same height: its txs go back
\* to the mempool, those of d are conflicted by the new block.
Reorg(d) ==
    /\ blocks < MaxBlocks
    /\ Len(chain) > 1
    /\ chain' = [chain EXCEPT ![Len(chain)] = blocks + 1]
    /\ blocks' = blocks + 1
    /\ nodeStatus' = [x \in DOMAIN nodeStatus |->
                        IF nodeStatus[x] # Confirmed(NodeTip) THEN nodeStatus[x]
                        ELSE IF x \in d THEN Conflicted ELSE Unconfirmed]
    /\ UNCHANGED wallet

NodeNext ==
    /\ \/ \E t \in Txids : NewTx(t)
       \/ \E c, d \in SUBSET MempoolTxs : MineBlock(c, d)
       \/ \E d \in SUBSET {x \in ToSet(wallet) : nodeStatus[x] = Confirmed(NodeTip)} :
             Reorg(d)
    /\ quiet' = FALSE
    /\ UNCHANGED <<driverVars, indexVars>>

-----------------------------------------------------------------------------
(* load_transactions_since: its state at a call and at a restart. *)
StartCall(n) ==
    /\ pc' = "height"
    /\ perPage' = n
    /\ startIndex' = 0
    /\ oldestSeen' = None
    /\ chunk' = << >>

\* The caller (update) runs update_transactions again after it returned.
Call ==
    /\ pc \in {"done", "failed"}
    /\ StartCall(InitPerPage)
    /\ quiet' = TRUE
    /\ UNCHANGED <<nodeVars, tipHeight, tipHash, exhausted, indexVars>>

\* let tip_height = rpc.get_block_count()?
GetBlockCount ==
    /\ pc = "height"
    /\ pc' = "hash"
    /\ tipHeight' = NodeTip
    /\ UNCHANGED <<nodeVars, perPage, startIndex, oldestSeen, tipHash, chunk,
                   exhausted, quiet, indexVars>>

\* let tip_hash = rpc.get_block_hash(tip_height)?
GetBlockHash ==
    /\ pc = "hash"
    /\ pc' = "fetch"
    /\ tipHash' = chain[tipHeight + 1]
    /\ UNCHANGED <<nodeVars, perPage, startIndex, oldestSeen, tipHeight, chunk,
                   exhausted, quiet, indexVars>>

\* rpc.call("listtransactions", ["*", per_page, start_index, true])?;
\* exhausted = chunk.len() < per_page.
FetchPage ==
    /\ pc = "fetch"
    /\ perPage <= RpcIntMax /\ startIndex <= RpcIntMax
    /\ chunk' = ListTransactions(perPage, startIndex)
    /\ exhausted' = (Len(chunk') < perPage)
    /\ pc' = "check"
    /\ UNCHANGED <<nodeVars, perPage, startIndex, oldestSeen, tipHeight, tipHash,
                   quiet, indexVars>>

\* The node rejects a count or a from that does not fit its int.
FetchRejected ==
    /\ pc = "fetch"
    /\ perPage > RpcIntMax \/ startIndex > RpcIntMax
    /\ pc' = "failed"
    /\ UNCHANGED <<nodeVars, perPage, startIndex, oldestSeen, tipHeight, tipHash,
                   chunk, exhausted, quiet, indexVars>>

\* Any RPC of the call fails (node outage); `?` returns the error.
RpcError ==
    /\ NodeFaults
    /\ pc \in {"height", "hash", "fetch", "check"}
    /\ pc' = "failed"
    /\ UNCHANGED <<nodeVars, perPage, startIndex, oldestSeen, tipHeight, tipHash,
                   chunk, exhausted, quiet, indexVars>>

\* Mutant of Restart: the retry starts again from init_per_page.
RestartFromInitPerPage ==
    /\ StartCall(InitPerPage)
    /\ UNCHANGED <<nodeVars, tipHeight, tipHash, exhausted, quiet, indexVars>>

\* return load_transactions_since(rpc, per_page, start_height, chunk_handler)
Restart ==
    /\ StartCall(perPage)
    /\ UNCHANGED <<nodeVars, tipHeight, tipHash, exhausted, quiet, indexVars>>

\* tip_hash != rpc.get_best_block_hash()?: the tip moved, restart.
TipChanged ==
    /\ pc = "check"
    /\ tipHash # BestHash
    /\ Restart

\* chunk.pop(): the txid of the popped row, None for an empty page.
PoppedTxid == IF chunk = << >> THEN None ELSE Last(chunk).txid

\* The popped row is not the one recorded as oldest_seen: restart.
SentinelMismatch ==
    /\ pc = "check"
    /\ tipHash = BestHash
    /\ oldestSeen # None /\ PoppedTxid # oldestSeen
    /\ Restart

(* Both checks passed: the row is popped when oldest_seen is set; the last
   row left becomes oldest_seen and may end the loop (its height, computed
   in u32, below start_height); the handler gets the rows. *)
BelowStart(row) ==
    row.conf > 0 /\ (((tipHeight - row.conf) % HeightMod) + 1) % HeightMod < StartHeight

\* Mutant of AcceptPage: the page is accepted whatever the tip is.
AcceptPageNoTipCheck ==
    LET rows == IF oldestSeen = None THEN chunk ELSE Front(chunk) IN
    /\ pc = "check"
    /\ oldestSeen = None \/ PoppedTxid = oldestSeen
    /\ chunk' = rows
    /\ IF rows = << >> THEN UNCHANGED <<oldestSeen, exhausted>>
       ELSE /\ oldestSeen' = Last(rows).txid
            /\ exhausted' = (exhausted \/ BelowStart(Last(rows)))
    /\ pc' = "process"
    /\ UNCHANGED <<nodeVars, perPage, startIndex, tipHeight, tipHash, quiet,
                   indexVars>>

AcceptPage ==
    LET rows == IF oldestSeen = None THEN chunk ELSE Front(chunk) IN
    /\ pc = "check"
    /\ tipHash = BestHash
    /\ oldestSeen = None \/ PoppedTxid = oldestSeen
    /\ chunk' = rows
    /\ IF rows = << >> THEN UNCHANGED <<oldestSeen, exhausted>>
       ELSE /\ oldestSeen' = Last(rows).txid
            /\ exhausted' = (exhausted \/ BelowStart(Last(rows)))
    /\ pc' = "process"
    /\ UNCHANGED <<nodeVars, perPage, startIndex, tipHeight, tipHash, quiet,
                   indexVars>>

\* Mutant of ProcessRow: the status is computed with the node's current tip
\* instead of the tip_height the handler is given.
ProcessRowLiveTip ==
    LET r == Head(chunk) IN
    /\ pc = "process"
    /\ chunk # << >>
    /\ Idx!ProcessLtx(r.txid, TxAddr[r.txid], r.conf, NodeTip, TxHasFee[r.txid])
    /\ chunk' = Tail(chunk)
    /\ UNCHANGED <<nodeVars, pc, perPage, startIndex, oldestSeen, tipHeight,
                   tipHash, exhausted, quiet>>

\* The chunk handler of update_transactions: process_ltx on the next row.
ProcessRow ==
    LET r == Head(chunk) IN
    /\ pc = "process"
    /\ chunk # << >>
    /\ Idx!ProcessLtx(r.txid, TxAddr[r.txid], r.conf, tipHeight, TxHasFee[r.txid])
    /\ chunk' = Tail(chunk)
    /\ UNCHANGED <<nodeVars, pc, perPage, startIndex, oldestSeen, tipHeight,
                   tipHash, exhausted, quiet>>

\* The while condition is `exhausted`: the loop goes on to the next page...
NextPage ==
    /\ pc = "process"
    /\ chunk = << >>
    /\ exhausted
    /\ startIndex' = startIndex + perPage - 1
    /\ perPage' = perPage * 2
    /\ pc' = "fetch"
    /\ UNCHANGED <<nodeVars, oldestSeen, tipHeight, tipHash, chunk, exhausted,
                   quiet, indexVars>>

\* ... and returns Ok(()) when the page was not exhausted.
Return ==
    /\ pc = "process"
    /\ chunk = << >>
    /\ ~exhausted
    /\ pc' = "done"
    /\ UNCHANGED <<nodeVars, perPage, startIndex, oldestSeen, tipHeight, tipHash,
                   chunk, exhausted, quiet, indexVars>>

DriverNext ==
    \/ Call \/ GetBlockCount \/ GetBlockHash \/ FetchPage \/ FetchRejected
    \/ RpcError \/ TipChanged \/ SentinelMismatch \/ AcceptPage \/ ProcessRow
    \/ NextPage \/ Return

Init ==
    /\ chain = <<0>> /\ blocks = 0
    /\ wallet = << >> /\ nodeStatus = << >>
    /\ pc = "height" /\ perPage = InitPerPage /\ startIndex = 0
    /\ oldestSeen = None /\ tipHeight = 0 /\ tipHash = 0
    /\ chunk = << >> /\ exhausted = FALSE
    /\ quiet = TRUE
    /\ Idx!Init

Next == NodeNext \/ DriverNext

\* The thread that calls update() is scheduled; the node owes nothing.
Spec == Init /\ [][Next]_vars /\ WF_vars(DriverNext)

-----------------------------------------------------------------------------
Rows == [txid : Txids, conf : -1 .. MaxBlocks, truth : Statuses]

TypeOK ==
    /\ chain \in Seq(0 .. MaxBlocks) /\ blocks \in 0 .. MaxBlocks
    /\ wallet \in Seq(Txids) /\ DOMAIN nodeStatus = ToSet(wallet)
    /\ pc \in {"height", "hash", "fetch", "check", "process", "done", "failed"}
    /\ perPage \in Nat \ {0} /\ startIndex \in Nat
    /\ oldestSeen \in Txids \cup {None}
    /\ tipHeight \in 0 .. MaxBlocks /\ tipHash \in 0 .. MaxBlocks
    /\ chunk \in Seq(Rows)
    /\ exhausted \in BOOLEAN /\ quiet \in BOOLEAN
    /\ Idx!TypeOK

(***************************************************************************)
(* The tip check of load_transactions_since ("we rely on the tip height to *)
(* derive the confirmed height from the number of confirmations"): every   *)
(* row handed to the chunk handler gets, from its confirmation count and   *)
(* the tip height read at the start of the attempt, exactly the status the *)
(* node gave the tx when the page was read, however the chain moved        *)
(* between get_block_count, get_block_hash, listtransactions and          *)
(* get_best_block_hash.                                                    *)
(***************************************************************************)
HandledStatusesTrue ==
    pc = "process" =>
        \A i \in DOMAIN chunk : NewStatus(chunk[i].conf, tipHeight) = chunk[i].truth

(***************************************************************************)
(* What a step of update_transactions may never do to the index: a step   *)
(* that adds a tx to the index or changes its status is the chunk handler *)
(* (process_ltx) on the row it is handling, and the status it records is  *)
(* the status the node gave that tx when the page was read.  So the index *)
(* never holds a status the node did not report, whatever blocks and       *)
(* reorgs happen between the RPCs of the attempt and the handler.          *)
(***************************************************************************)
IndexedStatusesReported ==
    [][\A t \in DOMAIN transactions' :
          (t \notin DOMAIN transactions \/ transactions'[t].status # transactions[t].status)
          => /\ chunk # << >>
             /\ t = Head(chunk).txid
             /\ transactions'[t].status = Head(chunk).truth]_vars

(***************************************************************************)
(* Every call of update_transactions returns, with Ok or with an error,    *)
(* once the node stops changing: the restarts after a tip change or a      *)
(* sentinel mismatch do not go on for ever, because a restart keeps the    *)
(* doubled page size.                                                      *)
(***************************************************************************)
SyncTerminates == (pc \notin {"done", "failed"}) ~> (pc \in {"done", "failed"})

(***************************************************************************)
(* The promise of load_transactions_since ("Fetch all unconfirmed          *)
(* transactions + transactions confirmed at or after start_height"): when  *)
(* a call returns Ok and the node did not change during it, every viable   *)
(* wallet tx is in the index with the node's status.                       *)
(***************************************************************************)
SyncComplete ==
    (pc = "done" /\ quiet) =>
        \A t \in ToSet(wallet) :
            IsViable(nodeStatus[t]) =>
                /\ t \in DOMAIN transactions
                /\ transactions[t].status = nodeStatus[t]

(***************************************************************************)
(* A call of update_transactions against a node that answers every RPC    *)
(* eventually returns Ok (spec: tip changes and overlap mismatches are     *)
(* retried transparently, never reported as errors).                       *)
(***************************************************************************)
SyncReturnsOk == (pc \notin {"done", "failed"}) ~> (pc = "done")

(***************************************************************************)
(* The sentinel check restarts the fetch only when the transaction set     *)
(* changed (spec: "a mismatch means the set changed between page           *)
(* requests"): a sentinel restart on a non-empty page, with the tip        *)
(* unchanged, happens only while the node is not quiet.  (The restart on  *)
(* an empty page after a short one is the inverted loop condition, which  *)
(* SyncReturnsOk is about.)                                                *)
(***************************************************************************)
SentinelOnlyOnChange ==
    [][(pc = "check" /\ pc' = "height" /\ tipHash = BestHash /\ chunk # << >>)
          => ~quiet]_vars

=============================================================================
