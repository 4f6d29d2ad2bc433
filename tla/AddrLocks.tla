------------------------------ MODULE AddrLocks ------------------------------
(***************************************************************************)
(* The locks of AddrManager (src/addrman.rs): index: RwLock<Index> and     *)
(* watcher: RwLock<HDWatcher>, taken by one thread that runs update() and  *)
(* by threads that run list_unspent (the Query Facade; get_balance calls   *)
(* it).  The index contents are abstracted away (AddrIndex and SyncDriver *)
(* model them); what is kept is who holds or waits for which guard, the   *)
(* RPCs of list_unspent between which the chain may move, and its retry,  *)
(* which calls list_unspent again while the first read guard is alive.    *)
(*                                                                         *)
(* std::sync::RwLock leaves its priority policy to the platform: a writer  *)
(* waiting in write() may or may not block a new read().  ReadPolicy      *)
(* names the two outcomes: "reader" (reads pass a waiting writer) and     *)
(* "writer" (the futex RwLock of Linux: they wait behind it).             *)
(***************************************************************************)
EXTENDS Integers, Sequences

CONSTANTS
    Queriers,       \* threads calling list_unspent
    NoThread,       \* no writer holds the index
    ReadPolicy,     \* "reader" or "writer": the platform's RwLock priority
    MaxRounds,      \* bound on the update() rounds of the sync thread
    MaxCalls,       \* bound on the list_unspent calls of a query thread
    MaxBlocks       \* bound on the blocks the node creates

ASSUME LocksAssumption ==
    /\ NoThread \notin Queriers
    /\ ReadPolicy \in {"reader", "writer"}
    /\ MaxRounds \in Nat /\ MaxCalls \in Nat /\ MaxBlocks \in Nat

SyncThread == "sync"

VARIABLES
    chain,          \* node: block hashes, chain[h + 1] at height h
    blocks,         \* node: hashes used so far
    idxWriter,      \* the thread holding the index write guard, or NoThread
    idxReaders,     \* query thread -> index read guards it holds
    watHeld,        \* whether a watcher write guard is alive
    spc,            \* where the sync thread is in update()
    rounds,         \* update() rounds done
    qpc,            \* query thread -> where it is in list_unspent
    calls,          \* query thread -> list_unspent calls returned
    qTipHeight,     \* query thread -> tip_height of its current attempt
    qTipHash,       \* query thread -> tip_hash of its current attempt
    qListTip        \* ghost: query thread -> node tip height when listunspent answered

nodeVars  == <<chain, blocks>>
syncVars  == <<spc, rounds>>
queryVars == <<qpc, calls, qTipHeight, qTipHash, qListTip>>
lockVars  == <<idxWriter, idxReaders, watHeld>>
vars      == <<nodeVars, syncVars, queryVars, lockVars>>

NodeTip  == Len(chain) - 1
BestHash == chain[Len(chain)]

-----------------------------------------------------------------------------
(* RwLock::read and RwLock::write on the index. *)
WriterWaiting == spc = "idx_w"

CanRead  == /\ idxWriter = NoThread
            /\ ReadPolicy = "reader" \/ ~WriterWaiting

CanWrite == /\ idxWriter = NoThread
            /\ \A q \in Queriers : idxReaders[q] = 0

-----------------------------------------------------------------------------
(* The node's chain grows, or its tip is replaced by a block at the same
   height. *)
MineBlock ==
    /\ blocks < MaxBlocks
    /\ chain' = Append(chain, blocks + 1)
    /\ blocks' = blocks + 1
    /\ UNCHANGED <<syncVars, queryVars, lockVars>>

Reorg ==
    /\ blocks < MaxBlocks /\ Len(chain) > 1
    /\ chain' = [chain EXCEPT ![Len(chain)] = blocks + 1]
    /\ blocks' = blocks + 1
    /\ UNCHANGED <<syncVars, queryVars, lockVars>>

-----------------------------------------------------------------------------
(* update(): update_transactions takes index.write() then watcher.write(),
   runs load_transactions_since with both held and drops them on return
   (Ok or Err); then watcher.write().do_imports() holds the watcher for
   one statement. *)
LockIndexWrite ==
    /\ spc = "idx_w" /\ CanWrite
    /\ idxWriter' = SyncThread
    /\ spc' = "wat_w"
    /\ UNCHANGED <<nodeVars, rounds, queryVars, idxReaders, watHeld>>

LockWatcherWrite ==
    /\ spc = "wat_w" /\ ~watHeld
    /\ watHeld' = TRUE
    /\ spc' = "sync"
    /\ UNCHANGED <<nodeVars, rounds, queryVars, idxWriter, idxReaders>>

LoadTransactions ==
    /\ spc = "sync"
    /\ idxWriter' = NoThread /\ watHeld' = FALSE
    /\ spc' = "imports"
    /\ UNCHANGED <<nodeVars, rounds, queryVars, idxReaders>>

DoImports ==
    /\ spc = "imports" /\ ~watHeld
    /\ rounds' = rounds + 1
    /\ spc' = IF rounds + 1 < MaxRounds THEN "idx_w" ELSE "idle"
    /\ UNCHANGED <<nodeVars, queryVars, lockVars>>

-----------------------------------------------------------------------------
(* list_unspent(scripthash, min_conf) on thread q. *)
Set(f, q, v) == [f EXCEPT ![q] = v]

\* let index = self.index.read().unwrap(), also in the retry's nested call.
LockIndexRead(q) ==
    /\ qpc[q] = "read" /\ CanRead
    /\ idxReaders' = Set(idxReaders, q, idxReaders[q] + 1)
    /\ qpc' = Set(qpc, q, "addr")
    /\ UNCHANGED <<nodeVars, syncVars, calls, qTipHeight, qTipHash, qListTip,
                   idxWriter, watHeld>>

\* Every return of list_unspent (Ok or Err) unwinds the nested calls and
\* drops all of q's read guards; the caller then calls again.
Unwind(q) ==
    /\ idxReaders' = Set(idxReaders, q, 0)
    /\ calls' = Set(calls, q, calls[q] + 1)
    /\ qpc' = Set(qpc, q, IF calls[q] + 1 < MaxCalls THEN "read" ELSE "idle")

\* index.get_address(scripthash).or_err("unknown scripthash")?
UnknownScripthash(q) ==
    /\ qpc[q] = "addr"
    /\ Unwind(q)
    /\ UNCHANGED <<nodeVars, syncVars, qTipHeight, qTipHash, qListTip,
                   idxWriter, watHeld>>

\* let tip_height = self.rpc.get_block_count()? as u32
GetBlockCount(q) ==
    /\ qpc[q] = "addr"
    /\ qTipHeight' = Set(qTipHeight, q, NodeTip)
    /\ qpc' = Set(qpc, q, "hash")
    /\ UNCHANGED <<nodeVars, syncVars, calls, qTipHash, qListTip, lockVars>>

\* let tip_hash = self.rpc.get_block_hash(tip_height)?
GetBlockHash(q) ==
    /\ qpc[q] = "hash"
    /\ qTipHash' = Set(qTipHash, q, chain[qTipHeight[q] + 1])
    /\ qpc' = Set(qpc, q, "list")
    /\ UNCHANGED <<nodeVars, syncVars, calls, qTipHeight, qListTip, lockVars>>

\* self.rpc.call("listunspent", ...)?: confirmations relative to the tip now.
ListUnspent(q) ==
    /\ qpc[q] = "list"
    /\ qListTip' = Set(qListTip, q, NodeTip)
    /\ qpc' = Set(qpc, q, "best")
    /\ UNCHANGED <<nodeVars, syncVars, calls, qTipHeight, qTipHash, lockVars>>

\* Mutant of RetryOnTipChange: only the listunspent RPC is retried.
RetryListOnly(q) ==
    /\ qpc[q] = "best"
    /\ qTipHash[q] # BestHash
    /\ qpc' = Set(qpc, q, "list")
    /\ UNCHANGED <<nodeVars, syncVars, calls, qTipHeight, qTipHash, qListTip,
                   lockVars>>

\* tip_hash != get_best_block_hash()?: return self.list_unspent(..), the
\* first read guard still alive.
RetryOnTipChange(q) ==
    /\ qpc[q] = "best"
    /\ qTipHash[q] # BestHash
    /\ qpc' = Set(qpc, q, "read")
    /\ UNCHANGED <<nodeVars, syncVars, calls, qTipHeight, qTipHash, qListTip,
                   lockVars>>

\* Mutant of ReturnUnspent: the result is kept whatever the tip is.
ReturnUnspentNoTipCheck(q) ==
    /\ qpc[q] = "best"
    /\ qpc' = Set(qpc, q, "ret")
    /\ UNCHANGED <<nodeVars, syncVars, calls, qTipHeight, qTipHash, qListTip,
                   lockVars>>

\* The tip did not move: the utxos get Utxo::from_unspent(_, tip_height).
ReturnUnspent(q) ==
    /\ qpc[q] = "best"
    /\ qTipHash[q] = BestHash
    /\ qpc' = Set(qpc, q, "ret")
    /\ UNCHANGED <<nodeVars, syncVars, calls, qTipHeight, qTipHash, qListTip,
                   lockVars>>

Returned(q) ==
    /\ qpc[q] = "ret"
    /\ Unwind(q)
    /\ UNCHANGED <<nodeVars, syncVars, qTipHeight, qTipHash, qListTip,
                   idxWriter, watHeld>>

-----------------------------------------------------------------------------
Init ==
    /\ chain = <<0>> /\ blocks = 0
    /\ idxWriter = NoThread
    /\ idxReaders = [q \in Queriers |-> 0]
    /\ watHeld = FALSE
    /\ spc = IF MaxRounds > 0 THEN "idx_w" ELSE "idle"
    /\ rounds = 0
    /\ qpc = [q \in Queriers |-> IF MaxCalls > 0 THEN "read" ELSE "idle"]
    /\ calls = [q \in Queriers |-> 0]
    /\ qTipHeight = [q \in Queriers |-> 0]
    /\ qTipHash = [q \in Queriers |-> 0]
    /\ qListTip = [q \in Queriers |-> 0]

\* Every thread has run its bounded number of calls: the process idles.
AllIdle ==
    /\ spc = "idle" /\ \A q \in Queriers : qpc[q] = "idle"
    /\ UNCHANGED vars

SyncStep == LockIndexWrite \/ LockWatcherWrite \/ LoadTransactions \/ DoImports

QueryStep(q) ==
    \/ LockIndexRead(q) \/ UnknownScripthash(q) \/ GetBlockCount(q)
    \/ GetBlockHash(q) \/ ListUnspent(q) \/ RetryOnTipChange(q)
    \/ ReturnUnspent(q) \/ Returned(q)

Next ==
    \/ MineBlock \/ Reorg
    \/ SyncStep
    \/ \E q \in Queriers : QueryStep(q)
    \/ AllIdle

\* Every thread is scheduled; the node owes nothing.
Spec == /\ Init /\ [][Next]_vars
        /\ WF_vars(SyncStep)
        /\ \A q \in Queriers : WF_vars(QueryStep(q))

-----------------------------------------------------------------------------
(***************************************************************************)
(* list_unspent's tip check: when it returns Ok, the tip height it turns   *)
(* the confirmation counts into heights with (Utxo::from_unspent) is the   *)
(* node's tip height at the moment listunspent answered, whatever blocks   *)
(* and reorgs happened between its four RPCs.                              *)
(***************************************************************************)
UnspentFromListTip ==
    \A q \in Queriers : qpc[q] = "ret" => qTipHeight[q] = qListTip[q]

(* A thread blocked in RwLock::write or RwLock::read of the index. *)
SyncBlocked     == spc = "idx_w" /\ ~CanWrite
QueryBlocked(q) == qpc[q] = "read" /\ ~CanRead

(***************************************************************************)
(* The threads of AddrManager never wait on each other for ever: it is not *)
(* the case that every thread that has work left is blocked on the index   *)
(* lock (the retry of list_unspent re-reads the index while its first read *)
(* guard is alive, with update() waiting to write).                        *)
(***************************************************************************)
DeadlockFree ==
    (/\ spc = "idle" \/ SyncBlocked
     /\ \A q \in Queriers : qpc[q] = "idle" \/ QueryBlocked(q))
    => (spc = "idle" /\ \A q \in Queriers : qpc[q] = "idle")

(***************************************************************************)
(* Every update() round and every list_unspent call returns, under a      *)
(* platform whose RwLock lets reads pass a waiting writer: the retries of *)
(* list_unspent end once the chain stops moving, and no thread waits for  *)
(* ever on the index lock.                                                 *)
(***************************************************************************)
AllCallsReturn == <>(spc = "idle" /\ \A q \in Queriers : qpc[q] = "idle")

=============================================================================
