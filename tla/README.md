# TLA+ models of bwt's indexing core

This directory holds TLA+ models of the two source files of this repository:

- `src/src/store.rs` holds `MemoryStore`, the richer index.
- `src/src/addrman.rs` holds `AddrManager`: its own `Index`, the `TxStatus` type, the paginated sync loop and the query façade.

The directory also holds:

- the TLC configurations that model-check those models on small wallets;
- the TLAPS proofs of the store's invariants and of when its purge assertion can fire, of `AddrIndex`'s history invariant, of the sync driver's tip check, types and status reports, and of `list_unspent`'s heights;
- `PROJECT.json`, which lists every component, run, mutant, finding and hazard, and maps every definition to the source lines it translates.

## 1. The system

| Part (spec §2) | Code | State | Operations that change it |
|---|---|---|---|
| Status Model | `addrman.rs` 379–468 | none | `TxStatus::new`, `Ord`, `is_viable`, `electrum_height` |
| Memory Store | `store.rs` 15–414 | scripthash→`ScriptEntry{history: BTreeSet}`, txid→`TxEntry{status, funding, spending}`, the mempool map, and (feature `track-spends`) outpoint→inpoint | `index_scripthash`, `upsert_tx`→`update_tx_status`, `index_tx_output_funding`, `index_tx_inputs_spending`, `index_txo_spend`, `purge_tx` |
| AddrManager index | `addrman.rs` 24–47, 173–377 | scripthash→history (a `BTreeSet` ordered by status **only**), txid→`{status, fee}` | `process_ltx`, `process_gtx`→`index_tx_entry`/`index_address_history`/`update_tx_status`/`purge_tx` |
| Sync Driver | `addrman.rs` 81–104, 475–540 | page size, start index, sentinel, tip | `update`, `update_transactions`, `load_transactions_since` |
| Query Façade | `addrman.rs` 106–170, `store.rs` 325–406 | none (reads) | `list_unspent` retries on a tip change |

How the parts interact:

- The Sync Driver holds the index write lock and then the watcher write lock (`update_transactions`, lines 90–91).
- While holding them it pages through `listtransactions` and feeds each row to `process_ltx`.
- `process_ltx` classifies the row with `TxStatus::new`. A Conflicted row purges its tx. A viable row upserts the tx entry and inserts a history entry, and the watcher is told to mark an address the first time it is seen.
- The readers take the read lock.

Every mutator runs under the write lock for its whole duration, so each one is one atomic step of the model. The store's callers are not under `src/`. The order in which they call the store is taken from the spec and from the code's own comments, which say:

- the tx exists before funding;
- the scripthash is indexed before funding;
- the spending map is built from `lookup_txo_fund`.

These caller contracts are guards of the actions.

The behaviours that make this code hard to test:

- cascades of one status change over every scripthash a tx touches;
- purges that must remove exactly the right history entries and spend edges;
- the order of purges after a double spend;
- a `BTreeSet` whose `Ord` is coarser than equality;
- reverse iteration with `take_while` over a status order;
- a paging loop with tip and sentinel checks that restarts by recursion;
- a read path that retries while holding a read lock.

## 2. Modules

| Module | Models | Used by |
|---|---|---|
| `TxStatus` | `enum TxStatus`, its `Ord` (`StatusCmp`), `TxStatus::new` (`NewStatus`, u32 wrap through `HeightMod`), `is_viable`/`is_confirmed`/`is_unconfirmed`, `electrum_height` | all |
| `MemoryStore` | `store.rs` `MemoryStore`: one action per mutator | `MCMemoryStore`, `StoreQueries`, `MemoryStoreProofs` |
| `StoreQueries` | `get_history_since` with the `HistoryEntry` order (status, then txid) over the `TxStatus` order of `types.rs`, taken from spec §8 (`StoreStatusCmp`, marked spec-modelled) | `MCStoreQueries` (TLC only: it reaches `SequencesExt`) |
| `AddrIndex` | `addrman.rs` `Index`: `process_ltx`, `process_gtx` and the helpers they call | `MCAddrIndex` |
| `SyncDriver` | `update_transactions` and `load_transactions_since`, one step per RPC, with `AddrIndex` as the chunk handler (`Idx == INSTANCE AddrIndex`) and a node whose chain and wallet change between RPCs | `MCSyncDriver`, `SyncDriverProofs` |
| `AddrLocks` | the `index` and `watcher` `RwLock`s: `update()` against threads running `list_unspent`, under both `RwLock` priority policies | `MCAddrLocks` |
| `MemoryStoreProofs` | theorems about `MemoryStore` | TLAPS |
| `SyncDriverProofs` | the theorems `HandledStatusesCorrect`, `SyncTypeCorrect` and `IndexedStatusesReportedHolds` about `SyncDriver`; it uses `AddrIndexProofs` through an `INSTANCE` | TLAPS |
| `AddrIndexProofs` | the theorems `IndexTypeCorrect` and `HistoryEntriesCurrentHolds` about `AddrIndex` | TLAPS, `SyncDriverProofs` |
| `AddrLocksProofs` | the theorem `UnspentHeightsCorrect` about `AddrLocks` | TLAPS |

### MemoryStore

State:

- `scripthashes`, `transactions` and `txoSpends` are partial functions: their `DOMAIN` is the `HashMap`'s key set.
- `mempool` is the key set of the mempool map. Its metadata is only ever written through `mempool_mut`, so it is left out.

A transaction's content is fixed by its txid, so the wallet's part of each transaction is given by constants:

- `FundedScript[<<txid, vout>>]` is the scripthash an owned output pays.
- `Prevout[<<txid, vin>>]` is the owned outpoint an owned input spends.

A `TxEntry`'s funding map is then its set of vouts, and its spending map is its set of vins. Amounts, addresses and origins are left out: no property tells them apart. The origin assertion of `index_scripthash` can only fail if a caller gives one scripthash two origins, which the model does not do.

Actions:

| Action | Code |
|---|---|
| `IndexScripthash` | lines 77–118 |
| `UpsertTx` | lines 120–156, including the cascade `UpdateTxStatus`, lines 254–285 |
| `IndexTxOutputFunding` | lines 158–185 with `index_history_entry` |
| `IndexTxInputsSpending` | lines 187–210 |
| `PurgeTx` | lines 287–323 |

The spec calls `index_txo_spend` separately. The indexer calls it for each input of the spending map it has just built, in the same locked step, so `IndexTxInputsSpending` records those edges through `IndexTxoSpends` when `TrackSpends` is set. The overwrite is last-writer-wins, as in line 244.

Two constants are switches:

- `TrackSpends` is the cargo feature.
- `FullerViewOnly` is the caller contract that an overwrite of a spending map only adds inputs (spec §3: "used when a transaction is re-seen with a fuller view of its inputs").

Panics are not transitions. Each assertion the model can reach is a state predicate (`PurgeSpendAssertHolds`) or follows from an invariant (`IndexConsistent` implies that the asserts at 276–277 and 303–307 hold).

### AddrIndex

State: `scripthashes` (histories), `transactions` (`[status, hasFee]`: a fee is only known or unknown) and `used` (the addresses passed to `watcher.mark_address`). There is also the history variable `indexed`: the `<<scripthash, txid>>` pairs indexed and not purged since, which lets `HistoryComplete` say what the history ought to hold.

`BContains`, `BInsert` and `BRemove` are `BTreeSet::contains`, `insert` and `remove` under `impl Ord for HistoryEntry` (lines 412–422), which compares statuses only. An insert into a set holding an entry with an equal key keeps the old entry.

Actions:

- `ProcessLtx(txid, sh, c, tip, fee)` is one row of a processed category.
- `ProcessGtx(txid, shs, ...)` is one `gettransaction` result with the addresses of its processed details.

`NodeReport` restricts the node's confirmation counts to those consistent with its tip (`c <= tip + 1`). A row of a category that is not processed is a no-op, that is, a stutter.

### SyncDriver

The node is bitcoind, which is not part of this repository, so its definitions are modelled from its RPC contract and marked `spec_modelled` in the map:

- `chain` holds the block hashes (`chain[h + 1]` is the hash at height `h`), and `blocks` counts the hashes used so far. `MineBlock` appends a fresh hash and `Reorg` replaces the tip by a fresh one. A hash that stopped being the tip never returns, as with real block hashes.
- `wallet` lists the wallet's txids newest first, and `nodeStatus` gives each one's status on the best chain. `NewTx` adds a mempool tx. `MineBlock(c, d)` confirms `c` and conflicts `d`. `Reorg(d)` sends the tip's txs back to the mempool, or conflicts those in `d`.
- `ListTransactions(count, from)` skips the `from` newest rows and returns the next `count` rows oldest first. Each row carries the confirmation count (`Confs`) and a ghost field `truth`, the status the node held when it answered.
- `RpcIntMax` stands for INT_MAX: a count or from above it is rejected (`FetchRejected`).

The driver's variables are the locals of `load_transactions_since`, plus `pc`, which says which statement comes next:

| Action | Code |
|---|---|
| `Call` | `update` → `update_transactions` → `load_transactions_since(rpc, 25, 0, ..)`, 81–93 |
| `GetBlockCount`, `GetBlockHash` | 486, 487 |
| `FetchPage` | 494–505: the page and `exhausted` |
| `TipChanged`, `SentinelMismatch` | 509–512 and 516–519; both end in `Restart` (the recursive call with the current `per_page`) |
| `AcceptPage` | 516–530: pop, `oldest_seen`, the `start_height` cut-off computed in u32 (`BelowStart`), and the rows handed on |
| `ProcessRow` | 93–96: the chunk handler runs `process_ltx` on one row |
| `NextPage`, `Return` | 532–539: the loop continues while `exhausted` is **true** |
| `FetchRejected`, `RpcError` | the `?` of each RPC (`NodeFaults` switches transport errors on) |

Each RPC is a step of its own, so the node may move between any two of them. The handler runs under the index write guard and makes no RPC, but the node may still move while it runs. Each row is one step. `quiet` is a ghost variable: it is true while the node has not changed since the call began.

### AddrLocks

The index contents are abstracted away; `AddrIndex` and `SyncDriver` model them. What is kept:

- who holds or waits for the `index` and `watcher` guards (`idxWriter`, `idxReaders`, `watHeld`);
- the sync thread's path through `update()` (`spc`);
- each query thread's path through `list_unspent` (`qpc`), with the tip it read.

The ghost `qListTip` records the node's tip when `listunspent` answered. `std::sync::RwLock` leaves its priority policy to the platform, so the constant `ReadPolicy` selects one:

- `"reader"`: a `read()` passes a waiting writer.
- `"writer"`: it waits behind the writer. The futex `RwLock` of Linux does this.

## 3. Runs

| Run | Expect | What it shows |
|---|---|---|
| `memorystore_safety` | pass | `TypeOK`, `IndexConsistent`, `MempoolConsistent`, `SpendEdgesSound` and `MissingSpendEdgeHasRival` hold in every state reachable by any interleaving of the five mutators, over a wallet of three chained txs in which t2 and t3 double-spend one outpoint of t1 (RBF). Every spend edge names a stored spender of its outpoint, also after the last writer or the overwritten spender is purged. An input left without an edge, where `assert!(had_entry)` fires, always has a rival input of the same outpoint that no stored spending map holds any more. |
| `memorystore_double_spend` | violation | With an RBF double spend in the wallet, purging the later spender and then the earlier one trips `assert!(had_entry)` at `store.rs:316`. |
| `memorystore_narrowing_overwrite` | violation | Without the fuller-view contract, `allow_overwrite` leaves a stale or dangling history entry. |
| `history_since` | pass | `HistorySinceComplete`: for every floor, `get_history_since` returns exactly the unconfirmed entries and those confirmed at or above the floor, in every reachable store. Under the order of spec §8 (confirmed by ascending height, then Unconfirmed), the entries that are recent enough are a suffix of each history, so `.rev().take_while(..)` finds all of them. The mutant `GetHistorySinceNoRev` drops the `.rev()`. |
| `addrindex_current` | pass | `AddrIndex` never shows an entry with a stale status or for a purged tx. |
| `addrindex_lost_history` | violation | The status-only `Ord` makes a second tx with the same status disappear from an address's history (3 states). |
| `syncdriver_safety` | pass | Every row that reaches `process_ltx` gets the status the node gave it (`HandledStatusesTrue`). Every status the index records or changes is the status of the row just handled, which the node gave it at `tip_height` (`IndexedStatusesReported`, an action property). The index keeps its types and never indexes a non-viable tx (`TypeOK`), and every call returns once the node stops (`SyncTerminates`). This holds across every interleaving of blocks, reorgs, new txs and RPC failures with the driver's steps. |
| `sync_stops_early` | violation | `SyncComplete`: with three wallet txs and `per_page = 2`, a full first page ends the loop, and the call returns Ok with the oldest tx missing from the index (`addrman.rs:532`). |
| `sync_never_ok` | violation | `SyncReturnsOk`: with no RPC failures, a short page makes the loop go on to an empty page. The restarts keep the doubled `per_page` until the node rejects it. |
| `sync_sentinel` | violation | `SentinelOnlyOnChange`: a restart on a non-empty page, with the tip unchanged, happens on a node that did not change. `oldest_seen` is the *newest* row of the page, and the overlap row that `pop()` returns is the oldest one (`addrman.rs:523`). The trace has two txs and `StartHeight = 2`: the full first page is cut off by `start_height`, so the loop goes on, and page 2's popped row is not `oldest_seen`. The empty-page restart after a short page is excluded, because it is the inverted loop condition that `sync_never_ok` shows. |
| `locks_reader_pref` | pass | `UnspentFromListTip`: `list_unspent` returns only utxos whose heights use the tip that `listunspent` answered at. `AllCallsReturn`: two query threads and the sync thread finish all their calls. Under this policy the re-entrant `read()` cannot block, so the run does not test the deadlock; `locks_writer_pref_deadlock` does. |
| `locks_writer_pref_deadlock` | violation | `DeadlockFree`, under the writer-preferring policy: q1 holds a read guard, and the tip moves. `update_transactions` waits in `index.write()`, and the retry's second `read()` waits behind it, so no thread can move (`addrman.rs:148`). |

Bounds of the store runs:

- Three txids: t2 spends an output of t1, and t3 spends outputs of t2 and t1. Every status change or purge then cascades over two scripthashes and over spend edges whose spender is another stored tx. In `memorystore_safety` and `memorystore_double_spend`, t3's second input spends the same output of t1 as t2 (an RBF double spend), so the last writer of an edge and the purge order both matter. `history_since` uses the graph without the double spend.
- Two vouts and two vins per tx, two scripthashes, and heights {0, 1}. Two confirmed heights plus Unconfirmed give every kind of transition.

Bounds of the AddrIndex runs:

- Two txids and two scripthashes.
- Confirmations −1..2 with tips 0..1, which covers Conflicted, Unconfirmed and two heights.
- `HeightMod = 3`, so that no confirmed height the node reports wraps.

Bounds of the SyncDriver runs:

- Three txids on two addresses, with one send, so that `process_ltx` takes both the fee and the no-fee paths.
- `InitPerPage = 2`, so that three txs need two pages.
- `RpcIntMax = 4`, so that the third doubling is rejected.
- `MaxBlocks = 2`: one block and one reorg, or two blocks.
- `HeightMod = 4`.
- `StartHeight = 0`, the value `update_transactions` passes. `sync_sentinel` uses `StartHeight = 2`, because with the inverted loop condition only a `start_height` cut-off makes a full page go on to a second one.

Bounds of the AddrLocks runs:

- Two query threads, each making two `list_unspent` calls, and two `update()` rounds of the sync thread. Two blocks let a retry and a second tip change both happen.
- The deadlock needs only one query thread, one call, and a sync thread that is already in its second round when the writer waits.

Running times of the pass runs:

- `memorystore_safety` reaches 28,477 distinct states, and `history_since` 17,851.
- Without the fuller-view contract, `memorystore_safety`'s instance reaches 9,242,344 in half an hour, and `MissingSpendEdgeHasRival` still holds; the proof covers that case too.
- `addrindex_current` reaches 6,832.
- `syncdriver_safety` reaches 593,715 in under a minute.
- `locks_reader_pref` reaches 144,982.

Every action and every disjunct fires in them. Deadlock is checked: every state can take a step, because an `UpsertTx` of a changed status or a purge is always enabled.

Each property of a pass run has a mutant in `PROJECT.json`: a plausible bug in the code it is about, which TLC finds under the same configuration. For example:

- `UpdateTxStatusKeepOld` forgets to remove the old entry.
- `PurgeTxKeepMempool` forgets the mempool slot.
- `IndexTxoSpendsNoInsert` only updates spend edges that already exist.

No fairness is assumed for the store. It is driven entirely by its callers, and no step of it must eventually happen.

In `SyncDriver` and `AddrLocks`, the threads of this process (the one that calls `update()`, and those that call `list_unspent`) get weak fairness. Each is a thread that the scheduler runs whenever it can go on. The node gets no fairness: it may stop changing at any time. It is bounded by `MaxBlocks` and by the txids, so every behaviour has a point after which the node is quiet. The liveness properties say what happens after that point.

## 4. Proofs

`MemoryStoreProofs` holds the proofs. They hold for every value of the constants that satisfies `StoreAssumption` and `HeightModAssumption`: any sets of txids, scripthashes, vouts and vins, and any funding and prevout graph.

- `TypeCorrect`: `Spec => []TypeOK`. `Init` satisfies `TypeOK`, and `TypeOKNext` shows that every action preserves it. The proof has one step per action, and under `UpsertTx` one step per disjunct. The spend-edge map written by `IndexTxoSpends` is handled edge by edge: a chosen vin lies in `vs`, and a prevout lies in `Outpoints`.
- `StoreConsistent`: `ASSUME FullerViewOnly PROVE Spec => []StoreInv`, where `StoreInv` is the inductive invariant:
  ```
  StoreInv == TypeOK /\ IndexConsistent /\ MempoolConsistent
              /\ SpendEdgesSound /\ NoEdgesUntracked
  ```
  `NoEdgesUntracked` says there are no spend edges without the `track-spends` feature. It is needed because `PurgeTx` leaves `txoSpends` alone when the feature is off. The proof has one lemma per action: `InvIndexScripthash`, `InvUpsertNew`, `InvUpsertChange`, `InvIndexFunding`, `InvIndexSpending` and `InvPurge`. `InvNext` combines them. The argument:
  - **Status change** (`update_tx_status`). It rewrites exactly the scripthashes that can hold the tx's entry, because the reverse half of `IndexConsistent` says every entry of a tx lies in a scripthash it references, with the current status. Every other entry has another txid and is untouched. Two equal txids with equal statuses are the same record (`HistoryEntryEta`). Mempool membership moves exactly once, because `Unconfirmed` is a single status (`UnconfirmedUnique`).
  - **Funding**. It adds the one scripthash the new vout pays, and that scripthash is indexed: this is the guard from the caller contract.
  - **Spending map**. It references only scripthashes that are indexed. Each input spends a funded output of a stored tx, whose scripthash the forward half of `IndexConsistent` already places in the map. Under `FullerViewOnly` the references only grow, so no older entry goes stale, and every older spend edge still names an input of its spender.
  - **Purge**. It never empties a scripthash that another tx still references, because that tx's own entry stays in it. It removes every edge pointing at the purged tx: by `SpendEdgesSound`, such an edge lies at a prevout of one of its inputs.
- `IndexConsistentHolds`, `MempoolConsistentHolds` and `SpendEdgesSoundHolds` restate the theorem for each property that `memorystore_safety` checks.

The hypothesis `FullerViewOnly` is needed. Without it, a narrowing overwrite breaks `IndexConsistent`, as `memorystore_narrowing_overwrite` shows. The lemmas `MapPutDef` and `RestrictDef` give the effect of inserting into and restricting a map. `MapPut` is defined in `MemoryStore` instead of the TLC operators `:>` and `@@`, because the provers cannot expand those.

`MissingSpendEdgeHasRivalHolds`: `Spec => []MissingSpendEdgeHasRival`, with no hypothesis: for every prevout graph, double spends included, and with or without `FullerViewOnly`. `PurgeSpendAssertHolds` itself is false under an RBF double spend (`memorystore_double_spend`), so it is not proved. The theorem says instead when the assertion can fire. If an input of a stored tx has no spend edge at its prevout, another input of the wallet spends the same outpoint, and no stored spending map holds that rival any more. The inductive invariant adds `SpendingOwned`: every spending map holds only owned inputs. The argument has one lemma per action:

- `index_tx_inputs_spending` writes an edge for every input of the new map (`RivalSpending`). An input it drops had no edge to lose.
- `purge_tx` removes an edge only at a prevout of one of the purged tx's inputs, and only when the edge points at that tx (`RivalPurge`). That input is the rival of every stored input of the same outpoint that loses its edge.
- `upsert_tx` and `index_tx_output_funding` add no input to any spending map (`RivalUpsert`, `RivalFunding`).

`SyncDriverProofs` proves `HandledStatusesCorrect`: `Spec => []HandledStatusesTrue`. It holds for every set of txids and addresses, every `InitPerPage`, `StartHeight` and `RpcIntMax`, every `MaxBlocks` below `HeightMod`, and every `HeightMod`, with or without node faults. `HandledStatusesTrue` alone is not inductive: a page in `"check"` may be stale, and the driver does not know it. The inductive invariant `IInv` adds three facts:

- `NodeInv` describes the node. The best hash is the newest one (`ChainFresh`), so a hash that stopped being the tip is older than the best hash forever. Every confirmed wallet tx sits at a height from 1 to the tip (`NodeStatusesSound`), so `TxStatus::new` inverts the node's confirmation count at the node's tip (`NodeStatusInverts`).
- `DriverTypes` gives the types of the driver's variables.
- `TipTracked` ties the driver to the node:
  - from `"hash"` on, `tip_height` is at most the node's tip;
  - from `"fetch"` on, `tip_hash` is the best hash only if `tip_height` is still the tip. `get_block_hash` at a lower height returns an older hash;
  - a page read while the tip has not moved is true at `tip_height`, because `PageTrue` shows that every page is true at the node's tip;
  - the rows in `"process"` are true.

`AcceptPage` is guarded by the tip check. So the page it passes on was read at `tip_height`, and `Front` and `Tail` keep rows true. A node step replaces the best hash by a fresh one that no `tip_hash` holds, so `DriverKept` shows that it cannot make a stale page look current. There is one lemma per action or group of actions, and `NextIInv` combines them. TLC checked `IInv` as an invariant of the `syncdriver_safety` instance before the proof was written. `ProcessLtx` is never expanded: the proof needs only that the handler leaves the driver's variables alone.

`AddrIndexProofs` proves `IndexTypeCorrect` (`Spec => []TypeOK`) and `HistoryEntriesCurrentHolds` (`Spec => []HistoryEntriesCurrent`) for every set of txids and scripthashes, every set of confirmation counts and every tip bound. The inductive invariant `IndexInv` adds to the types that every history entry's txid is in the tx map with the entry's status (`Current`). The argument follows the helpers of `process_ltx`:

- `update_tx_status` rewrites every entry of the tx in the scripthashes it touched (`UpdateTxStatusCurrent`). A removal of the old entry finds it because a status has the same key as itself under `HistoryEntry::cmp` (`SameKeyRefl`).
- `index_tx_entry` and `index_address_history` insert an entry with the status just stored (`IndexTxEntryCurrent`, `IndexViableInv`).
- `purge_tx` removes the tx and every entry of it (`PurgeTxInv`).

`ProcessInv` composes them for any count and tip. `AddrIndex` writes its maps with `MapPut` instead of `:>` and `@@`, so that the provers can expand them.

`AddrLocksProofs` proves `UnspentHeightsCorrect`: `Spec => []UnspentFromListTip`, for any number of query threads and blocks and under both lock policies. The inductive invariant `LocksIInv` has two parts:

- `ChainFresh`: the best hash is the newest hash, so a hash that stopped being the tip never becomes the best hash again.
- `QueryTipTracked(q)`, for each thread: from `get_block_hash` on, its height is at most the tip; while its hash is still the best hash, its height is the tip; at `"ret"`, the utxos' tip is the tip `listunspent` answered at.

A retry after a tip change starts from a fresh tip, so no stale height reaches the result.

`SyncDriverProofs` also proves two more theorems about `SyncDriver`:

- `SyncTypeCorrect`: `Spec => []TypeOK`. Its inductive invariant `SyncTypes` adds `AddrIndexProofs`' `IndexInv` of the index to `IInv`. The handler `ProcessLtx` is the one of `AddrIndex`, reached through `Idx == INSTANCE AddrIndex`. The proof reuses `AddrIndexProofs!ProcessInv` through a second instance `IdxP`, with the same substitution (`Confirmations <- -1 .. MaxBlocks`, `MaxTip <- MaxBlocks`). The provers treat `Idx!ProcessLtx` and `IdxP!ProcessLtx` as distinct operators. The lemmas `IdxSame*` show them equal layer by layer, from the status helpers up to `PurgeTx`. The instance's `ASSUME` becomes a hypothesis of the instantiated lemma, and `IdxAssumptionHolds` discharges it.
- `IndexedStatusesReportedHolds`: `Spec => IndexedStatusesReported`. Only the handler step changes the tx map, and then only for the tx of the row at the head of the chunk, with the status that `TxStatus::new` gives at `tip_height`. `IInv` makes that status the row's truth.

TLC checked each inductive invariant as an invariant of its pass run before the proof was written.

Only TLC covers the following:

- `StoreQueries`: it uses `SequencesExt`, whose `SetToSortSeq` and folds are beyond the provers.
- Any liveness property (`SyncTerminates`, `AllCallsReturn`): TLAPS cannot reason about `ENABLED` or fairness.
- The violation runs. Each one is a counterexample, and TLC's trace is the evidence. `DeadlockFree` is one of them.

## 5. Not modelled yet, and the plan

1. **Refinement.** An abstract wallet index, a set of `<<scripthash, txid, status>>` facts, implemented by `MemoryStore` through a refinement mapping. The same for `AddrIndex`, where its `Ord` permits.
2. **Proofs.** `AddrLocks`' `TypeOK`. The refinement of item 1, once it is modelled.
3. **Sync driver details.** The model gives a tx one row. A real wallet tx has one row per address and category, and the sentinel compares `(txid, address)`. The recursion depth of the restarts (a stack overflow after very many tip changes) is not modelled. Re-applying rows after a restart cannot panic: `process_ltx` has no assertion besides viability. It is not strictly idempotent, though. Under the status-only `Ord`, re-applying a row may re-create a history entry that a collision had removed (`addrindex_lost_history`).
4. **Query façade.** `get_history` and `status_hash` take the read guard for a lookup and are not modelled. `RwLock::read` panics on poisoning only after a panic in a writer, which is not modelled.

Out of scope, because the code is not under `src/`: the HD watcher beyond `mark_address`, the RPC client, the Electrum server and its status hash, `types.rs` and the wallet descriptors. The `TxStatus` order of `types.rs`, which `store.rs` uses, is taken from spec §8 and from the doc comment of `get_history_since` ("oldest first"): confirmed statuses by ascending height, then Unconfirmed. Spec §3 states the order of `addrman.rs` (Unconfirmed below Confirmed) instead. The two parts of the spec disagree, and the code that decides is not in this repository.
