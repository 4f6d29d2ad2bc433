----------------------------- MODULE MemoryStore -----------------------------
(***************************************************************************)
(* The in-memory index of bwt (src/store.rs, struct MemoryStore): the      *)
(* scripthash -> history map, the txid -> TxEntry map, the mempool set and *)
(* (feature "track-spends") the outpoint -> spending input map.  Every     *)
(* public mutator is one action; all of them run under the store's write   *)
(* lock, so each is atomic.                                                *)
(*                                                                         *)
(* Data abstraction.  A transaction's content is fixed by its txid, so the *)
(* wallet-owned outputs and inputs are constants: FundedScript gives the   *)
(* scripthash paid by each owned output <<txid, vout>>, Prevout gives the  *)
(* owned outpoint spent by each owned input <<txid, vin>>.  The funding    *)
(* map of a TxEntry is then its set of vouts and the spending map its set  *)
(* of vins; values and addresses are left out.  A ScriptEntry is its       *)
(* history set (its address and origin never change once stored).         *)
(***************************************************************************)
EXTENDS TxStatus, Functions

CONSTANTS
    Txids,          \* transaction ids
    ScriptHashes,   \* watched script fingerprints
    Vouts,          \* output indexes of owned outputs
    Vins,           \* input indexes of owned inputs
    FundedScript,   \* [Txids \X Vouts -> ScriptHashes]
    Prevout,        \* owned input <<txid, vin>> -> owned outpoint it spends
    TrackSpends,    \* whether the "track-spends" feature is compiled in
    FullerViewOnly  \* caller contract: an overwrite of the spending map only adds inputs

Outpoints == Txids \X Vouts
InPoints  == Txids \X Vins

ASSUME StoreAssumption ==
    /\ FundedScript \in [Outpoints -> ScriptHashes]
    /\ DOMAIN Prevout \subseteq InPoints
    /\ Prevout \in [DOMAIN Prevout -> Outpoints]
    /\ TrackSpends \in BOOLEAN
    /\ FullerViewOnly \in BOOLEAN

(* The HashMaps are partial functions: DOMAIN is the set of keys. *)
VARIABLES
    scripthashes,   \* scripthash -> history set
    transactions,   \* txid -> [status, funding, spending]
    mempool,        \* the txids of the mempool map (its metadata is left out)
    txoSpends       \* outpoint -> spending InPoint

vars == <<scripthashes, transactions, mempool, txoSpends>>

-----------------------------------------------------------------------------
(* struct HistoryEntry { txid, status } *)
HistoryEntry(txid, status) == [txid |-> txid, status |-> status]
HistoryEntries == [txid : Txids, status : ViableStatuses]

(* struct TxEntry and TxEntry::new *)
TxEntries == [status : ViableStatuses, funding : SUBSET Vouts, spending : SUBSET Vins]
NewTxEntry(status) == [status |-> status, funding |-> {}, spending |-> {}]

\* An entry with one field replaced.
WithStatus(e, s)    == [status |-> s, funding |-> e.funding, spending |-> e.spending]
WithFunding(e, vs)  == [status |-> e.status, funding |-> vs, spending |-> e.spending]
WithSpending(e, vs) == [status |-> e.status, funding |-> e.funding, spending |-> vs]

\* HashMap::insert of key k with value v (TLC's (k :> v) @@ f, written out
\* so that the prover can expand it).
MapPut(f, k, v) == [x \in DOMAIN f \cup {k} |-> IF x = k THEN v ELSE f[x]]

\* The scripthash an owned input spends from (SpendingInfo.0).
SpendingScript(txid, vin) == FundedScript[Prevout[<<txid, vin>>]]

\* The owned inputs of a transaction.
OwnedVins(txid) == {v \in Vins : <<txid, v>> \in DOMAIN Prevout}

(* TxEntry::scripthashes(): every scripthash the funding and spending maps
   of an entry reference. *)
EntryScripthashes(txid, entry) ==
    {FundedScript[<<txid, v>>] : v \in entry.funding}
      \cup {SpendingScript(txid, v) : v \in entry.spending}

TxScripthashes(txid) == EntryScripthashes(txid, transactions[txid])

(* index_history_entry(scripthash, txhist): BTreeSet::insert into the
   history of an existing ScriptEntry. *)
IndexHistoryEntry(sh, txhist) ==
    [scripthashes EXCEPT ![sh] = @ \cup {txhist}]

-----------------------------------------------------------------------------
(* MemoryStore::new() *)
Init ==
    /\ scripthashes = << >>
    /\ transactions = << >>
    /\ mempool = {}
    /\ txoSpends = << >>

(* index_scripthash(scripthash, origin, address): creates an empty
   ScriptEntry the first time; an existing entry is left as it is. *)
IndexScripthash(sh) ==
    /\ sh \notin DOMAIN scripthashes
    /\ scripthashes' = MapPut(scripthashes, sh, {})
    /\ UNCHANGED <<transactions, mempool, txoSpends>>

\* Mutant of UpdateTxStatus: the old history entry is not removed.
UpdateTxStatusKeepOld(txid, old, new) ==
    /\ scripthashes' = [sh \in DOMAIN scripthashes |->
                          IF sh \in TxScripthashes(txid)
                          THEN scripthashes[sh] \cup {HistoryEntry(txid, new)}
                          ELSE scripthashes[sh]]
    /\ mempool' = CASE IsUnconfirmed(old) -> mempool \ {txid}
                    [] IsUnconfirmed(new) -> mempool \cup {txid}
                    [] OTHER              -> mempool

(* update_tx_status(txid, old_status, new_status): in every scripthash the
   entry references, replace the old history entry by the new one; then
   move the txid in or out of the mempool. *)
UpdateTxStatus(txid, old, new) ==
    LET oldHist == HistoryEntry(txid, old)
        newHist == HistoryEntry(txid, new)
        shs == TxScripthashes(txid)
    IN
    /\ scripthashes' = [sh \in DOMAIN scripthashes |->
                          IF sh \in shs
                          THEN (scripthashes[sh] \ {oldHist}) \cup {newHist}
                          ELSE scripthashes[sh]]
    /\ mempool' = CASE IsUnconfirmed(old) -> mempool \ {txid}
                    [] IsUnconfirmed(new) -> mempool \cup {txid}
                    [] OTHER              -> mempool

\* Mutant of UpsertTx: a Conflicted status is stored too.
UpsertTxNoViableGuard(txid, status) ==
    /\ \/ /\ txid \notin DOMAIN transactions
          /\ transactions' = MapPut(transactions, txid, NewTxEntry(status))
          /\ mempool' = IF IsUnconfirmed(status) THEN mempool \cup {txid} ELSE mempool
          /\ UNCHANGED scripthashes
       \/ /\ txid \in DOMAIN transactions
          /\ transactions[txid].status # status
          /\ transactions' = [transactions EXCEPT ![txid] = WithStatus(@, status)]
          /\ UpdateTxStatus(txid, transactions[txid].status, status)
    /\ UNCHANGED txoSpends

(* upsert_tx(txid, status): a new txid gets a fresh TxEntry (and a mempool
   slot when unconfirmed); a known txid whose status differs is moved to
   the new status by update_tx_status.  Callers never pass Conflicted
   (conflicted transactions are purged instead). *)
UpsertTx(txid, status) ==
    /\ IsViable(status)
    /\ \/ /\ txid \notin DOMAIN transactions
          /\ transactions' = MapPut(transactions, txid, NewTxEntry(status))
          /\ mempool' = IF IsUnconfirmed(status) THEN mempool \cup {txid} ELSE mempool
          /\ UNCHANGED scripthashes
       \/ /\ txid \in DOMAIN transactions
          /\ transactions[txid].status # status
          /\ transactions' = [transactions EXCEPT ![txid] = WithStatus(@, status)]
          /\ UpdateTxStatus(txid, transactions[txid].status, status)
    /\ UNCHANGED txoSpends

(* index_tx_output_funding(txid, vout, funding_info): the entry must exist
   (unwrap); a vout not yet in the funding map is added and a history entry
   with the current status is indexed under its scripthash.  The caller
   calls index_scripthash for the address just before, so the ScriptEntry
   exists. *)
IndexTxOutputFunding(txid, vout) ==
    LET sh == FundedScript[<<txid, vout>>] IN
    /\ txid \in DOMAIN transactions
    /\ sh \in DOMAIN scripthashes
    /\ vout \notin transactions[txid].funding
    /\ transactions' = [transactions EXCEPT ![txid] = WithFunding(@, @.funding \cup {vout})]
    /\ scripthashes' = IndexHistoryEntry(sh, HistoryEntry(txid, transactions[txid].status))
    /\ UNCHANGED <<mempool, txoSpends>>

\* Mutant of IndexTxoSpends: only outpoints that already have an edge are
\* written (an update in place where an insert was meant).
IndexTxoSpendsNoInsert(txid, vins) ==
    LET spent == {Prevout[<<txid, v>>] : v \in vins}
    IN [o \in DOMAIN txoSpends |->
          IF o \in spent
          THEN <<txid, CHOOSE v \in vins : Prevout[<<txid, v>>] = o>>
          ELSE txoSpends[o]]

(* index_txo_spend(prevout, inpoint) for each input of a new spending map:
   the edge is overwritten by the last writer.  The caller records the
   edges of the inputs it passes to index_tx_inputs_spending in the same
   locked step. *)
IndexTxoSpends(txid, vins) ==
    LET spent == {Prevout[<<txid, v>>] : v \in vins}
    IN [o \in DOMAIN txoSpends \cup spent |->
          IF o \in spent
          THEN <<txid, CHOOSE v \in vins : Prevout[<<txid, v>>] = o>>
          ELSE txoSpends[o]]

(* index_tx_inputs_spending(txid, spending, allow_overwrite): replaces the
   spending map (asserting it was empty unless allow_overwrite) and indexes
   a history entry under every scripthash the entry now references.  The
   caller builds the map from lookup_txo_fund, so it only holds inputs
   whose prevout is a funded output of a stored transaction. *)
IndexTxInputsSpending(txid, vins, allowOverwrite) ==
    LET entry == WithSpending(transactions[txid], vins)
        hist == HistoryEntry(txid, entry.status)
    IN
    /\ txid \in DOMAIN transactions
    /\ vins \subseteq OwnedVins(txid)
    /\ \A v \in vins : LET p == Prevout[<<txid, v>>] IN
                         p[1] \in DOMAIN transactions /\ p[2] \in transactions[p[1]].funding
    /\ allowOverwrite \/ transactions[txid].spending = {}
    /\ FullerViewOnly => transactions[txid].spending \subseteq vins
    /\ transactions' = [transactions EXCEPT ![txid] = entry]
    /\ scripthashes' = [sh \in DOMAIN scripthashes |->
                          IF sh \in EntryScripthashes(txid, entry)
                          THEN scripthashes[sh] \cup {hist}
                          ELSE scripthashes[sh]]
    /\ txoSpends' = IF TrackSpends THEN IndexTxoSpends(txid, vins) ELSE txoSpends
    /\ UNCHANGED mempool

\* Mutants of PurgeTx: the mempool slot is kept; the spend edges are kept.
PurgeTxKeepMempool(txid) ==
    LET old == transactions[txid]
        oldHist == HistoryEntry(txid, old.status)
        shs == EntryScripthashes(txid, old)
        rest(sh) == scripthashes[sh] \ {oldHist}
        emptied == {sh \in shs \cap DOMAIN scripthashes : rest(sh) = {}}
        spent == {Prevout[<<txid, v>>] : v \in old.spending}
        unlinked == {o \in spent \cap DOMAIN txoSpends : txoSpends[o][1] = txid}
    IN
    /\ txid \in DOMAIN transactions
    /\ transactions' = Restrict(transactions, DOMAIN transactions \ {txid})
    /\ mempool' = mempool
    /\ scripthashes' = [sh \in DOMAIN scripthashes \ emptied |->
                          IF sh \in shs THEN rest(sh) ELSE scripthashes[sh]]
    /\ txoSpends' = IF TrackSpends
                    THEN Restrict(txoSpends, DOMAIN txoSpends \ unlinked)
                    ELSE txoSpends

PurgeTxKeepSpendEdges(txid) ==
    LET old == transactions[txid]
        oldHist == HistoryEntry(txid, old.status)
        shs == EntryScripthashes(txid, old)
        rest(sh) == scripthashes[sh] \ {oldHist}
        emptied == {sh \in shs \cap DOMAIN scripthashes : rest(sh) = {}}
    IN
    /\ txid \in DOMAIN transactions
    /\ transactions' = Restrict(transactions, DOMAIN transactions \ {txid})
    /\ mempool' = IF IsUnconfirmed(old.status) THEN mempool \ {txid} ELSE mempool
    /\ scripthashes' = [sh \in DOMAIN scripthashes \ emptied |->
                          IF sh \in shs THEN rest(sh) ELSE scripthashes[sh]]
    /\ txoSpends' = txoSpends

(* purge_tx(txid): removes the entry, its mempool slot, its history entry
   from every scripthash it references (dropping a ScriptEntry whose
   history becomes empty) and the spend edges that still point at it. *)
PurgeTx(txid) ==
    LET old == transactions[txid]
        oldHist == HistoryEntry(txid, old.status)
        shs == EntryScripthashes(txid, old)
        rest(sh) == scripthashes[sh] \ {oldHist}
        emptied == {sh \in shs \cap DOMAIN scripthashes : rest(sh) = {}}
        spent == {Prevout[<<txid, v>>] : v \in old.spending}
        unlinked == {o \in spent \cap DOMAIN txoSpends : txoSpends[o][1] = txid}
    IN
    /\ txid \in DOMAIN transactions
    /\ transactions' = Restrict(transactions, DOMAIN transactions \ {txid})
    /\ mempool' = IF IsUnconfirmed(old.status) THEN mempool \ {txid} ELSE mempool
    /\ scripthashes' = [sh \in DOMAIN scripthashes \ emptied |->
                          IF sh \in shs THEN rest(sh) ELSE scripthashes[sh]]
    /\ txoSpends' = IF TrackSpends
                    THEN Restrict(txoSpends, DOMAIN txoSpends \ unlinked)
                    ELSE txoSpends

Next ==
    \/ \E sh \in ScriptHashes : IndexScripthash(sh)
    \/ \E t \in Txids, s \in Statuses : UpsertTx(t, s)
    \/ \E t \in Txids, v \in Vouts : IndexTxOutputFunding(t, v)
    \/ \E t \in Txids, vs \in SUBSET Vins, ow \in BOOLEAN : IndexTxInputsSpending(t, vs, ow)
    \/ \E t \in Txids : PurgeTx(t)

Spec == Init /\ [][Next]_vars

-----------------------------------------------------------------------------
(* Type invariant.  Conflicted is not viable: it is never stored in a
   TxEntry or a HistoryEntry (upsert_tx is never called with it). *)
TypeOK ==
    /\ DOMAIN scripthashes \subseteq ScriptHashes
    /\ \A sh \in DOMAIN scripthashes : scripthashes[sh] \subseteq HistoryEntries
    /\ DOMAIN transactions \subseteq Txids
    /\ \A t \in DOMAIN transactions : transactions[t] \in TxEntries
    /\ mempool \subseteq Txids
    /\ DOMAIN txoSpends \subseteq Outpoints
    /\ \A o \in DOMAIN txoSpends : txoSpends[o] \in InPoints

(***************************************************************************)
(* The forward and reverse indexes agree (the "desync" the assertions of   *)
(* update_tx_status and purge_tx guard against): every scripthash a stored *)
(* transaction references has a ScriptEntry holding the transaction's      *)
(* current-status history entry, and every history entry names a stored    *)
(* transaction, with its current status, that references that scripthash. *)
(* So no history is stale after a status change, and none dangles after a  *)
(* purge.                                                                  *)
(***************************************************************************)
IndexConsistent ==
    /\ \A t \in DOMAIN transactions : \A sh \in TxScripthashes(t) :
          /\ sh \in DOMAIN scripthashes
          /\ HistoryEntry(t, transactions[t].status) \in scripthashes[sh]
    /\ \A sh \in DOMAIN scripthashes : \A e \in scripthashes[sh] :
          /\ e.txid \in DOMAIN transactions
          /\ e.status = transactions[e.txid].status
          /\ sh \in TxScripthashes(e.txid)

(***************************************************************************)
(* The mempool map holds exactly the stored unconfirmed transactions:      *)
(* upsert_tx, update_tx_status and purge_tx move a txid in and out of it   *)
(* on every status transition, and their mempool asserts rely on it.      *)
(***************************************************************************)
MempoolConsistent ==
    \A t \in Txids :
        t \in mempool <=> (t \in DOMAIN transactions /\ IsUnconfirmed(transactions[t].status))

(***************************************************************************)
(* Every spend edge (lookup_txo_spend) names a stored transaction whose    *)
(* spending map really spends that outpoint: purge_tx drops the edges of a *)
(* purged spender and an overwrite keeps the newest one.                   *)
(***************************************************************************)
SpendEdgesSound ==
    \A o \in DOMAIN txoSpends :
        LET t == txoSpends[o][1]  v == txoSpends[o][2] IN
        /\ t \in DOMAIN transactions
        /\ v \in transactions[t].spending
        /\ Prevout[<<t, v>>] = o

(***************************************************************************)
(* purge_tx asserts (store.rs, "assert!(had_entry)") that every prevout    *)
(* the purged transaction spends still has a spend edge: from any state    *)
(* the store reaches, purging any stored transaction must not trip it.     *)
(***************************************************************************)
PurgeSpendAssertHolds ==
    TrackSpends =>
        \A t \in DOMAIN transactions : \A v \in transactions[t].spending :
            Prevout[<<t, v>>] \in DOMAIN txoSpends


\* An input point that a stored transaction's spending map holds.
Owned(i) == i[1] \in DOMAIN transactions /\ i[2] \in transactions[i[1]].spending

(***************************************************************************)
(* When purge_tx's assert!(had_entry) would fire, a double spend is the    *)
(* cause: if a stored transaction's input has no spend edge at its       *)
(* prevout, then another input of the wallet spends that same outpoint and *)
(* is no longer held by any stored spending map (its transaction, which   *)
(* owned the edge as the last writer of index_txo_spend, was purged).     *)
(***************************************************************************)
MissingSpendEdgeHasRival ==
    TrackSpends =>
        \A t \in DOMAIN transactions : \A v \in transactions[t].spending :
            \/ Prevout[<<t, v>>] \in DOMAIN txoSpends
            \/ \E j \in DOMAIN Prevout :
                  /\ j # <<t, v>>
                  /\ Prevout[j] = Prevout[<<t, v>>]
                  /\ ~Owned(j)
=============================================================================
