------------------------------ MODULE AddrIndex ------------------------------
(***************************************************************************)
(* The index of AddrManager (src/addrman.rs, struct Index): scripthash ->  *)
(* ScriptEntry with a BTreeSet<HistoryEntry> history, txid -> TxEntry      *)
(* (status, fee), fed by process_ltx (one "listtransactions" row) and     *)
(* process_gtx (one "gettransaction" result).  Each runs under the index  *)
(* write lock, so each is one atomic action.                              *)
(*                                                                         *)
(* impl Ord for HistoryEntry here compares the status only, and a BTreeSet *)
(* finds, inserts and removes by Ord: two entries with the same status    *)
(* and different txids are one key.  BInsert, BRemove and BContains model *)
(* the set operations by what they do under that order.  A fee is only    *)
(* told apart as known or not (parse_fee maps None to None).              *)
(***************************************************************************)
EXTENDS TxStatus, Functions

CONSTANTS
    Txids,          \* transaction ids
    ScriptHashes,   \* scripthashes of the wallet's addresses
    Confirmations,  \* confirmation counts the node may report
    MaxTip          \* highest tip height the node may report

ASSUME AddrIndexAssumption ==
    /\ Confirmations \subseteq Int
    /\ MaxTip \in Heights

VARIABLES
    scripthashes,   \* scripthash -> history (a BTreeSet under the status order)
    transactions,   \* txid -> [status, hasFee]
    used,           \* addresses the HD watcher was told are used (mark_address)
    indexed         \* history: the <<scripthash, txid>> pairs indexed and not purged

vars == <<scripthashes, transactions, used, indexed>>

HistoryEntry(txid, status) == [txid |-> txid, status |-> status]

-----------------------------------------------------------------------------
(* BTreeSet<HistoryEntry> operations, keyed by HistoryEntry::cmp. *)
SameKey(a, b) == StatusCmp(a.status, b.status) = 0

BContains(set, x) == \E y \in set : SameKey(y, x)

\* insert keeps the stored element when an equal key is present.
BInsert(set, x) == IF BContains(set, x) THEN set ELSE set \cup {x}

BRemove(set, x) == {y \in set : ~SameKey(y, x)}

-----------------------------------------------------------------------------
(* update_tx_status(txid, old_status, new_status): in every scripthash whose
   history held the old entry, replace it by the new one. *)
UpdateTxStatus(hmap, txid, old, new) ==
    LET oldHist == HistoryEntry(txid, old)
        newHist == HistoryEntry(txid, new)
    IN IF old = new THEN hmap
       ELSE [sh \in DOMAIN hmap |->
               IF BContains(hmap[sh], oldHist)
               THEN BInsert(BRemove(hmap[sh], oldHist), newHist)
               ELSE hmap[sh]]

(* index_tx_entry(txid, txentry): insert, or update the fee when it was
   unknown and the status when it differs (then cascade through
   update_tx_status).  Yields the new [transactions, scripthashes]. *)
IndexTxEntry(txid, status, hasFee) ==
    IF txid \notin DOMAIN transactions
    THEN <<[t \in DOMAIN transactions \cup {txid} |->
              IF t = txid THEN [status |-> status, hasFee |-> hasFee]
              ELSE transactions[t]],
           scripthashes>>
    ELSE LET cur == transactions[txid] IN
         <<[transactions EXCEPT ![txid] = [status |-> status,
                                            hasFee |-> cur.hasFee \/ hasFee]],
           UpdateTxStatus(scripthashes, txid, cur.status, status)>>

(* index_address_history(address, label, txhist): the history of sh after
   creating its ScriptEntry (and marking the address used) the first time
   and inserting the entry. *)
IndexAddressHistory(hmap, sh, txhist) ==
    IF sh \in DOMAIN hmap THEN BInsert(hmap[sh], txhist) ELSE {txhist}

\* Mutant of PurgeTx: the histories are left as they are.
PurgeTxKeepHistory(txid) ==
    /\ txid \in DOMAIN transactions
    /\ transactions' = Restrict(transactions, DOMAIN transactions \ {txid})
    /\ indexed' = {p \in indexed : p[2] # txid}
    /\ UNCHANGED <<scripthashes, used>>

(* purge_tx(txid): remove the entry and, from every history, its entry
   with the stored status, dropping emptied ScriptEntries; nothing is done
   when the txid is unknown (if let Some(old_entry)). *)
PurgeTx(txid) ==
    LET oldHist == HistoryEntry(txid, transactions[txid].status)
        kept == {sh \in DOMAIN scripthashes : BRemove(scripthashes[sh], oldHist) # {}}
    IN
    IF txid \in DOMAIN transactions
    THEN /\ transactions' = Restrict(transactions, DOMAIN transactions \ {txid})
         /\ scripthashes' = [sh \in kept |-> BRemove(scripthashes[sh], oldHist)]
         /\ indexed' = {p \in indexed : p[2] # txid}
         /\ UNCHANGED used
    ELSE UNCHANGED <<scripthashes, transactions, used, indexed>>

(* The viable branch shared by process_ltx and process_gtx: index the tx
   entry, then one history entry for each address of the record. *)
IndexViable(txid, status, hasFee, shs) ==
    LET afterTx == IndexTxEntry(txid, status, hasFee)
        hist == HistoryEntry(txid, status)
        final == [sh \in DOMAIN afterTx[2] \cup shs |->
                    IF sh \in shs THEN IndexAddressHistory(afterTx[2], sh, hist)
                    ELSE afterTx[2][sh]]
    IN
    /\ transactions' = afterTx[1]
    /\ scripthashes' = final
    /\ used' = used \cup (shs \ DOMAIN afterTx[2])
    /\ indexed' = indexed \cup {<<sh, txid>> : sh \in shs}

\* Mutant of ProcessLtx: a non-viable status is indexed too.
ProcessLtxNoViableCheck(txid, sh, confirmations, tipHeight, hasFee) ==
    IndexViable(txid, NewStatus(confirmations, tipHeight), hasFee, {sh})

(* process_ltx(ltx, tip_height, watcher): a record of a processed category
   is purged when its status is not viable, else indexed for its address. *)
ProcessLtx(txid, sh, confirmations, tipHeight, hasFee) ==
    LET status == NewStatus(confirmations, tipHeight) IN
    IF IsViable(status) THEN IndexViable(txid, status, hasFee, {sh})
    ELSE PurgeTx(txid)

(* process_gtx(gtx, tip_height, watcher): the same for every detail of a
   processed category; shs are those details' addresses. *)
ProcessGtx(txid, shs, confirmations, tipHeight, hasFee) ==
    LET status == NewStatus(confirmations, tipHeight) IN
    IF IsViable(status) THEN IndexViable(txid, status, hasFee, shs)
    ELSE PurgeTx(txid)

\* The node's counts are consistent with its tip: at most tip + 1.
NodeReport(c, tip) == c <= tip + 1

Init ==
    /\ scripthashes = << >>
    /\ transactions = << >>
    /\ used = {}
    /\ indexed = {}

Next ==
    \E t \in Txids, c \in Confirmations, tip \in 0..MaxTip, fee \in BOOLEAN :
        /\ NodeReport(c, tip)
        /\ \/ \E sh \in ScriptHashes : ProcessLtx(t, sh, c, tip, fee)
           \/ \E shs \in SUBSET ScriptHashes : ProcessGtx(t, shs, c, tip, fee)

Spec == Init /\ [][Next]_vars

-----------------------------------------------------------------------------
TypeOK ==
    /\ DOMAIN scripthashes \subseteq ScriptHashes
    /\ \A sh \in DOMAIN scripthashes :
          scripthashes[sh] \subseteq [txid : Txids, status : ViableStatuses]
    /\ DOMAIN transactions \subseteq Txids
    /\ \A t \in DOMAIN transactions :
          transactions[t] \in [status : ViableStatuses, hasFee : BOOLEAN]
    /\ used \subseteq ScriptHashes
    /\ indexed \subseteq ScriptHashes \X Txids

(***************************************************************************)
(* The index never reports a wrong status: every history entry names a    *)
(* stored transaction with its current status, through the status         *)
(* transitions of index_tx_entry/update_tx_status and the purges of       *)
(* purge_tx, which find entries by status only.                           *)
(***************************************************************************)
HistoryEntriesCurrent ==
    \A sh \in DOMAIN scripthashes : \A e \in scripthashes[sh] :
        /\ e.txid \in DOMAIN transactions
        /\ e.status = transactions[e.txid].status

(***************************************************************************)
(* Every transaction indexed for an address, and not purged since, is in  *)
(* that address's history with its current status (spec: a status change *)
(* replaces the old-status entry by an equal-txid new-status one; history *)
(* entries are ordered by status, then by txid).                          *)
(***************************************************************************)
HistoryComplete ==
    \A p \in indexed :
        /\ p[1] \in DOMAIN scripthashes
        /\ HistoryEntry(p[2], transactions[p[2]].status) \in scripthashes[p[1]]

=============================================================================
