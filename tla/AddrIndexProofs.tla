--------------------------- MODULE AddrIndexProofs ---------------------------
(***************************************************************************)
(* Proofs about AddrManager's index (AddrIndex): its type invariant and    *)
(* HistoryEntriesCurrent, for every set of txids and scripthashes, every   *)
(* confirmation count and tip the node reports, and every HeightMod.       *)
(*                                                                         *)
(* HistoryEntriesCurrent holds although the BTreeSet operations find       *)
(* entries by status only.  The argument: every entry of a txid carries    *)
(* that txid's current status, and an entry's status has the same key as  *)
(* itself (StatusCmp is reflexive), so a lookup by the txid's current      *)
(* status reaches every one of its entries.  update_tx_status thus removes *)
(* all of them, purge_tx removes all of them, and what else the coarse key *)
(* removes or fails to insert can only lose entries, never make one wrong. *)
(***************************************************************************)
EXTENDS AddrIndex, TLAPS

USE AddrIndexAssumption, HeightModAssumption

\* The entries and records a well-typed index holds.
Entries == [txid : Txids, status : ViableStatuses]
Records == [status : ViableStatuses, hasFee : BOOLEAN]

\* The two maps are functions (a HashMap), with the types of TypeOK.
MapsTyped(hmap, tmap) ==
    /\ hmap = [sh \in DOMAIN hmap |-> hmap[sh]]
    /\ DOMAIN hmap \subseteq ScriptHashes
    /\ \A sh \in DOMAIN hmap : hmap[sh] \subseteq Entries
    /\ tmap = [t \in DOMAIN tmap |-> tmap[t]]
    /\ DOMAIN tmap \subseteq Txids
    /\ \A t \in DOMAIN tmap : tmap[t] \in Records

\* HistoryEntriesCurrent of a pair of maps.
Current(hmap, tmap) ==
    \A sh \in DOMAIN hmap : \A e \in hmap[sh] :
        /\ e.txid \in DOMAIN tmap
        /\ e.status = tmap[e.txid].status

\* The inductive invariant.
IndexInv ==
    /\ MapsTyped(scripthashes, transactions)
    /\ Current(scripthashes, transactions)
    /\ used \subseteq ScriptHashes
    /\ indexed \subseteq ScriptHashes \X Txids

-----------------------------------------------------------------------------
(* Every status has the same key as itself under HistoryEntry::cmp. *)
LEMMA SameKeyRefl ==
    ASSUME NEW s \in Statuses PROVE StatusCmp(s, s) = 0
<1>1. KindRank(s) \in Int /\ s.height \in Int
  BY DEF Statuses, Heights, Conflicted, Unconfirmed, Confirmed, KindRank
<1>. QED
  BY <1>1 DEF StatusCmp, IntCmp

(* TxStatus::new gives a status for every count and tip. *)
LEMMA NewStatusType ==
    ASSUME NEW c \in Int, NEW h \in Int PROVE NewStatus(c, h) \in Statuses
<1>1. (h - c + 1) % HeightMod \in Heights
  BY DEF Heights
<1>. QED
  BY <1>1 DEF NewStatus, Statuses

(* update_tx_status keeps the histories typed and current once the tx's
   record holds the new status: every entry of the tx has the old status,
   so it is found, removed and replaced. *)
LEMMA UpdateTxStatusCurrent ==
    ASSUME NEW hmap, NEW tmap, MapsTyped(hmap, tmap), Current(hmap, tmap),
           NEW txid \in DOMAIN tmap, NEW new \in ViableStatuses, NEW fee \in BOOLEAN
    PROVE  LET old  == tmap[txid].status
               tmap2 == [tmap EXCEPT ![txid] = [status |-> new, hasFee |-> fee]]
               hmap2 == UpdateTxStatus(hmap, txid, old, new)
           IN  MapsTyped(hmap2, tmap2) /\ Current(hmap2, tmap2)
<1>. DEFINE old  == tmap[txid].status
            tmap2 == [tmap EXCEPT ![txid] = [status |-> new, hasFee |-> fee]]
            hmap2 == UpdateTxStatus(hmap, txid, old, new)
            oldHist == HistoryEntry(txid, old)
            newHist == HistoryEntry(txid, new)
<1>1. old \in ViableStatuses /\ txid \in Txids
  BY DEF MapsTyped, Records
<1>2. /\ DOMAIN tmap2 = DOMAIN tmap
      /\ tmap2[txid].status = new
      /\ \A t \in DOMAIN tmap \ {txid} : tmap2[t] = tmap[t]
      /\ MapsTyped(hmap, tmap2)
  BY DEF MapsTyped, Records
<1>3. newHist \in Entries
  BY <1>1 DEF HistoryEntry, Entries
\* An entry of another tx, or of the tx with the new status, is current.
<1>4. ASSUME NEW e \in Entries, NEW sh \in DOMAIN hmap, e \in hmap[sh] \/ e = newHist,
             e = newHist \/ e.txid # txid
      PROVE  e.txid \in DOMAIN tmap2 /\ e.status = tmap2[e.txid].status
  BY <1>2, <1>4 DEF Current, HistoryEntry
\* An entry of the tx is never kept when the old key is removed or absent.
<1>5. ASSUME NEW sh \in DOMAIN hmap, NEW e \in hmap[sh], e.txid = txid
      PROVE  /\ BContains(hmap[sh], oldHist)
             /\ SameKey(e, oldHist)
  <2>1. e.status = old
    BY <1>5 DEF Current
  <2>2. StatusCmp(old, old) = 0
    BY <1>1, SameKeyRefl DEF ViableStatuses
  <2>. QED
    BY <2>1, <2>2 DEF BContains, SameKey, HistoryEntry
<1>6. CASE old = new
  <2>1. hmap2 = hmap
    BY <1>6 DEF UpdateTxStatus
  <2>2. Current(hmap, tmap2)
    BY <1>2, <1>6 DEF Current
  <2>. QED
    BY <1>2, <2>1, <2>2
<1>7. CASE old # new
  <2>1. hmap2 = [sh \in DOMAIN hmap |->
                   IF BContains(hmap[sh], oldHist)
                   THEN BInsert(BRemove(hmap[sh], oldHist), newHist)
                   ELSE hmap[sh]]
    BY <1>7 DEF UpdateTxStatus
  <2>2. ASSUME NEW sh \in DOMAIN hmap
        PROVE  /\ hmap2[sh] \subseteq Entries
               /\ \A e \in hmap2[sh] : (e \in hmap[sh] /\ e.txid # txid) \/ e = newHist
    <3>1. CASE BContains(hmap[sh], oldHist)
      <4>1. hmap2[sh] \subseteq BRemove(hmap[sh], oldHist) \cup {newHist}
        BY <2>1, <3>1 DEF BInsert
      <4>2. \A e \in BRemove(hmap[sh], oldHist) : e \in hmap[sh] /\ e.txid # txid
        BY <1>5 DEF BRemove
      <4>. QED
        BY <1>3, <4>1, <4>2 DEF MapsTyped
    <3>2. CASE ~BContains(hmap[sh], oldHist)
      <4>1. hmap2[sh] = hmap[sh]
        BY <2>1, <3>2
      <4>. QED
        BY <1>5, <3>2, <4>1 DEF MapsTyped
    <3>. QED
      BY <3>1, <3>2
  <2>3. MapsTyped(hmap2, tmap2)
    BY <1>2, <2>1, <2>2 DEF MapsTyped
  <2>4. Current(hmap2, tmap2)
    <3>. SUFFICES ASSUME NEW sh \in DOMAIN hmap2, NEW e \in hmap2[sh]
                  PROVE  e.txid \in DOMAIN tmap2 /\ e.status = tmap2[e.txid].status
      BY DEF Current
    <3>1. sh \in DOMAIN hmap
      BY <2>1
    <3>2. e \in Entries /\ ((e \in hmap[sh] /\ e.txid # txid) \/ e = newHist)
      BY <2>2, <3>1
    <3>. QED
      BY <3>1, <3>2, <1>4
  <2>. QED
    BY <2>3, <2>4
<1>. QED
  BY <1>6, <1>7

(* index_tx_entry keeps the maps typed and current, and leaves the tx's
   record with the new status. *)
LEMMA IndexTxEntryCurrent ==
    ASSUME IndexInv, NEW txid \in Txids, NEW status \in ViableStatuses,
           NEW hasFee \in BOOLEAN
    PROVE  LET r == IndexTxEntry(txid, status, hasFee) IN
           /\ MapsTyped(r[2], r[1]) /\ Current(r[2], r[1])
           /\ txid \in DOMAIN r[1] /\ r[1][txid].status = status
<1>. DEFINE r == IndexTxEntry(txid, status, hasFee)
<1>1. CASE txid \notin DOMAIN transactions
  <2>. DEFINE tmap2 == [t \in DOMAIN transactions \cup {txid} |->
                          IF t = txid THEN [status |-> status, hasFee |-> hasFee]
                          ELSE transactions[t]]
  <2>1. r = <<tmap2, scripthashes>>
    BY <1>1 DEF IndexTxEntry
  <2>2. MapsTyped(scripthashes, tmap2)
    BY DEF IndexInv, MapsTyped, Records
  <2>3. Current(scripthashes, tmap2)
    <3>. SUFFICES ASSUME NEW sh \in DOMAIN scripthashes, NEW e \in scripthashes[sh]
                  PROVE  e.txid \in DOMAIN tmap2 /\ e.status = tmap2[e.txid].status
      BY DEF Current
    <3>1. e.txid \in DOMAIN transactions /\ e.status = transactions[e.txid].status
      BY DEF IndexInv, Current
    <3>2. e.txid # txid
      BY <1>1, <3>1
    <3>. QED
      BY <3>1, <3>2
  <2>. QED
    BY <2>1, <2>2, <2>3
<1>2. CASE txid \in DOMAIN transactions
  <2>. DEFINE cur == transactions[txid]
              fee == cur.hasFee \/ hasFee
              tmap2 == [transactions EXCEPT ![txid] = [status |-> status, hasFee |-> fee]]
  <2>1. r = <<tmap2, UpdateTxStatus(scripthashes, txid, cur.status, status)>>
    BY <1>2 DEF IndexTxEntry
  <2>2. fee \in BOOLEAN
    BY <1>2 DEF IndexInv, MapsTyped, Records
  <2>3. MapsTyped(UpdateTxStatus(scripthashes, txid, cur.status, status), tmap2)
        /\ Current(UpdateTxStatus(scripthashes, txid, cur.status, status), tmap2)
    BY <1>2, <2>2, UpdateTxStatusCurrent DEF IndexInv
  <2>. QED
    BY <1>2, <2>1, <2>3
<1>. QED
  BY <1>1, <1>2

(* The viable branch of process_ltx and process_gtx keeps the invariant:
   the history entries it inserts carry the status just stored. *)
LEMMA IndexViableInv ==
    ASSUME IndexInv, NEW txid \in Txids, NEW status \in ViableStatuses,
           NEW hasFee \in BOOLEAN, NEW shs \in SUBSET ScriptHashes,
           IndexViable(txid, status, hasFee, shs)
    PROVE  IndexInv'
<1>. DEFINE afterTx == IndexTxEntry(txid, status, hasFee)
            hist == HistoryEntry(txid, status)
            hmap == afterTx[2]
            tmap == afterTx[1]
<1>1. MapsTyped(hmap, tmap) /\ Current(hmap, tmap)
      /\ txid \in DOMAIN tmap /\ tmap[txid].status = status
  BY IndexTxEntryCurrent
<1>2. /\ transactions' = tmap
      /\ scripthashes' = [sh \in DOMAIN hmap \cup shs |->
                            IF sh \in shs THEN IndexAddressHistory(hmap, sh, hist)
                            ELSE hmap[sh]]
      /\ used' = used \cup (shs \ DOMAIN hmap)
      /\ indexed' = indexed \cup {<<sh, txid>> : sh \in shs}
  BY DEF IndexViable
<1>2a. hist \in Entries
  BY DEF HistoryEntry, Entries
<1>3. \A sh \in shs : IndexAddressHistory(hmap, sh, hist) \subseteq
          (IF sh \in DOMAIN hmap THEN hmap[sh] ELSE {}) \cup {hist}
  BY DEF IndexAddressHistory, BInsert
<1>4. \A sh \in DOMAIN scripthashes' :
         \A e \in scripthashes'[sh] : e = hist \/ (sh \in DOMAIN hmap /\ e \in hmap[sh])
  BY <1>2, <1>3
<1>5. MapsTyped(scripthashes', transactions')
  BY <1>1, <1>2, <1>2a, <1>4 DEF MapsTyped
<1>6. Current(scripthashes', transactions')
  <2>. SUFFICES ASSUME NEW sh \in DOMAIN scripthashes', NEW e \in scripthashes'[sh]
                PROVE  e.txid \in DOMAIN tmap /\ e.status = tmap[e.txid].status
    BY <1>2 DEF Current
  <2>1. CASE e = hist
    BY <1>1, <2>1 DEF HistoryEntry
  <2>2. CASE sh \in DOMAIN hmap /\ e \in hmap[sh]
    BY <1>1, <2>2 DEF Current
  <2>. QED
    BY <1>4, <2>1, <2>2
<1>7. used' \subseteq ScriptHashes /\ indexed' \subseteq ScriptHashes \X Txids
  BY <1>2 DEF IndexInv
<1>. QED
  BY <1>5, <1>6, <1>7 DEF IndexInv

(* purge_tx keeps the invariant: every entry of the tx has the stored
   status, so the removal by that status reaches all of them. *)
LEMMA PurgeTxInv ==
    ASSUME IndexInv, NEW txid, PurgeTx(txid) PROVE IndexInv'
<1>1. CASE txid \in DOMAIN transactions
  <2>. DEFINE oldHist == HistoryEntry(txid, transactions[txid].status)
              kept == {sh \in DOMAIN scripthashes : BRemove(scripthashes[sh], oldHist) # {}}
  <2>1. /\ transactions' = Restrict(transactions, DOMAIN transactions \ {txid})
        /\ scripthashes' = [sh \in kept |-> BRemove(scripthashes[sh], oldHist)]
        /\ indexed' = {p \in indexed : p[2] # txid}
        /\ UNCHANGED used
    BY <1>1 DEF PurgeTx
  <2>2. \A sh \in DOMAIN scripthashes : \A e \in BRemove(scripthashes[sh], oldHist) :
           e \in scripthashes[sh] /\ e.txid # txid
    <3>. SUFFICES ASSUME NEW sh \in DOMAIN scripthashes, NEW e \in scripthashes[sh],
                         e.txid = txid
                  PROVE  SameKey(e, oldHist)
      BY DEF BRemove
    <3>1. e.status = transactions[txid].status /\ e.status \in Statuses
      BY DEF IndexInv, Current, MapsTyped, Entries, ViableStatuses
    <3>. QED
      BY <3>1, SameKeyRefl DEF SameKey, HistoryEntry
  <2>3. MapsTyped(scripthashes', transactions')
    BY <2>1, <2>2 DEF IndexInv, MapsTyped, Restrict
  <2>4. Current(scripthashes', transactions')
    BY <2>1, <2>2 DEF IndexInv, Current, Restrict
  <2>. QED
    BY <2>1, <2>3, <2>4 DEF IndexInv
<1>2. CASE txid \notin DOMAIN transactions
  BY <1>2 DEF PurgeTx, IndexInv
<1>. QED
  BY <1>1, <1>2

-----------------------------------------------------------------------------
(* The initial, empty index. *)
LEMMA IndexInit == Init => IndexInv
BY DEF Init, IndexInv, MapsTyped, Current

(* One row of process_ltx or one result of process_gtx: a status that is
   not viable purges, a viable one is indexed. *)
LEMMA ProcessInv ==
    ASSUME IndexInv, NEW t \in Txids, NEW c \in Int, NEW tip \in Int,
           NEW fee \in BOOLEAN, NEW shs \in SUBSET ScriptHashes,
           LET status == NewStatus(c, tip) IN
           IF IsViable(status) THEN IndexViable(t, status, fee, shs) ELSE PurgeTx(t)
    PROVE  IndexInv'
<1>. DEFINE status == NewStatus(c, tip)
<1>1. status \in Statuses
  BY NewStatusType
<1>2. CASE IsViable(status)
  <2>1. status \in ViableStatuses /\ IndexViable(t, status, fee, shs)
    BY <1>1, <1>2 DEF ViableStatuses
  <2>. QED
    BY <2>1, IndexViableInv
<1>3. CASE ~IsViable(status)
  BY <1>3, PurgeTxInv
<1>. QED
  BY <1>2, <1>3

(* Every step of the index, and every stutter, keeps the invariant. *)
LEMMA IndexNext ==
    ASSUME IndexInv, [Next]_vars PROVE IndexInv'
<1>1. CASE Next
  <2>1. PICK t \in Txids, c \in Confirmations, tip \in 0 .. MaxTip, fee \in BOOLEAN :
           \/ \E sh \in ScriptHashes : ProcessLtx(t, sh, c, tip, fee)
           \/ \E shs \in SUBSET ScriptHashes : ProcessGtx(t, shs, c, tip, fee)
    BY <1>1 DEF Next
  <2>0. c \in Int /\ tip \in Int
    BY AddrIndexAssumption DEF Heights
  <2>2. CASE \E sh \in ScriptHashes : ProcessLtx(t, sh, c, tip, fee)
    <3>1. PICK sh \in ScriptHashes : ProcessLtx(t, sh, c, tip, fee)
      BY <2>2
    <3>2. {sh} \in SUBSET ScriptHashes
      OBVIOUS
    <3>3. IF IsViable(NewStatus(c, tip)) THEN IndexViable(t, NewStatus(c, tip), fee, {sh})
          ELSE PurgeTx(t)
      BY <3>1 DEF ProcessLtx
    <3>. QED
      BY <2>0, <3>2, <3>3, ProcessInv
  <2>3. CASE \E shs \in SUBSET ScriptHashes : ProcessGtx(t, shs, c, tip, fee)
    <3>1. PICK shs \in SUBSET ScriptHashes : ProcessGtx(t, shs, c, tip, fee)
      BY <2>3
    <3>. QED
      BY <2>0, <3>1, ProcessInv DEF ProcessGtx
  <2>. QED
    BY <2>1, <2>2, <2>3
<1>2. CASE UNCHANGED vars
  BY <1>2 DEF vars, IndexInv, MapsTyped, Current
<1>. QED
  BY <1>1, <1>2

(* The index of AddrManager holds only scripthashes and txids of the
   wallet, history entries and records with viable statuses (process_ltx
   and process_gtx purge instead of storing a Conflicted status), for
   every wallet, every count and tip the node reports, and every HeightMod. *)
THEOREM IndexTypeCorrect == Spec => []TypeOK
<1>1. IndexInv => TypeOK
  BY DEF IndexInv, MapsTyped, TypeOK, Entries, Records
<1>. QED
  BY <1>1, IndexInit, IndexNext, PTL DEF Spec

(* AddrManager's index never shows a history entry with a status other
   than its transaction's current one, or of a purged transaction, although
   BTreeSet<HistoryEntry> finds, inserts and removes entries by status
   only: index_tx_entry/update_tx_status and purge_tx reach every entry of
   the transaction they change. *)
THEOREM HistoryEntriesCurrentHolds == Spec => []HistoryEntriesCurrent
<1>1. IndexInv => HistoryEntriesCurrent
  BY DEF IndexInv, Current, HistoryEntriesCurrent
<1>. QED
  BY <1>1, IndexInit, IndexNext, PTL DEF Spec

=============================================================================
