-------------------------- MODULE MemoryStoreProofs --------------------------
(***************************************************************************)
(* Proofs about MemoryStore (src/store.rs) for every value of the          *)
(* constants: the type invariant, then the consistency of the forward and  *)
(* reverse indexes and of the mempool map, from an inductive invariant.    *)
(***************************************************************************)
EXTENDS MemoryStore, TLAPS

USE StoreAssumption

\* What MapPut (HashMap::insert) returns.
LEMMA MapPutDef ==
    ASSUME NEW f, NEW k, NEW v
    PROVE  /\ DOMAIN MapPut(f, k, v) = DOMAIN f \cup {k}
           /\ MapPut(f, k, v)[k] = v
           /\ \A x \in DOMAIN f \ {k} : MapPut(f, k, v)[x] = f[x]
BY DEF MapPut

LEMMA RestrictDef ==
    ASSUME NEW f, NEW S
    PROVE  /\ DOMAIN Restrict(f, S) = S
           /\ \A x \in S : Restrict(f, S)[x] = f[x]
BY DEF Restrict

-----------------------------------------------------------------------------
(* The type invariant holds in every reachable state: no action of
   store.rs stores a Conflicted status, a key outside its map's key type
   or a spend edge to something other than an input point. *)
LEMMA TypeOKNext == TypeOK /\ [Next]_vars => TypeOK'
<1> SUFFICES ASSUME TypeOK, [Next]_vars PROVE TypeOK'
    OBVIOUS
<1>1. ASSUME NEW sh \in ScriptHashes, IndexScripthash(sh) PROVE TypeOK'
    BY <1>1 DEF IndexScripthash, TypeOK, MapPut
<1>2. ASSUME NEW t \in Txids, NEW s \in Statuses, UpsertTx(t, s) PROVE TypeOK'
    <2>1. s \in ViableStatuses
        BY <1>2 DEF UpsertTx, ViableStatuses
    <2>2. CASE /\ t \notin DOMAIN transactions
               /\ transactions' = MapPut(transactions, t, NewTxEntry(s))
               /\ mempool' = IF IsUnconfirmed(s) THEN mempool \cup {t} ELSE mempool
               /\ UNCHANGED scripthashes
        <3>1. NewTxEntry(s) \in TxEntries
            BY <2>1 DEF NewTxEntry, TxEntries
        <3>2. QED
            BY <3>1, <2>2, <1>2 DEF UpsertTx, TypeOK, MapPut
    <2>3. CASE /\ t \in DOMAIN transactions
               /\ transactions[t].status # s
               /\ transactions' = [transactions EXCEPT ![t] = WithStatus(@, s)]
               /\ UpdateTxStatus(t, transactions[t].status, s)
        <3>1. WithStatus(transactions[t], s) \in TxEntries
            BY <2>1, <2>3 DEF TypeOK, TxEntries, WithStatus
        <3>2. HistoryEntry(t, s) \in HistoryEntries
            BY <2>1 DEF HistoryEntry, HistoryEntries
        <3>3. (\A sh \in DOMAIN scripthashes : scripthashes[sh] \subseteq HistoryEntries)'
            BY <2>3, <3>2 DEF UpdateTxStatus, TypeOK
        <3>4. (DOMAIN scripthashes \subseteq ScriptHashes /\ mempool \subseteq Txids)'
            BY <2>3 DEF UpdateTxStatus, TypeOK
        <3>5. QED
            BY <3>1, <3>3, <3>4, <2>3, <1>2 DEF UpsertTx, TypeOK
    <2>4. QED
        BY <1>2, <2>2, <2>3 DEF UpsertTx
<1>3. ASSUME NEW t \in Txids, NEW v \in Vouts, IndexTxOutputFunding(t, v) PROVE TypeOK'
    <2>1. WithFunding(transactions[t], transactions[t].funding \cup {v}) \in TxEntries
        BY <1>3 DEF IndexTxOutputFunding, TypeOK, TxEntries, WithFunding
    <2>2. HistoryEntry(t, transactions[t].status) \in HistoryEntries
        BY <1>3 DEF IndexTxOutputFunding, TypeOK, TxEntries, HistoryEntry, HistoryEntries
    <2>3. QED
        BY <1>3, <2>1, <2>2 DEF IndexTxOutputFunding, IndexHistoryEntry, TypeOK
<1>4. ASSUME NEW t \in Txids, NEW vs \in SUBSET Vins, NEW ow \in BOOLEAN,
             IndexTxInputsSpending(t, vs, ow)
      PROVE TypeOK'
    <2>1. /\ t \in DOMAIN transactions
          /\ vs \subseteq OwnedVins(t)
        BY <1>4 DEF IndexTxInputsSpending
    <2>2. WithSpending(transactions[t], vs) \in TxEntries
        BY <2>1 DEF TypeOK, TxEntries, WithSpending
    <2>3. HistoryEntry(t, WithSpending(transactions[t], vs).status) \in HistoryEntries
        BY <2>1 DEF TypeOK, TxEntries, WithSpending, HistoryEntry, HistoryEntries
    <2>4. /\ DOMAIN IndexTxoSpends(t, vs) \subseteq Outpoints
          /\ \A o \in DOMAIN IndexTxoSpends(t, vs) : IndexTxoSpends(t, vs)[o] \in InPoints
        <3>1. \A w \in vs : Prevout[<<t, w>>] \in Outpoints
            BY <2>1, StoreAssumption DEF OwnedVins
        <3>2. \A o \in {Prevout[<<t, w>>] : w \in vs} :
                  (CHOOSE w \in vs : Prevout[<<t, w>>] = o) \in Vins
            OBVIOUS
        <3>3. DOMAIN IndexTxoSpends(t, vs) \subseteq Outpoints
            BY <3>1 DEF IndexTxoSpends, TypeOK
        <3>4. ASSUME NEW o \in DOMAIN IndexTxoSpends(t, vs)
              PROVE  IndexTxoSpends(t, vs)[o] \in InPoints
            <4>1. CASE o \in {Prevout[<<t, w>>] : w \in vs}
                <5>1. IndexTxoSpends(t, vs)[o] = <<t, CHOOSE w \in vs : Prevout[<<t, w>>] = o>>
                    BY <4>1 DEF IndexTxoSpends
                <5>2. QED
                    BY <5>1, <4>1, <3>2 DEF InPoints
            <4>2. CASE o \notin {Prevout[<<t, w>>] : w \in vs}
                <5>1. o \in DOMAIN txoSpends /\ IndexTxoSpends(t, vs)[o] = txoSpends[o]
                    BY <3>4, <4>2 DEF IndexTxoSpends
                <5>2. QED
                    BY <5>1 DEF TypeOK
            <4>3. QED
                BY <4>1, <4>2
        <3>5. QED
            BY <3>3, <3>4
    <2>5. QED
        BY <1>4, <2>1, <2>2, <2>3, <2>4 DEF IndexTxInputsSpending, TypeOK
<1>5. ASSUME NEW t \in Txids, PurgeTx(t) PROVE TypeOK'
    BY <1>5, RestrictDef DEF PurgeTx, TypeOK
<1>6. CASE UNCHANGED vars
    BY <1>6 DEF vars, TypeOK
<1>7. QED
    BY <1>1, <1>2, <1>3, <1>4, <1>5, <1>6 DEF Next

(* The type invariant holds in every reachable state: no action of
   store.rs stores a Conflicted status, a key outside its map's key type
   or a spend edge to something other than an input point. *)
LEMMA TypeCorrect == Spec => []TypeOK
<1>1. Init => TypeOK
    BY DEF Init, TypeOK
<1>2. QED
    BY <1>1, TypeOKNext, PTL DEF Spec

-----------------------------------------------------------------------------
(***************************************************************************)
(* The consistency invariants.  IndexConsistent, MempoolConsistent and     *)
(* SpendEdgesSound are inductive together with TypeOK and the fact that    *)
(* no spend edge exists without the track-spends feature.                  *)
(***************************************************************************)
NoEdgesUntracked == TrackSpends \/ DOMAIN txoSpends = {}

StoreInv ==
    /\ TypeOK
    /\ IndexConsistent
    /\ MempoolConsistent
    /\ SpendEdgesSound
    /\ NoEdgesUntracked

\* A history entry is the record of its own txid and status.
LEMMA HistoryEntryEta ==
    ASSUME NEW e \in HistoryEntries
    PROVE  e = HistoryEntry(e.txid, e.status)
BY DEF HistoryEntries, HistoryEntry

\* Unconfirmed is a single status.
LEMMA UnconfirmedUnique ==
    ASSUME NEW a \in Statuses, NEW b \in Statuses, IsUnconfirmed(a), IsUnconfirmed(b)
    PROVE  a = b
BY DEF Statuses, IsUnconfirmed, Conflicted, Unconfirmed, Confirmed

LEMMA InvInit == Init => StoreInv
BY DEF Init, StoreInv, TypeOK, IndexConsistent, MempoolConsistent, SpendEdgesSound,
       NoEdgesUntracked

\* index_scripthash adds an empty ScriptEntry for a new scripthash.
LEMMA InvIndexScripthash ==
    ASSUME StoreInv, NEW sh \in ScriptHashes, IndexScripthash(sh)
    PROVE  StoreInv'
<1>1. TypeOK'
    BY TypeOKNext DEF StoreInv, Next
<1>2. UNCHANGED <<transactions, mempool, txoSpends>>
    BY DEF IndexScripthash
<1>3. \A t \in DOMAIN transactions : TxScripthashes(t)' = TxScripthashes(t)
    BY <1>2 DEF TxScripthashes, EntryScripthashes, SpendingScript
<1>4. IndexConsistent'
    BY <1>3, <1>2 DEF IndexScripthash, StoreInv, IndexConsistent, MapPut
<1>5. QED
    BY <1>1, <1>2, <1>4 DEF StoreInv, MempoolConsistent, SpendEdgesSound, NoEdgesUntracked

\* upsert_tx of a new txid stores an entry that references no scripthash.
LEMMA InvUpsertNew ==
    ASSUME StoreInv, NEW t \in Txids, NEW s \in Statuses, UpsertTx(t, s),
           t \notin DOMAIN transactions
    PROVE  StoreInv'
<1>1. TypeOK'
    BY TypeOKNext DEF StoreInv, Next
<1>2. /\ transactions' = MapPut(transactions, t, NewTxEntry(s))
      /\ mempool' = IF IsUnconfirmed(s) THEN mempool \cup {t} ELSE mempool
      /\ UNCHANGED <<scripthashes, txoSpends>>
    BY DEF UpsertTx
<1>3. /\ DOMAIN transactions' = DOMAIN transactions \cup {t}
      /\ transactions'[t] = NewTxEntry(s)
      /\ \A x \in DOMAIN transactions : transactions'[x] = transactions[x]
    BY <1>2 DEF MapPut
<1>4. TxScripthashes(t)' = {}
    BY <1>3 DEF TxScripthashes, EntryScripthashes, NewTxEntry
<1>5. \A x \in DOMAIN transactions : TxScripthashes(x)' = TxScripthashes(x)
    BY <1>3 DEF TxScripthashes, EntryScripthashes
<1>6. IndexConsistent'
    BY <1>2, <1>3, <1>4, <1>5 DEF StoreInv, IndexConsistent
<1>7. MempoolConsistent'
    <2> SUFFICES ASSUME NEW x \in Txids
                 PROVE  x \in mempool' <=> (x \in DOMAIN transactions'
                                            /\ IsUnconfirmed(transactions'[x].status))
        BY DEF MempoolConsistent
    <2>1. t \notin mempool
        BY DEF StoreInv, MempoolConsistent
    <2>2. CASE x = t
        BY <2>1, <2>2, <1>2, <1>3 DEF NewTxEntry
    <2>3. CASE x # t
        BY <2>3, <1>2, <1>3 DEF StoreInv, MempoolConsistent
    <2>4. QED
        BY <2>2, <2>3
<1>8. SpendEdgesSound'
    <2> SUFFICES ASSUME NEW o \in DOMAIN txoSpends
                 PROVE  LET u == txoSpends[o][1]  v == txoSpends[o][2] IN
                        /\ u \in DOMAIN transactions'
                        /\ v \in transactions'[u].spending
                        /\ Prevout[<<u, v>>] = o
        BY <1>2 DEF SpendEdgesSound
    <2>1. txoSpends[o][1] \in DOMAIN transactions
        BY DEF StoreInv, SpendEdgesSound
    <2>2. QED
        BY <2>1, <1>3 DEF StoreInv, SpendEdgesSound
<1>9. QED
    BY <1>1, <1>6, <1>7, <1>8, <1>2 DEF StoreInv, NoEdgesUntracked

(* upsert_tx of a known txid with a new status: update_tx_status moves the
   history entry of every scripthash the entry references and the mempool
   slot to the new status. *)
LEMMA InvUpsertChange ==
    ASSUME StoreInv, NEW t \in Txids, NEW s \in Statuses, UpsertTx(t, s),
           t \in DOMAIN transactions
    PROVE  StoreInv'
<1> DEFINE old == transactions[t].status
           oldHist == HistoryEntry(t, old)
           newHist == HistoryEntry(t, s)
           shs == TxScripthashes(t)
<1>1. TypeOK'
    BY TypeOKNext DEF StoreInv, Next
<1>2. /\ old # s
      /\ transactions' = [transactions EXCEPT ![t] = WithStatus(@, s)]
      /\ UpdateTxStatus(t, old, s)
      /\ UNCHANGED txoSpends
    BY DEF UpsertTx
<1>3. /\ DOMAIN transactions' = DOMAIN transactions
      /\ transactions'[t] = WithStatus(transactions[t], s)
      /\ \A x \in DOMAIN transactions \ {t} : transactions'[x] = transactions[x]
    BY <1>2
<1>4. /\ transactions'[t].status = s
      /\ \A x \in DOMAIN transactions :
            /\ transactions'[x].funding = transactions[x].funding
            /\ transactions'[x].spending = transactions[x].spending
    BY <1>3 DEF WithStatus
<1>5. \A x \in DOMAIN transactions : TxScripthashes(x)' = TxScripthashes(x)
    BY <1>3, <1>4 DEF TxScripthashes, EntryScripthashes, SpendingScript
<1>6. scripthashes' = [sh \in DOMAIN scripthashes |->
                         IF sh \in shs THEN (scripthashes[sh] \ {oldHist}) \cup {newHist}
                         ELSE scripthashes[sh]]
    BY <1>2 DEF UpdateTxStatus
<1>7. old \in ViableStatuses /\ s \in ViableStatuses
    BY DEF StoreInv, TypeOK, TxEntries, UpsertTx, ViableStatuses
<1>8. IndexConsistent'
    <2>1. ASSUME NEW x \in DOMAIN transactions', NEW sh \in TxScripthashes(x)'
          PROVE  /\ sh \in DOMAIN scripthashes'
                 /\ HistoryEntry(x, transactions'[x].status) \in scripthashes'[sh]
        <3>1. sh \in TxScripthashes(x) /\ sh \in DOMAIN scripthashes
            BY <2>1, <1>3, <1>5 DEF StoreInv, IndexConsistent
        <3>2. CASE x = t
            BY <3>1, <3>2, <1>4, <1>6
        <3>3. CASE x # t
            <4>1. HistoryEntry(x, transactions[x].status) \in scripthashes[sh]
                BY <3>1, <2>1, <1>3 DEF StoreInv, IndexConsistent
            <4>2. HistoryEntry(x, transactions[x].status) # oldHist
                BY <3>3 DEF HistoryEntry
            <4>3. QED
                BY <3>1, <3>3, <4>1, <4>2, <1>3, <1>6, <2>1
        <3>4. QED
            BY <3>2, <3>3
    <2>2. ASSUME NEW sh \in DOMAIN scripthashes', NEW e \in scripthashes'[sh]
          PROVE  /\ e.txid \in DOMAIN transactions'
                 /\ e.status = transactions'[e.txid].status
                 /\ sh \in TxScripthashes(e.txid)'
        <3>1. sh \in DOMAIN scripthashes
            BY <1>6
        <3>2. CASE sh \in shs /\ e = newHist
            BY <3>2, <1>3, <1>4, <1>5 DEF HistoryEntry
        <3>3. CASE ~(sh \in shs /\ e = newHist)
            <4>1. e \in scripthashes[sh] /\ (sh \in shs => e # oldHist)
                BY <3>1, <3>3, <2>2, <1>6
            <4>2. /\ e.txid \in DOMAIN transactions
                  /\ e.status = transactions[e.txid].status
                  /\ sh \in TxScripthashes(e.txid)
                BY <4>1, <3>1 DEF StoreInv, IndexConsistent
            <4>3. e \in HistoryEntries
                BY <4>1, <3>1 DEF StoreInv, TypeOK
            <4>4. e.txid # t
                BY <4>1, <4>2, <4>3, HistoryEntryEta
            <4>5. QED
                BY <4>2, <4>4, <1>3, <1>5
        <3>4. QED
            BY <3>2, <3>3
    <2>3. QED
        BY <2>1, <2>2 DEF IndexConsistent
<1>9. MempoolConsistent'
    <2>1. mempool' = CASE IsUnconfirmed(old) -> mempool \ {t}
                       [] IsUnconfirmed(s) -> mempool \cup {t}
                       [] OTHER            -> mempool
        BY <1>2 DEF UpdateTxStatus
    <2>2. IsUnconfirmed(old) => ~IsUnconfirmed(s)
        BY <1>2, <1>7, UnconfirmedUnique DEF ViableStatuses
    <2>3. SUFFICES ASSUME NEW x \in Txids
                   PROVE  x \in mempool' <=> (x \in DOMAIN transactions'
                                              /\ IsUnconfirmed(transactions'[x].status))
        BY DEF MempoolConsistent
    <2>4. CASE x = t
        <3>1. t \in mempool <=> IsUnconfirmed(old)
            BY DEF StoreInv, MempoolConsistent
        <3>2. QED
            BY <3>1, <2>1, <2>2, <2>4, <1>3, <1>4
    <2>5. CASE x # t
        <3>1. x \in mempool' <=> x \in mempool
            BY <2>1, <2>5
        <3>2. QED
            BY <3>1, <2>5, <1>3 DEF StoreInv, MempoolConsistent
    <2>6. QED
        BY <2>4, <2>5
<1>10. SpendEdgesSound'
    BY <1>2, <1>3, <1>4 DEF StoreInv, SpendEdgesSound
<1>11. QED
    BY <1>1, <1>8, <1>9, <1>10, <1>2 DEF StoreInv, NoEdgesUntracked

(* index_tx_output_funding adds a vout to the funding map and the entry's
   current-status history entry to the scripthash that vout pays. *)
LEMMA InvIndexFunding ==
    ASSUME StoreInv, NEW t \in Txids, NEW v \in Vouts, IndexTxOutputFunding(t, v)
    PROVE  StoreInv'
<1> DEFINE sh0 == FundedScript[<<t, v>>]
           h == HistoryEntry(t, transactions[t].status)
<1>1. TypeOK'
    BY TypeOKNext DEF StoreInv, Next
<1>2. /\ t \in DOMAIN transactions
      /\ sh0 \in DOMAIN scripthashes
      /\ transactions' = [transactions EXCEPT ![t] = WithFunding(@, @.funding \cup {v})]
      /\ scripthashes' = [scripthashes EXCEPT ![sh0] = @ \cup {h}]
      /\ UNCHANGED <<mempool, txoSpends>>
    BY DEF IndexTxOutputFunding, IndexHistoryEntry
<1>3. /\ DOMAIN transactions' = DOMAIN transactions
      /\ transactions'[t].funding = transactions[t].funding \cup {v}
      /\ \A x \in DOMAIN transactions :
            /\ transactions'[x].status = transactions[x].status
            /\ transactions'[x].spending = transactions[x].spending
      /\ \A x \in DOMAIN transactions \ {t} : transactions'[x] = transactions[x]
    BY <1>2 DEF WithFunding
<1>4. /\ TxScripthashes(t)' = TxScripthashes(t) \cup {sh0}
      /\ \A x \in DOMAIN transactions \ {t} : TxScripthashes(x)' = TxScripthashes(x)
    <2>1. {FundedScript[<<t, w>>] : w \in transactions'[t].funding}
            = {FundedScript[<<t, w>>] : w \in transactions[t].funding} \cup {sh0}
        BY <1>3
    <2>2. {SpendingScript(t, w) : w \in transactions'[t].spending}
            = {SpendingScript(t, w) : w \in transactions[t].spending}
        BY <1>2, <1>3
    <2>3. TxScripthashes(t)' = TxScripthashes(t) \cup {sh0}
        BY <2>1, <2>2 DEF TxScripthashes, EntryScripthashes
    <2>4. QED
        BY <2>3, <1>3 DEF TxScripthashes, EntryScripthashes, SpendingScript
<1>5. /\ DOMAIN scripthashes' = DOMAIN scripthashes
      /\ scripthashes'[sh0] = scripthashes[sh0] \cup {h}
      /\ \A sh \in DOMAIN scripthashes \ {sh0} : scripthashes'[sh] = scripthashes[sh]
    BY <1>2
<1>6. IndexConsistent'
    <2>1. ASSUME NEW x \in DOMAIN transactions', NEW sh \in TxScripthashes(x)'
          PROVE  /\ sh \in DOMAIN scripthashes'
                 /\ HistoryEntry(x, transactions'[x].status) \in scripthashes'[sh]
        <3>1. CASE x = t /\ sh = sh0
            BY <3>1, <1>2, <1>3, <1>5
        <3>2. CASE ~(x = t /\ sh = sh0)
            <4>1. sh \in TxScripthashes(x)
                BY <3>2, <2>1, <1>3, <1>4
            <4>2. sh \in DOMAIN scripthashes
                  /\ HistoryEntry(x, transactions[x].status) \in scripthashes[sh]
                BY <4>1, <2>1, <1>3 DEF StoreInv, IndexConsistent
            <4>3. QED
                BY <4>2, <2>1, <1>3, <1>5
        <3>3. QED
            BY <3>1, <3>2
    <2>2. ASSUME NEW sh \in DOMAIN scripthashes', NEW e \in scripthashes'[sh]
          PROVE  /\ e.txid \in DOMAIN transactions'
                 /\ e.status = transactions'[e.txid].status
                 /\ sh \in TxScripthashes(e.txid)'
        <3>1. CASE sh = sh0 /\ e = h
            BY <3>1, <1>2, <1>3, <1>4 DEF HistoryEntry
        <3>2. CASE ~(sh = sh0 /\ e = h)
            <4>1. sh \in DOMAIN scripthashes /\ e \in scripthashes[sh]
                BY <3>2, <2>2, <1>5
            <4>2. /\ e.txid \in DOMAIN transactions
                  /\ e.status = transactions[e.txid].status
                  /\ sh \in TxScripthashes(e.txid)
                BY <4>1 DEF StoreInv, IndexConsistent
            <4>3. QED
                BY <4>2, <1>3, <1>4
        <3>3. QED
            BY <3>1, <3>2
    <2>3. QED
        BY <2>1, <2>2 DEF IndexConsistent
<1>7. MempoolConsistent'
    BY <1>2, <1>3 DEF StoreInv, MempoolConsistent
<1>8. SpendEdgesSound'
    BY <1>2, <1>3 DEF StoreInv, SpendEdgesSound
<1>9. QED
    BY <1>1, <1>6, <1>7, <1>8, <1>2 DEF StoreInv, NoEdgesUntracked

(* index_tx_inputs_spending installs a spending map that (caller contract
   FullerViewOnly) keeps every input already recorded, indexes the entry's
   history entry under every scripthash it now references, and records
   the spend edges of its inputs. *)
LEMMA InvIndexSpending ==
    ASSUME StoreInv, FullerViewOnly,
           NEW t \in Txids, NEW vs \in SUBSET Vins, NEW ow \in BOOLEAN,
           IndexTxInputsSpending(t, vs, ow)
    PROVE  StoreInv'
<1> DEFINE entry == WithSpending(transactions[t], vs)
           h == HistoryEntry(t, transactions[t].status)
           es == EntryScripthashes(t, entry)
<1>1. TypeOK'
    BY TypeOKNext DEF StoreInv, Next
<1>2. /\ t \in DOMAIN transactions
      /\ vs \subseteq OwnedVins(t)
      /\ \A w \in vs : LET p == Prevout[<<t, w>>] IN
                         p[1] \in DOMAIN transactions /\ p[2] \in transactions[p[1]].funding
      /\ transactions[t].spending \subseteq vs
      /\ transactions' = [transactions EXCEPT ![t] = entry]
      /\ scripthashes' = [sh \in DOMAIN scripthashes |->
                            IF sh \in es THEN scripthashes[sh] \cup {h}
                            ELSE scripthashes[sh]]
      /\ txoSpends' = IF TrackSpends THEN IndexTxoSpends(t, vs) ELSE txoSpends
      /\ UNCHANGED mempool
    BY DEF IndexTxInputsSpending, WithSpending
<1>3. /\ DOMAIN transactions' = DOMAIN transactions
      /\ transactions'[t] = entry
      /\ transactions'[t].spending = vs
      /\ \A x \in DOMAIN transactions :
            /\ transactions'[x].status = transactions[x].status
            /\ transactions'[x].funding = transactions[x].funding
            /\ transactions[x].spending \subseteq transactions'[x].spending
      /\ \A x \in DOMAIN transactions \ {t} : transactions'[x] = transactions[x]
    BY <1>2 DEF WithSpending
<1>4. /\ TxScripthashes(t)' = es
      /\ TxScripthashes(t) \subseteq es
      /\ \A x \in DOMAIN transactions \ {t} : TxScripthashes(x)' = TxScripthashes(x)
    <2>1. TxScripthashes(t)' = es
        BY <1>3 DEF TxScripthashes
    <2>2. entry.funding = transactions[t].funding /\ transactions[t].spending \subseteq entry.spending
        BY <1>2 DEF WithSpending
    <2>3. TxScripthashes(t) \subseteq es
        BY <2>2 DEF TxScripthashes, EntryScripthashes
    <2>4. \A x \in DOMAIN transactions \ {t} : TxScripthashes(x)' = TxScripthashes(x)
        BY <1>3 DEF TxScripthashes, EntryScripthashes, SpendingScript
    <2>5. QED
        BY <2>1, <2>3, <2>4
<1>5. es \subseteq DOMAIN scripthashes
    <2>1. {FundedScript[<<t, w>>] : w \in entry.funding} \subseteq DOMAIN scripthashes
        <3>1. {FundedScript[<<t, w>>] : w \in entry.funding} \subseteq TxScripthashes(t)
            BY DEF WithSpending, TxScripthashes, EntryScripthashes
        <3>2. QED
            BY <3>1, <1>2 DEF StoreInv, IndexConsistent
    <2>2. ASSUME NEW w \in vs PROVE SpendingScript(t, w) \in DOMAIN scripthashes
        <3> DEFINE p == Prevout[<<t, w>>]
        <3>1. p \in Outpoints
            BY <1>2, StoreAssumption DEF OwnedVins
        <3>2. p = <<p[1], p[2]>> /\ p[1] \in Txids
            BY <3>1 DEF Outpoints
        <3>3. p[1] \in DOMAIN transactions /\ p[2] \in transactions[p[1]].funding
            BY <1>2
        <3>4. FundedScript[p] \in TxScripthashes(p[1])
            BY <3>2, <3>3 DEF TxScripthashes, EntryScripthashes
        <3>5. QED
            BY <3>3, <3>4 DEF StoreInv, IndexConsistent, SpendingScript
    <2>3. QED
        BY <2>1, <2>2 DEF EntryScripthashes, WithSpending
<1>6. IndexConsistent'
    <2>1. ASSUME NEW x \in DOMAIN transactions', NEW sh \in TxScripthashes(x)'
          PROVE  /\ sh \in DOMAIN scripthashes'
                 /\ HistoryEntry(x, transactions'[x].status) \in scripthashes'[sh]
        <3>1. CASE x = t
            BY <3>1, <2>1, <1>2, <1>3, <1>4, <1>5
        <3>2. CASE x # t
            <4>1. sh \in DOMAIN scripthashes
                  /\ HistoryEntry(x, transactions[x].status) \in scripthashes[sh]
                BY <3>2, <2>1, <1>3, <1>4 DEF StoreInv, IndexConsistent
            <4>2. QED
                BY <4>1, <2>1, <1>2, <1>3
        <3>3. QED
            BY <3>1, <3>2
    <2>2. ASSUME NEW sh \in DOMAIN scripthashes', NEW e \in scripthashes'[sh]
          PROVE  /\ e.txid \in DOMAIN transactions'
                 /\ e.status = transactions'[e.txid].status
                 /\ sh \in TxScripthashes(e.txid)'
        <3>1. CASE sh \in es /\ e = h
            BY <3>1, <1>2, <1>3, <1>4 DEF HistoryEntry
        <3>2. CASE ~(sh \in es /\ e = h)
            <4>1. sh \in DOMAIN scripthashes /\ e \in scripthashes[sh]
                BY <3>2, <2>2, <1>2
            <4>2. /\ e.txid \in DOMAIN transactions
                  /\ e.status = transactions[e.txid].status
                  /\ sh \in TxScripthashes(e.txid)
                BY <4>1 DEF StoreInv, IndexConsistent
            <4>3. QED
                BY <4>2, <1>3, <1>4
        <3>3. QED
            BY <3>1, <3>2
    <2>3. QED
        BY <2>1, <2>2 DEF IndexConsistent
<1>7. MempoolConsistent'
    BY <1>2, <1>3 DEF StoreInv, MempoolConsistent
<1>8. SpendEdgesSound'
    <2>1. CASE ~TrackSpends
        BY <2>1, <1>2 DEF StoreInv, SpendEdgesSound, NoEdgesUntracked
    <2>2. CASE TrackSpends
        <3> DEFINE spent == {Prevout[<<t, w>>] : w \in vs}
        <3>1. txoSpends' = IndexTxoSpends(t, vs)
            BY <2>2, <1>2
        <3>2. SUFFICES ASSUME NEW o \in DOMAIN txoSpends'
                       PROVE  LET u == txoSpends'[o][1]  v == txoSpends'[o][2] IN
                              /\ u \in DOMAIN transactions'
                              /\ v \in transactions'[u].spending
                              /\ Prevout[<<u, v>>] = o
            BY DEF SpendEdgesSound
        <3>3. CASE o \in spent
            <4> DEFINE w == CHOOSE w \in vs : Prevout[<<t, w>>] = o
            <4>1. w \in vs /\ Prevout[<<t, w>>] = o
                BY <3>3
            <4>2. txoSpends'[o] = <<t, w>>
                BY <3>1, <3>3 DEF IndexTxoSpends
            <4>3. QED
                BY <4>1, <4>2, <1>2, <1>3
        <3>4. CASE o \notin spent
            <4>1. o \in DOMAIN txoSpends /\ txoSpends'[o] = txoSpends[o]
                BY <3>1, <3>2, <3>4 DEF IndexTxoSpends
            <4>2. LET u == txoSpends[o][1]  v == txoSpends[o][2] IN
                  /\ u \in DOMAIN transactions
                  /\ v \in transactions[u].spending
                  /\ Prevout[<<u, v>>] = o
                BY <4>1 DEF StoreInv, SpendEdgesSound
            <4>3. QED
                BY <4>1, <4>2, <1>3
        <3>5. QED
            BY <3>3, <3>4
    <2>3. QED
        BY <2>1, <2>2
<1>9. NoEdgesUntracked'
    BY <1>2 DEF StoreInv, NoEdgesUntracked
<1>10. QED
    BY <1>1, <1>6, <1>7, <1>8, <1>9 DEF StoreInv

(* purge_tx removes the entry, its mempool slot, its history entry from
   every scripthash it references (dropping emptied ScriptEntries) and the
   spend edges that still point at it. *)
LEMMA InvPurge ==
    ASSUME StoreInv, NEW t \in Txids, PurgeTx(t)
    PROVE  StoreInv'
<1> DEFINE old == transactions[t]
           oldHist == HistoryEntry(t, old.status)
           shs == EntryScripthashes(t, old)
           rest(sh) == scripthashes[sh] \ {oldHist}
           emptied == {sh \in shs \cap DOMAIN scripthashes : rest(sh) = {}}
           spent == {Prevout[<<t, v>>] : v \in old.spending}
           unlinked == {o \in spent \cap DOMAIN txoSpends : txoSpends[o][1] = t}
<1>1. TypeOK'
    BY TypeOKNext DEF StoreInv, Next
<1>2. /\ t \in DOMAIN transactions
      /\ transactions' = Restrict(transactions, DOMAIN transactions \ {t})
      /\ mempool' = IF IsUnconfirmed(old.status) THEN mempool \ {t} ELSE mempool
      /\ scripthashes' = [sh \in DOMAIN scripthashes \ emptied |->
                            IF sh \in shs THEN rest(sh) ELSE scripthashes[sh]]
      /\ txoSpends' = IF TrackSpends
                      THEN Restrict(txoSpends, DOMAIN txoSpends \ unlinked)
                      ELSE txoSpends
    BY DEF PurgeTx
<1>3. /\ DOMAIN transactions' = DOMAIN transactions \ {t}
      /\ \A x \in DOMAIN transactions' : transactions'[x] = transactions[x]
    BY <1>2, RestrictDef
<1>4. \A x \in DOMAIN transactions' : TxScripthashes(x)' = TxScripthashes(x)
    BY <1>3 DEF TxScripthashes
<1>5. shs = TxScripthashes(t)
    BY DEF TxScripthashes
<1>6. IndexConsistent'
    <2>1. ASSUME NEW x \in DOMAIN transactions', NEW sh \in TxScripthashes(x)'
          PROVE  /\ sh \in DOMAIN scripthashes'
                 /\ HistoryEntry(x, transactions'[x].status) \in scripthashes'[sh]
        <3> DEFINE hx == HistoryEntry(x, transactions[x].status)
        <3>1. x \in DOMAIN transactions /\ x # t /\ sh \in TxScripthashes(x)
            BY <2>1, <1>3, <1>4
        <3>2. sh \in DOMAIN scripthashes /\ hx \in scripthashes[sh]
            BY <3>1 DEF StoreInv, IndexConsistent
        <3>3. hx # oldHist
            BY <3>1 DEF HistoryEntry
        <3>4. sh \notin emptied
            BY <3>2, <3>3
        <3>5. QED
            BY <3>1, <3>2, <3>3, <3>4, <1>2, <1>3
    <2>2. ASSUME NEW sh \in DOMAIN scripthashes', NEW e \in scripthashes'[sh]
          PROVE  /\ e.txid \in DOMAIN transactions'
                 /\ e.status = transactions'[e.txid].status
                 /\ sh \in TxScripthashes(e.txid)'
        <3>1. sh \in DOMAIN scripthashes /\ e \in scripthashes[sh]
              /\ (sh \in shs => e # oldHist)
            BY <2>2, <1>2
        <3>2. /\ e.txid \in DOMAIN transactions
              /\ e.status = transactions[e.txid].status
              /\ sh \in TxScripthashes(e.txid)
            BY <3>1 DEF StoreInv, IndexConsistent
        <3>3. e \in HistoryEntries
            BY <3>1 DEF StoreInv, TypeOK
        <3>4. e.txid # t
            BY <3>1, <3>2, <3>3, <1>5, HistoryEntryEta
        <3>5. QED
            BY <3>2, <3>4, <1>3, <1>4
    <2>3. QED
        BY <2>1, <2>2 DEF IndexConsistent
<1>7. MempoolConsistent'
    <2> SUFFICES ASSUME NEW x \in Txids
                 PROVE  x \in mempool' <=> (x \in DOMAIN transactions'
                                            /\ IsUnconfirmed(transactions'[x].status))
        BY DEF MempoolConsistent
    <2>1. CASE x = t
        <3>1. t \in mempool => IsUnconfirmed(old.status)
            BY DEF StoreInv, MempoolConsistent
        <3>2. QED
            BY <3>1, <2>1, <1>2, <1>3
    <2>2. CASE x # t
        BY <2>2, <1>2, <1>3 DEF StoreInv, MempoolConsistent
    <2>3. QED
        BY <2>1, <2>2
<1>8. SpendEdgesSound'
    <2>1. CASE ~TrackSpends
        BY <2>1, <1>2 DEF StoreInv, SpendEdgesSound, NoEdgesUntracked
    <2>2. CASE TrackSpends
        <3>1. /\ DOMAIN txoSpends' = DOMAIN txoSpends \ unlinked
              /\ \A o \in DOMAIN txoSpends' : txoSpends'[o] = txoSpends[o]
            BY <2>2, <1>2, RestrictDef
        <3>2. SUFFICES ASSUME NEW o \in DOMAIN txoSpends'
                       PROVE  LET u == txoSpends'[o][1]  v == txoSpends'[o][2] IN
                              /\ u \in DOMAIN transactions'
                              /\ v \in transactions'[u].spending
                              /\ Prevout[<<u, v>>] = o
            BY DEF SpendEdgesSound
        <3> DEFINE u == txoSpends[o][1]
                   v == txoSpends[o][2]
        <3>3. /\ o \in DOMAIN txoSpends
              /\ o \notin unlinked
              /\ txoSpends'[o] = txoSpends[o]
            BY <3>1
        <3>4. /\ u \in DOMAIN transactions
              /\ v \in transactions[u].spending
              /\ Prevout[<<u, v>>] = o
            BY <3>3 DEF StoreInv, SpendEdgesSound
        <3>5. u # t
            BY <3>3, <3>4
        <3>6. QED
            BY <3>3, <3>4, <3>5, <1>3
    <2>3. QED
        BY <2>1, <2>2
<1>9. NoEdgesUntracked'
    BY <1>2 DEF StoreInv, NoEdgesUntracked
<1>10. QED
    BY <1>1, <1>6, <1>7, <1>8, <1>9 DEF StoreInv

LEMMA InvNext ==
    ASSUME StoreInv, FullerViewOnly, [Next]_vars
    PROVE  StoreInv'
<1>1. CASE \E sh \in ScriptHashes : IndexScripthash(sh)
    BY <1>1, InvIndexScripthash
<1>2. CASE \E t \in Txids, s \in Statuses : UpsertTx(t, s)
    BY <1>2, InvUpsertNew, InvUpsertChange
<1>3. CASE \E t \in Txids, v \in Vouts : IndexTxOutputFunding(t, v)
    BY <1>3, InvIndexFunding
<1>4. CASE \E t \in Txids, vs \in SUBSET Vins, ow \in BOOLEAN : IndexTxInputsSpending(t, vs, ow)
    BY <1>4, InvIndexSpending
<1>5. CASE \E t \in Txids : PurgeTx(t)
    BY <1>5, InvPurge
<1>6. CASE UNCHANGED vars
    <2>1. UNCHANGED <<scripthashes, transactions, mempool, txoSpends>>
        BY <1>6 DEF vars
    <2>2. TypeOK'
        BY TypeOKNext DEF StoreInv
    <2>3. IndexConsistent'
        BY <2>1 DEF StoreInv, IndexConsistent, TxScripthashes
    <2>4. MempoolConsistent'
        BY <2>1 DEF StoreInv, MempoolConsistent
    <2>5. SpendEdgesSound'
        BY <2>1 DEF StoreInv, SpendEdgesSound
    <2>6. NoEdgesUntracked'
        BY <2>1 DEF StoreInv, NoEdgesUntracked
    <2>7. QED
        BY <2>2, <2>3, <2>4, <2>5, <2>6 DEF StoreInv
<1>7. QED
    BY <1>1, <1>2, <1>3, <1>4, <1>5, <1>6 DEF Next

(***************************************************************************)
(* Under the caller contract that an overwrite of a spending map only adds *)
(* inputs, every state the store's mutators reach satisfies StoreInv: the  *)
(* history sets, the funding/spending maps, the mempool map and the spend  *)
(* edges of store.rs never desync, whatever the wallet's transaction graph.*)
(***************************************************************************)
THEOREM StoreConsistent ==
    ASSUME FullerViewOnly
    PROVE  Spec => []StoreInv
<1>1. Init => StoreInv
    BY InvInit
<1>2. StoreInv /\ [Next]_vars => StoreInv'
    BY InvNext
<1>3. QED
    BY <1>1, <1>2, PTL DEF Spec

(* The forward and reverse indexes of store.rs agree in every reachable
   state, so the desync assertions of update_tx_status and purge_tx never
   fire. *)
COROLLARY IndexConsistentHolds ==
    ASSUME FullerViewOnly
    PROVE  Spec => []IndexConsistent
<1>1. StoreInv => IndexConsistent
    BY DEF StoreInv
<1>2. QED
    BY <1>1, StoreConsistent, PTL

(* The mempool map holds exactly the stored unconfirmed transactions in
   every reachable state, so the mempool asserts of upsert_tx,
   update_tx_status and purge_tx never fire. *)
COROLLARY MempoolConsistentHolds ==
    ASSUME FullerViewOnly
    PROVE  Spec => []MempoolConsistent
<1>1. StoreInv => MempoolConsistent
    BY DEF StoreInv
<1>2. QED
    BY <1>1, StoreConsistent, PTL

(* Every spend edge of txo_spends names a stored transaction whose spending
   map spends that outpoint, in every reachable state. *)
COROLLARY SpendEdgesSoundHolds ==
    ASSUME FullerViewOnly
    PROVE  Spec => []SpendEdgesSound
<1>1. StoreInv => SpendEdgesSound
    BY DEF StoreInv
<1>2. QED
    BY <1>1, StoreConsistent, PTL


-----------------------------------------------------------------------------
(***************************************************************************)
(* The spend-edge assertion of purge_tx.  For every owned input of the   *)
(* purged transaction, purge_tx asserts that txo_spends holds an edge for  *)
(* the prevout.  The edge is written by index_txo_spend for every input of *)
(* a new spending map and removed only by a purge of the transaction it  *)
(* points at.  So an input of a stored transaction loses its edge only    *)
(* when another input that spends the same outpoint owned the edge and    *)
(* its transaction was purged: an RBF double spend, where the assertion   *)
(* does fire (MCMemoryStoreDoubleSpend).  MissingSpendEdgeHasRival states *)
(* that, for every prevout graph, double spends included.                 *)
(***************************************************************************)

\* Every spending map holds only owned inputs (the callers build it from
\* lookup_txo_fund); the purge step needs it to name the rival input.
SpendingOwned ==
    \A t \in DOMAIN transactions : transactions[t].spending \subseteq OwnedVins(t)

LEMMA OwnedInit == Init => MissingSpendEdgeHasRival /\ SpendingOwned
BY DEF Init, MissingSpendEdgeHasRival, SpendingOwned

\* Steps that write no edge and add no input to any spending map.
LEMMA RivalFrame ==
    ASSUME MissingSpendEdgeHasRival, SpendingOwned, UNCHANGED txoSpends,
           \A x \in DOMAIN transactions' :
              \/ x \in DOMAIN transactions /\ transactions'[x].spending = transactions[x].spending
              \/ transactions'[x].spending = {}
    PROVE  MissingSpendEdgeHasRival' /\ SpendingOwned'
<1>1. \A j : Owned(j)' => Owned(j)
    BY DEF Owned
<1>2. MissingSpendEdgeHasRival'
    BY <1>1 DEF MissingSpendEdgeHasRival
<1>3. SpendingOwned'
    BY DEF SpendingOwned, OwnedVins
<1>. QED  BY <1>2, <1>3

\* upsert_tx stores an empty spending map or keeps the old one.
LEMMA RivalUpsert ==
    ASSUME MissingSpendEdgeHasRival, SpendingOwned,
           NEW t \in Txids, NEW s \in Statuses, UpsertTx(t, s)
    PROVE  MissingSpendEdgeHasRival' /\ SpendingOwned'
<1>1. UNCHANGED txoSpends
    BY DEF UpsertTx
<1>2. CASE t \notin DOMAIN transactions
    <2>1. transactions' = MapPut(transactions, t, NewTxEntry(s))
        BY <1>2 DEF UpsertTx
    <2>2. \A x \in DOMAIN transactions' :
             \/ x \in DOMAIN transactions /\ transactions'[x] = transactions[x]
             \/ transactions'[x].spending = {}
        BY <1>2, <2>1 DEF MapPut, NewTxEntry
    <2>. QED  BY <1>1, <2>2, RivalFrame
<1>3. CASE t \in DOMAIN transactions
    <2>1. transactions' = [transactions EXCEPT ![t] = WithStatus(@, s)]
        BY <1>3 DEF UpsertTx
    <2>2. \A x \in DOMAIN transactions' :
             x \in DOMAIN transactions /\ transactions'[x].spending = transactions[x].spending
        BY <2>1 DEF WithStatus
    <2>. QED  BY <1>1, <2>2, RivalFrame
<1>. QED  BY <1>2, <1>3

\* index_tx_output_funding changes a funding map only.
LEMMA RivalFunding ==
    ASSUME MissingSpendEdgeHasRival, SpendingOwned,
           NEW t \in Txids, NEW v \in Vouts, IndexTxOutputFunding(t, v)
    PROVE  MissingSpendEdgeHasRival' /\ SpendingOwned'
<1>1. /\ transactions' = [transactions EXCEPT ![t] = WithFunding(@, @.funding \cup {v})]
      /\ UNCHANGED txoSpends
    BY DEF IndexTxOutputFunding
<1>2. \A x \in DOMAIN transactions' :
         x \in DOMAIN transactions /\ transactions'[x].spending = transactions[x].spending
    BY <1>1 DEF WithFunding
<1>. QED  BY <1>1, <1>2, RivalFrame

(* index_tx_inputs_spending writes an edge at the prevout of every input of
   the new map: the inputs it adds have edges, and an input it drops was
   not a rival of any missing edge, since its prevout had no edge. *)
LEMMA RivalSpending ==
    ASSUME MissingSpendEdgeHasRival, SpendingOwned,
           NEW t \in Txids, NEW vs \in SUBSET Vins, NEW ow \in BOOLEAN,
           IndexTxInputsSpending(t, vs, ow)
    PROVE  MissingSpendEdgeHasRival' /\ SpendingOwned'
<1> DEFINE spent == {Prevout[<<t, w>>] : w \in vs}
<1>1. /\ t \in DOMAIN transactions
      /\ vs \subseteq OwnedVins(t)
      /\ transactions' = [transactions EXCEPT ![t] = WithSpending(transactions[t], vs)]
      /\ txoSpends' = IF TrackSpends THEN IndexTxoSpends(t, vs) ELSE txoSpends
    BY DEF IndexTxInputsSpending
<1>2. /\ DOMAIN transactions' = DOMAIN transactions
      /\ transactions'[t].spending = vs
      /\ \A x \in DOMAIN transactions \ {t} : transactions'[x] = transactions[x]
    BY <1>1 DEF WithSpending
<1>3. SpendingOwned'
    BY <1>1, <1>2 DEF SpendingOwned
<1>4. MissingSpendEdgeHasRival'
    <2>1. SUFFICES ASSUME TrackSpends,
                          NEW x \in DOMAIN transactions', NEW v \in transactions'[x].spending,
                          Prevout[<<x, v>>] \notin DOMAIN txoSpends'
                   PROVE  \E j \in DOMAIN Prevout :
                             /\ j # <<x, v>>
                             /\ Prevout[j] = Prevout[<<x, v>>]
                             /\ ~Owned(j)'
        BY DEF MissingSpendEdgeHasRival
    <2>2. DOMAIN txoSpends \cup spent \subseteq DOMAIN txoSpends'
        BY <1>1, <2>1 DEF IndexTxoSpends
    <2>3. x # t
        BY <1>2, <2>1, <2>2
    <2>4. /\ x \in DOMAIN transactions
          /\ v \in transactions[x].spending
          /\ Prevout[<<x, v>>] \notin DOMAIN txoSpends
        BY <1>2, <2>1, <2>2, <2>3
    <2>5. PICK j \in DOMAIN Prevout :
             /\ j # <<x, v>>
             /\ Prevout[j] = Prevout[<<x, v>>]
             /\ ~Owned(j)
        BY <2>1, <2>4 DEF MissingSpendEdgeHasRival
    <2>6. j = <<j[1], j[2]>> /\ j[1] \in Txids /\ j[2] \in Vins
        BY DEF InPoints
    <2>7. CASE j[1] = t
        <3>1. j[2] \notin vs
            <4> SUFFICES ASSUME j[2] \in vs PROVE FALSE
                OBVIOUS
            <4>1. Prevout[<<t, j[2]>>] \in spent
                OBVIOUS
            <4>2. Prevout[<<t, j[2]>>] = Prevout[<<x, v>>]
                BY <2>5, <2>6, <2>7
            <4>. QED  BY <4>1, <4>2, <2>1, <2>2
        <3>. QED  BY <3>1, <1>2, <2>5, <2>7 DEF Owned
    <2>8. CASE j[1] # t
        BY <1>2, <2>5, <2>8 DEF Owned
    <2>. QED  BY <2>7, <2>8
<1>. QED  BY <1>3, <1>4

(* purge_tx removes only edges that point at the purged transaction and lie
   at a prevout of one of its inputs; such an input is the rival of every
   stored input of the same outpoint that loses its edge. *)
LEMMA RivalPurge ==
    ASSUME MissingSpendEdgeHasRival, SpendingOwned, NEW t \in Txids, PurgeTx(t)
    PROVE  MissingSpendEdgeHasRival' /\ SpendingOwned'
<1> DEFINE old == transactions[t]
           spent == {Prevout[<<t, w>>] : w \in old.spending}
           unlinked == {o \in spent \cap DOMAIN txoSpends : txoSpends[o][1] = t}
<1>1. /\ t \in DOMAIN transactions
      /\ transactions' = Restrict(transactions, DOMAIN transactions \ {t})
      /\ txoSpends' = IF TrackSpends
                      THEN Restrict(txoSpends, DOMAIN txoSpends \ unlinked)
                      ELSE txoSpends
    BY DEF PurgeTx
<1>2. /\ DOMAIN transactions' = DOMAIN transactions \ {t}
      /\ \A x \in DOMAIN transactions' : transactions'[x] = transactions[x]
    BY <1>1, RestrictDef
<1>3. SpendingOwned'
    BY <1>2 DEF SpendingOwned, OwnedVins
<1>4. \A j : Owned(j)' => Owned(j)
    BY <1>2 DEF Owned
<1>5. MissingSpendEdgeHasRival'
    <2>1. SUFFICES ASSUME TrackSpends,
                          NEW x \in DOMAIN transactions', NEW v \in transactions'[x].spending,
                          Prevout[<<x, v>>] \notin DOMAIN txoSpends'
                   PROVE  \E j \in DOMAIN Prevout :
                             /\ j # <<x, v>>
                             /\ Prevout[j] = Prevout[<<x, v>>]
                             /\ ~Owned(j)'
        BY DEF MissingSpendEdgeHasRival
    <2>2. DOMAIN txoSpends' = DOMAIN txoSpends \ unlinked
        BY <1>1, <2>1, RestrictDef
    <2>3. x \in DOMAIN transactions /\ x # t /\ v \in transactions[x].spending
        BY <1>2, <2>1
    <2>4. CASE Prevout[<<x, v>>] \notin DOMAIN txoSpends
        <3>1. PICK j \in DOMAIN Prevout :
                 /\ j # <<x, v>>
                 /\ Prevout[j] = Prevout[<<x, v>>]
                 /\ ~Owned(j)
            BY <2>1, <2>3, <2>4 DEF MissingSpendEdgeHasRival
        <3>. QED  BY <3>1, <1>4
    <2>5. CASE Prevout[<<x, v>>] \in DOMAIN txoSpends
        <3>1. Prevout[<<x, v>>] \in spent
            BY <2>1, <2>2, <2>5
        <3>2. PICK w \in old.spending : Prevout[<<t, w>>] = Prevout[<<x, v>>]
            BY <3>1
        <3>3. <<t, w>> \in DOMAIN Prevout
            BY <1>1, <3>2 DEF SpendingOwned, OwnedVins
        <3>4. ~Owned(<<t, w>>)'
            BY <1>2 DEF Owned
        <3>5. <<t, w>> # <<x, v>>
            BY <2>3
        <3>. QED  BY <3>2, <3>3, <3>4, <3>5
    <2>. QED  BY <2>4, <2>5
<1>. QED  BY <1>3, <1>5

LEMMA RivalNext ==
    ASSUME MissingSpendEdgeHasRival, SpendingOwned, [Next]_vars
    PROVE  MissingSpendEdgeHasRival' /\ SpendingOwned'
<1>1. CASE \E sh \in ScriptHashes : IndexScripthash(sh)
    BY <1>1, RivalFrame DEF IndexScripthash
<1>2. CASE \E t \in Txids, s \in Statuses : UpsertTx(t, s)
    BY <1>2, RivalUpsert
<1>3. CASE \E t \in Txids, v \in Vouts : IndexTxOutputFunding(t, v)
    BY <1>3, RivalFunding
<1>4. CASE \E t \in Txids, vs \in SUBSET Vins, ow \in BOOLEAN : IndexTxInputsSpending(t, vs, ow)
    BY <1>4, RivalSpending
<1>5. CASE \E t \in Txids : PurgeTx(t)
    BY <1>5, RivalPurge
<1>6. CASE UNCHANGED vars
    BY <1>6, RivalFrame DEF vars
<1>. QED  BY <1>1, <1>2, <1>3, <1>4, <1>5, <1>6 DEF Next

(***************************************************************************)
(* For every prevout graph, RBF double spends included, and with or       *)
(* without the fuller-view overwrite contract: in every reachable state,  *)
(* an input of a stored transaction whose prevout has no spend edge (the  *)
(* input for which purge_tx's assert!(had_entry) would fire) has a rival:  *)
(* another input of the wallet spends the same outpoint and is no longer  *)
(* held by a stored spending map.  So the assertion fires only after a    *)
(* double spend's edge owner was purged.                                   *)
(***************************************************************************)
THEOREM MissingSpendEdgeHasRivalHolds == Spec => []MissingSpendEdgeHasRival
<1>1. Init => MissingSpendEdgeHasRival /\ SpendingOwned
    BY OwnedInit
<1>2. MissingSpendEdgeHasRival /\ SpendingOwned /\ [Next]_vars
        => MissingSpendEdgeHasRival' /\ SpendingOwned'
    BY RivalNext
<1>. QED  BY <1>1, <1>2, PTL DEF Spec
=============================================================================
