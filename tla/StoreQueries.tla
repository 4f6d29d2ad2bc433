---------------------------- MODULE StoreQueries ----------------------------
(***************************************************************************)
(* The read side of MemoryStore that depends on the order of history      *)
(* entries: get_history_since (store.rs) walks each BTreeSet history from *)
(* its greatest entry down while the entry is recent enough, then sorts   *)
(* and dedups the union.  The order is impl Ord for HistoryEntry (status, *)
(* then txid) over the TxStatus order of types.rs.  types.rs is not part  *)
(* of src/: its order is taken from spec section 8 (iteration yields      *)
(* Confirmed(5), Confirmed(10), Unconfirmed) and from the doc comment of  *)
(* get_history_since ("ordered with oldest first").  Txids are hashes     *)
(* compared bytewise: TxidRank is that order on the model's txids.  Only  *)
(* TLC reads this module.                                                 *)
(***************************************************************************)
EXTENDS MemoryStore, SequencesExt

CONSTANT TxidRank   \* the byte order of txids: an injective [Txids -> Nat]

(* impl Ord for TxStatus (types.rs): confirmed statuses by ascending
   height, then Unconfirmed; Conflicted, which is never stored, first. *)
StoreStatusKey(s) == CASE IsConfirmed(s)   -> s.height
                       [] IsUnconfirmed(s) -> HeightMod
                       [] OTHER            -> -1

StoreStatusCmp(a, b) == IntCmp(StoreStatusKey(a), StoreStatusKey(b))

(* impl Ord for HistoryEntry: by status, then by txid. *)
HistoryCmp(a, b) ==
    IF StoreStatusCmp(a.status, b.status) # 0 THEN StoreStatusCmp(a.status, b.status)
    ELSE IntCmp(TxidRank[a.txid], TxidRank[b.txid])

HistoryLess(a, b) == HistoryCmp(a, b) < 0

\* The elements of a BTreeSet in iteration (ascending) order.
Ascending(set) == SetToSortSeq(set, HistoryLess)

\* The take_while predicate: confirmed at or above the floor, or unconfirmed
\* (Conflicted is unreachable!(): it is never stored).
RecentEnough(e, minHeight) ==
    IF IsConfirmed(e.status) THEN e.status.height >= minHeight ELSE TRUE

\* Iterator::take_while(RecentEnough): the longest prefix of recent entries.
TakeWhileRecent(s, minHeight) ==
    LET stop == SelectInSeq(s, LAMBDA x : ~RecentEnough(x, minHeight))
    IN IF stop = 0 THEN s ELSE SubSeq(s, 1, stop - 1)

\* Mutant of GetHistorySince: the history is walked from its least entry
\* (the .rev() is missing).
GetHistorySinceNoRev(minHeight) ==
    LET perScript(sh) == TakeWhileRecent(Ascending(scripthashes[sh]), minHeight)
    IN Ascending(UNION {ToSet(perScript(sh)) : sh \in DOMAIN scripthashes})

(* get_history_since(min_block_height) *)
GetHistorySince(minHeight) ==
    LET perScript(sh) ==
            TakeWhileRecent(Reverse(Ascending(scripthashes[sh])), minHeight)
    IN Ascending(UNION {ToSet(perScript(sh)) : sh \in DOMAIN scripthashes})

(***************************************************************************)
(* get_history_since returns every history entry of every scripthash that *)
(* is unconfirmed or confirmed at or above the floor (its doc comment:    *)
(* "all history entries ... since min_block_height (including             *)
(* unconfirmed transactions)"), for every floor.                          *)
(***************************************************************************)
HistorySinceComplete ==
    \A m \in Heights :
        ToSet(GetHistorySince(m)) =
            {e \in UNION Range(scripthashes) :
                IsUnconfirmed(e.status) \/ e.status.height >= m}

=============================================================================
