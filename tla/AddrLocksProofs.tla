--------------------------- MODULE AddrLocksProofs ---------------------------
(***************************************************************************)
(* Proof that list_unspent's tip check makes the heights of the utxos it   *)
(* returns use the tip listunspent answered at (UnspentFromListTip), for   *)
(* every number of query threads, calls, update() rounds and blocks, and   *)
(* under both RwLock priority policies.                                   *)
(*                                                                         *)
(* The property is not inductive: it speaks of "ret" only, and the step    *)
(* into "ret" is guarded by a hash comparison.  What makes the comparison  *)
(* enough is that block hashes are fresh: a hash that stopped being the    *)
(* best one never becomes it again, so a thread whose tip_hash is still   *)
(* the best hash read every RPC of its attempt at the same tip.           *)
(***************************************************************************)
EXTENDS AddrLocks, TLAPS

USE LocksAssumption

QPcs == {"read", "addr", "hash", "list", "best", "ret", "idle"}

\* The types the proof needs.
LocksTypes ==
    /\ blocks \in Nat
    /\ chain \in Seq(0 .. blocks) /\ Len(chain) \in 1 .. blocks + 1
    /\ qpc \in [Queriers -> QPcs]
    /\ qTipHeight \in [Queriers -> Nat]
    /\ qTipHash \in [Queriers -> 0 .. blocks]
    /\ qListTip \in [Queriers -> Nat]

\* The best block is the newest hash; every other block is older.
ChainFresh ==
    /\ BestHash = blocks
    /\ \A i \in 1 .. Len(chain) - 1 : chain[i] < blocks

\* What thread q read of the tip, and what it may trust of it.
QueryTipTracked(q) ==
    /\ qpc[q] \in {"hash", "list", "best"} => qTipHeight[q] <= NodeTip
    /\ qpc[q] \in {"list", "best"} =>
          (qTipHash[q] = BestHash => qTipHeight[q] = NodeTip)
    /\ qpc[q] = "best" => (qTipHash[q] = BestHash => qListTip[q] = NodeTip)
    /\ qpc[q] = "ret" => qTipHeight[q] = qListTip[q]

LocksIInv == LocksTypes /\ ChainFresh /\ \A q \in Queriers : QueryTipTracked(q)

-----------------------------------------------------------------------------
(* The initial state. *)
LEMMA LocksInit == Init => LocksIInv
BY DEF Init, LocksIInv, LocksTypes, QPcs, ChainFresh, QueryTipTracked,
       NodeTip, BestHash

(* A step that leaves the node and thread r's variables alone keeps what r
   may trust of the tip. *)
LEMMA OtherThreadKept ==
    ASSUME NEW r \in Queriers, UNCHANGED nodeVars,
           qpc'[r] = qpc[r], qTipHeight'[r] = qTipHeight[r],
           qTipHash'[r] = qTipHash[r], qListTip'[r] = qListTip[r]
    PROVE  QueryTipTracked(r)' = QueryTipTracked(r)
BY DEF QueryTipTracked, NodeTip, BestHash, nodeVars

(* A block or a reorg puts a fresh hash at the tip, which no thread read:
   every trust a thread had in its tip_hash becomes vacuous. *)
LEMMA LocksNodeStep ==
    ASSUME LocksIInv, MineBlock \/ Reorg PROVE LocksIInv'
<1>1. /\ blocks' = blocks + 1 /\ BestHash' = blocks + 1
      /\ Len(chain') >= Len(chain)
      /\ UNCHANGED <<qpc, qTipHeight, qTipHash, qListTip>>
  BY DEF MineBlock, Reorg, LocksIInv, LocksTypes, BestHash, queryVars
<1>2. /\ chain' \in Seq(0 .. blocks') /\ Len(chain') \in 1 .. blocks' + 1
      /\ BestHash' = blocks'
      /\ \A i \in 1 .. Len(chain') - 1 : chain'[i] < blocks'
  <2>1. chain \in Seq(0 .. blocks) /\ Len(chain) \in 1 .. blocks + 1 /\ blocks \in Nat
    BY DEF LocksIInv, LocksTypes
  <2>2. CASE MineBlock
    <3>1. chain' = Append(chain, blocks + 1) /\ blocks' = blocks + 1
      BY <2>2 DEF MineBlock
    <3>2. \A i \in 1 .. Len(chain) : chain[i] \in 0 .. blocks
      BY <2>1
    <3>. QED
      BY <2>1, <3>1, <3>2 DEF BestHash
  <2>3. CASE Reorg
    <3>1. /\ Len(chain) > 1
          /\ chain' = [chain EXCEPT ![Len(chain)] = blocks + 1] /\ blocks' = blocks + 1
      BY <2>3 DEF Reorg
    <3>2. \A i \in 1 .. Len(chain) : chain[i] \in 0 .. blocks
      BY <2>1
    <3>. QED
      BY <2>1, <3>1, <3>2 DEF BestHash
  <2>. QED
    BY <2>2, <2>3
<1>3. LocksTypes' /\ ChainFresh'
  BY <1>1, <1>2 DEF LocksIInv, LocksTypes, ChainFresh
<1>4. ASSUME NEW q \in Queriers PROVE QueryTipTracked(q)'
  <2>1. qTipHash[q] # BestHash' /\ qTipHeight[q] \in Int
    BY <1>1 DEF LocksIInv, LocksTypes
  <2>2. NodeTip' >= NodeTip /\ NodeTip \in Int /\ NodeTip' \in Int
    BY <1>1 DEF LocksIInv, LocksTypes, NodeTip
  <2>3. QueryTipTracked(q)
    BY DEF LocksIInv
  <2>4. /\ qpc'[q] = qpc[q] /\ qTipHeight'[q] = qTipHeight[q]
        /\ qTipHash'[q] = qTipHash[q] /\ qListTip'[q] = qListTip[q]
    BY <1>1
  <2>. QED
    BY <2>1, <2>2, <2>3, <2>4 DEF QueryTipTracked
<1>. QED
  BY <1>3, <1>4 DEF LocksIInv

(* update() moves the locks and its own program counter only. *)
LEMMA LocksSyncStep ==
    ASSUME LocksIInv, SyncStep \/ AllIdle PROVE LocksIInv'
<1>1. UNCHANGED <<nodeVars, queryVars>>
  BY DEF SyncStep, AllIdle, LockIndexWrite, LockWatcherWrite, LoadTransactions,
         DoImports, vars
<1>2. LocksTypes' /\ ChainFresh'
  BY <1>1 DEF LocksIInv, LocksTypes, ChainFresh, BestHash, nodeVars, queryVars
<1>3. \A q \in Queriers : QueryTipTracked(q)' = QueryTipTracked(q)
  BY <1>1, OtherThreadKept DEF queryVars
<1>. QED
  BY <1>2, <1>3 DEF LocksIInv

(* A step of thread q that leaves the node alone keeps the invariant when it
   keeps the types, leaves the other threads alone and keeps q's own part. *)
LEMMA QueryFrame ==
    ASSUME LocksIInv, NEW q \in Queriers, UNCHANGED nodeVars, LocksTypes',
           \A r \in Queriers \ {q} :
              /\ qpc'[r] = qpc[r] /\ qTipHeight'[r] = qTipHeight[r]
              /\ qTipHash'[r] = qTipHash[r] /\ qListTip'[r] = qListTip[r],
           QueryTipTracked(q)'
    PROVE  LocksIInv'
<1>1. ChainFresh'
  BY DEF LocksIInv, ChainFresh, BestHash, nodeVars
<1>2. \A r \in Queriers \ {q} : QueryTipTracked(r)'
  BY OtherThreadKept DEF LocksIInv
<1>. QED
  BY <1>1, <1>2 DEF LocksIInv

(* The steps of list_unspent that do not read the tip (taking the read
   guard, an unknown scripthash, a retry, a return) owe q's part nothing or
   only what "ret" needs. *)
LEMMA QueryPlainSteps ==
    ASSUME LocksIInv, NEW q \in Queriers,
           LockIndexRead(q) \/ UnknownScripthash(q) \/ RetryOnTipChange(q)
             \/ Returned(q)
    PROVE  LocksIInv'
<1>1. /\ UNCHANGED <<nodeVars, qTipHeight, qTipHash, qListTip>>
      /\ \E v \in {"addr", "read", "idle"} : qpc' = [qpc EXCEPT ![q] = v]
  <2>1. CASE LockIndexRead(q)
    BY <2>1 DEF LockIndexRead, Set
  <2>2. CASE UnknownScripthash(q)
    BY <2>2 DEF UnknownScripthash, Unwind, Set
  <2>3. CASE RetryOnTipChange(q)
    BY <2>3 DEF RetryOnTipChange, Set
  <2>4. CASE Returned(q)
    BY <2>4 DEF Returned, Unwind, Set
  <2>. QED
    BY <2>1, <2>2, <2>3, <2>4
<1>2. PICK v \in {"addr", "read", "idle"} : qpc' = [qpc EXCEPT ![q] = v]
  BY <1>1
<1>3. LocksTypes'
  BY <1>1, <1>2 DEF LocksIInv, LocksTypes, QPcs, nodeVars
<1>4. QueryTipTracked(q)'
  BY <1>2 DEF QueryTipTracked, LocksIInv, LocksTypes
<1>5. \A r \in Queriers \ {q} :
         /\ qpc'[r] = qpc[r] /\ qTipHeight'[r] = qTipHeight[r]
         /\ qTipHash'[r] = qTipHash[r] /\ qListTip'[r] = qListTip[r]
  BY <1>1, <1>2 DEF LocksIInv, LocksTypes
<1>. QED
  BY <1>1, <1>3, <1>4, <1>5, QueryFrame

(* get_block_count reads the node's tip height. *)
LEMMA QueryGetBlockCount ==
    ASSUME LocksIInv, NEW q \in Queriers, GetBlockCount(q) PROVE LocksIInv'
<1>1. /\ UNCHANGED <<nodeVars, qTipHash, qListTip>>
      /\ qpc' = [qpc EXCEPT ![q] = "hash"]
      /\ qTipHeight' = [qTipHeight EXCEPT ![q] = NodeTip]
  BY DEF GetBlockCount, Set
<1>2. NodeTip \in Nat
  BY DEF LocksIInv, LocksTypes, NodeTip
<1>3. LocksTypes'
  BY <1>1, <1>2 DEF LocksIInv, LocksTypes, QPcs, nodeVars
<1>4. QueryTipTracked(q)'
  BY <1>1, <1>2 DEF QueryTipTracked, LocksIInv, LocksTypes, NodeTip, nodeVars
<1>. QED
  BY <1>1, <1>3, <1>4, QueryFrame

(* get_block_hash(tip_height) is the best hash only if tip_height is still
   the tip: the hashes below the tip are older. *)
LEMMA QueryGetBlockHash ==
    ASSUME LocksIInv, NEW q \in Queriers, GetBlockHash(q) PROVE LocksIInv'
<1>1. /\ UNCHANGED <<nodeVars, qTipHeight, qListTip>> /\ qpc[q] = "hash"
      /\ qpc' = [qpc EXCEPT ![q] = "list"]
      /\ qTipHash' = [qTipHash EXCEPT ![q] = chain[qTipHeight[q] + 1]]
  BY DEF GetBlockHash, Set
<1>2. qTipHeight[q] + 1 \in 1 .. Len(chain) /\ qTipHeight[q] <= NodeTip
  BY <1>1 DEF LocksIInv, LocksTypes, QueryTipTracked, NodeTip
<1>3. chain[qTipHeight[q] + 1] \in 0 .. blocks
  BY <1>2 DEF LocksIInv, LocksTypes
<1>4. LocksTypes'
  BY <1>1, <1>3 DEF LocksIInv, LocksTypes, QPcs, nodeVars
<1>5. chain[qTipHeight[q] + 1] = BestHash => qTipHeight[q] = NodeTip
  <2>. SUFFICES ASSUME qTipHeight[q] # NodeTip
                PROVE  chain[qTipHeight[q] + 1] # BestHash
    OBVIOUS
  <2>1. qTipHeight[q] + 1 \in 1 .. Len(chain) - 1
    BY <1>2 DEF NodeTip, LocksIInv, LocksTypes
  <2>. QED
    BY <1>3, <2>1 DEF LocksIInv, ChainFresh, LocksTypes
<1>6. QueryTipTracked(q)'
  BY <1>1, <1>2, <1>5 DEF QueryTipTracked, NodeTip, BestHash, nodeVars, LocksIInv, LocksTypes
<1>. QED
  BY <1>1, <1>4, <1>6, QueryFrame

(* listunspent answers at the node's tip. *)
LEMMA QueryListUnspent ==
    ASSUME LocksIInv, NEW q \in Queriers, ListUnspent(q) PROVE LocksIInv'
<1>1. /\ UNCHANGED <<nodeVars, qTipHeight, qTipHash>> /\ qpc[q] = "list"
      /\ qpc' = [qpc EXCEPT ![q] = "best"]
      /\ qListTip' = [qListTip EXCEPT ![q] = NodeTip]
  BY DEF ListUnspent, Set
<1>2. NodeTip \in Nat
  BY DEF LocksIInv, LocksTypes, NodeTip
<1>3. LocksTypes'
  BY <1>1, <1>2 DEF LocksIInv, LocksTypes, QPcs, nodeVars
<1>4. QueryTipTracked(q)'
  BY <1>1, <1>2 DEF QueryTipTracked, LocksIInv, LocksTypes, NodeTip, BestHash, nodeVars
<1>. QED
  BY <1>1, <1>3, <1>4, QueryFrame

(* The tip check passed: both tip_height and the listunspent tip are the
   tip whose hash is still the best. *)
LEMMA QueryReturnUnspent ==
    ASSUME LocksIInv, NEW q \in Queriers, ReturnUnspent(q) PROVE LocksIInv'
<1>1. /\ UNCHANGED <<nodeVars, qTipHeight, qTipHash, qListTip>>
      /\ qpc[q] = "best" /\ qTipHash[q] = BestHash
      /\ qpc' = [qpc EXCEPT ![q] = "ret"]
  BY DEF ReturnUnspent, Set
<1>2. qTipHeight[q] = qListTip[q]
  BY <1>1 DEF LocksIInv, QueryTipTracked
<1>3. LocksTypes'
  BY <1>1 DEF LocksIInv, LocksTypes, QPcs, nodeVars
<1>4. QueryTipTracked(q)'
  BY <1>1, <1>2 DEF QueryTipTracked, LocksIInv, LocksTypes
<1>. QED
  BY <1>1, <1>3, <1>4, QueryFrame

-----------------------------------------------------------------------------
(* Every step of the node, of update() and of the query threads, and every
   stutter, keeps the invariant. *)
LEMMA LocksNext ==
    ASSUME LocksIInv, [Next]_vars PROVE LocksIInv'
<1>1. CASE MineBlock \/ Reorg
  BY <1>1, LocksNodeStep
<1>2. CASE SyncStep \/ AllIdle
  BY <1>2, LocksSyncStep
<1>3. CASE \E q \in Queriers : QueryStep(q)
  <2>1. PICK q \in Queriers : QueryStep(q)
    BY <1>3
  <2>2. CASE LockIndexRead(q) \/ UnknownScripthash(q) \/ RetryOnTipChange(q)
               \/ Returned(q)
    BY <2>2, QueryPlainSteps
  <2>3. CASE GetBlockCount(q)
    BY <2>3, QueryGetBlockCount
  <2>4. CASE GetBlockHash(q)
    BY <2>4, QueryGetBlockHash
  <2>5. CASE ListUnspent(q)
    BY <2>5, QueryListUnspent
  <2>6. CASE ReturnUnspent(q)
    BY <2>6, QueryReturnUnspent
  <2>. QED
    BY <2>1, <2>2, <2>3, <2>4, <2>5, <2>6 DEF QueryStep
<1>4. CASE UNCHANGED vars
  <2>1. UNCHANGED <<nodeVars, queryVars>>
    BY <1>4 DEF vars
  <2>2. LocksTypes' /\ ChainFresh'
    BY <2>1 DEF LocksIInv, LocksTypes, ChainFresh, BestHash, nodeVars, queryVars
  <2>3. \A q \in Queriers : QueryTipTracked(q)' = QueryTipTracked(q)
    BY <2>1, OtherThreadKept DEF queryVars
  <2>. QED
    BY <2>2, <2>3 DEF LocksIInv
<1>. QED
  BY <1>1, <1>2, <1>3, <1>4 DEF Next

(* list_unspent returns utxos whose heights, computed by
   Utxo::from_unspent(_, tip_height), use the tip listunspent answered at,
   whatever blocks and reorgs happen between its RPCs, for every number of
   threads and calls and under both RwLock policies. *)
THEOREM UnspentHeightsCorrect == Spec => []UnspentFromListTip
<1>1. LocksIInv => UnspentFromListTip
  BY DEF LocksIInv, QueryTipTracked, UnspentFromListTip
<1>. QED
  BY <1>1, LocksInit, LocksNext, PTL DEF Spec

=============================================================================
