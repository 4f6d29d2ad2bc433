------------------------------ MODULE TxStatus ------------------------------
(***************************************************************************)
(* The transaction status of bwt: enum TxStatus { Conflicted, Unconfirmed, *)
(* Confirmed(u32) } with its hand-written total order, its derivation from *)
(* the node's confirmation count (TxStatus::new) and its predicates.       *)
(* Heights are u32 in the code; HeightMod stands for 2^32 so that the      *)
(* wrapping subtraction of TxStatus::new keeps its width.                  *)
(***************************************************************************)
EXTENDS Integers

CONSTANT HeightMod   \* 2^32 in the code (u32 heights)

ASSUME HeightModAssumption == HeightMod \in Nat \ {0}

Heights == 0 .. HeightMod - 1

\* The three variants, as records of one shape so that TLC may compare them.
Conflicted     == [kind |-> "conflicted", height |-> 0]
Unconfirmed    == [kind |-> "unconfirmed", height |-> 0]
Confirmed(h)   == [kind |-> "confirmed", height |-> h]

Statuses       == {Conflicted, Unconfirmed} \cup {Confirmed(h) : h \in Heights}

\* is_viable(): everything but Conflicted.
IsViable(s)    == s.kind # "conflicted"
ViableStatuses == {s \in Statuses : IsViable(s)}

IsConfirmed(s)   == s.kind = "confirmed"
IsUnconfirmed(s) == s.kind = "unconfirmed"

(***************************************************************************)
(* TxStatus::new(confirmations, tip_height): a positive count c at tip h   *)
(* is Confirmed(h - c + 1), computed in u32 (it wraps when c > h + 1);     *)
(* zero is Unconfirmed; a negative count is Conflicted.                    *)
(***************************************************************************)
NewStatus(confirmations, tipHeight) ==
    IF confirmations > 0
    THEN Confirmed((tipHeight - confirmations + 1) % HeightMod)
    ELSE IF confirmations = 0 THEN Unconfirmed ELSE Conflicted

\* electrum_height(): 0 for unconfirmed, the height when confirmed; it is
\* unreachable!() on Conflicted, so it is only defined on viable statuses.
ElectrumHeight(s) == IF IsConfirmed(s) THEN s.height ELSE 0

(***************************************************************************)
(* impl Ord for TxStatus: Conflicted < Unconfirmed < Confirmed(_), and     *)
(* confirmed statuses compare by height.  StatusCmp is -1, 0 or 1 for      *)
(* Less, Equal, Greater.                                                   *)
(***************************************************************************)
KindRank(s) == CASE s.kind = "conflicted"  -> 0
                 [] s.kind = "unconfirmed" -> 1
                 [] s.kind = "confirmed"   -> 2

IntCmp(a, b) == IF a < b THEN -1 ELSE IF a = b THEN 0 ELSE 1

StatusCmp(a, b) ==
    IF KindRank(a) # KindRank(b) THEN IntCmp(KindRank(a), KindRank(b))
    ELSE IntCmp(a.height, b.height)

=============================================================================
