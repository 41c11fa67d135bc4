-------------------------- MODULE AppendOnlyLedger --------------------------
(***************************************************************************)
(* What the L2 store promises its callers about a bitemporal table: a      *)
(* primary key is filled at most once and, once filled, keeps its value.   *)
(* "Bitemporal history is append-only": the first writer of a key wins and *)
(* a later write of the same key is ignored.                               *)
(***************************************************************************)
CONSTANTS Cells,   \* the primary keys of the bitemporal tables
          Vals,    \* what a row may hold beside its key
          Empty    \* the value of a key nobody has written

VARIABLE ledger

TypeOK == ledger \in [Cells -> Vals \cup {Empty}]

Init == ledger = [c \in Cells |-> Empty]

(* One batch: any set of empty cells is filled; no other cell changes.     *)
Append(filled) ==
    /\ \A c \in filled : ledger[c] = Empty
    /\ \E val \in [filled -> Vals] :
          ledger' = [c \in Cells |-> IF c \in filled THEN val[c] ELSE ledger[c]]

Next == \E filled \in SUBSET Cells : Append(filled)

Spec == Init /\ [][Next]_ledger
=============================================================================
