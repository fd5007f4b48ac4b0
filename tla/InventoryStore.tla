---------------------------- MODULE InventoryStore ----------------------------
(***************************************************************************)
(* What the lock "ansible_inventory_access_lock" is for: an inventory on   *)
(* which every operation takes effect at once, or raises and has none.     *)
(***************************************************************************)
EXTENDS InventoryFile

CONSTANTS Client, Initial

VARIABLES
  data,   \* the inventory
  doing   \* doing[p]: the operation of client p that has not taken effect yet

vars == <<data, doing>>

Init == data = Initial /\ doing = [p \in Client |-> NoOp]

Call(p) ==
  /\ doing[p] = NoOp /\ doing'[p] \in Operation
  /\ doing' = [doing EXCEPT ![p] = doing'[p]]
  /\ UNCHANGED data

Effect(p) ==
  /\ doing[p] # NoOp /\ ~Raises(doing[p], data)
  /\ data' = Edit(doing[p], data)
  /\ doing' = [doing EXCEPT ![p] = NoOp]

Refuse(p) ==
  /\ doing[p] # NoOp /\ Raises(doing[p], data)
  /\ doing' = [doing EXCEPT ![p] = NoOp]
  /\ UNCHANGED data

Next == \E p \in Client : Call(p) \/ Effect(p) \/ Refuse(p)

Spec == Init /\ [][Next]_vars
=============================================================================
