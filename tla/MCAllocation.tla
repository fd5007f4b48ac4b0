----------------------------- MODULE MCAllocation -----------------------------
(* Instances of Allocation for TLC. *)
EXTENDS Allocation

CONSTANTS h1, h2, h3, d1, d2

TwoHosts    == {h1, h2}
ThreeHosts  == {h1, h2, h3}
TwoDisks    == <<d1, d2>>
Sorted2     == {<<h1, h2>>}
\* The sorted list, and a list of the user.
SomeOrders  == {<<h1, h2, h3>>, <<h3, h1>>}
AnyChecks   == SUBSET {"disks", "energy"}
OnlyDisks   == {{"disks"}}

Needs ==
  [t \in Type |->
     CASE t = "bigger"  -> [cpu |-> 3, energy |-> 2, disk |-> 3]
       [] t = "regular" -> [cpu |-> 2, energy |-> 1, disk |-> 2]
       [] t = "smaller" -> [cpu |-> 1, energy |-> 1, disk |-> 1]
       [] OTHER         -> [cpu |-> 1, energy |-> 1, disk |-> 0]]
Maxima == [r \in {"energy", "disk"} |-> 4]

Kinds ==
  { <<2, 4, <<4, 4>>>>, <<5, 2, <<1, 3>>>>, <<6, 3, <<2, 4>>>>, <<4, 1, <<3, 2>>>> }
SomeSupply ==
  { [host |-> [h \in Host |-> [cpu |-> k[h][1], energy |-> k[h][2]]],
     disk |-> [h \in Host |-> [d \in Disk |-> k[h][3][IF d = d1 THEN 1 ELSE 2]]]] :
    k \in [Host -> Kinds] }
=============================================================================
