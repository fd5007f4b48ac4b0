----------------------------- MODULE MCInventory -----------------------------
(* Instances of Inventory for TLC. *)
EXTENDS Inventory

CONSTANTS p1, p2, h1, h2

OneClient  == {p1}
TwoClients == {p1, p2}
OneHost    == {h1}
TwoHosts   == {h1, h2}
Numbered   == [h \in Host |-> 0]       \* "host0", ...
OneOrTwo   == {1, 2}
OnlyOne    == {1}
H1Alone    == [h \in {h1} |-> [containers |-> <<>>, measured |-> FALSE]]

\* Everything but the lock is left out, or all but the global HDFS is in use, or
\* that too.
Everything == {"hdfs", "measures", "failures"}
NoHdfs     == {"measures", "failures"}
NoneOrAll  == {{}, NoHdfs, Everything}
FourOrThree == [u \in NoneOrAll |-> IF u = {} THEN 4 ELSE 3]
HdfsOnly   == {{"hdfs"}}
Five       == [u \in HdfsOnly |-> 5]
=============================================================================
