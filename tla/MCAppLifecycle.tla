---------------------------- MODULE MCAppLifecycle ----------------------------
(* Instances of AppLifecycle for TLC. *)
EXTENDS AppLifecycle

CONSTANTS a1, a2, s1, s2, u1

TwoApps   == {a1, a2}
TwoStarts == {s1, s2}
OneSwitch == {u1}
NoSwitch  == {}
\* Each start has an application of its own; the switch is that of a1.
Apps      == [t \in Task |-> IF t = s2 THEN a2 ELSE a1]
OneEach   == [s \in Start |-> 1]
TwoEach   == [s \in Start |-> 2]
=============================================================================
