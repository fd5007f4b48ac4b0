---------------------------- MODULE MCAppCallback ----------------------------
(***************************************************************************)
(* Instances of AppCallback for TLC.  Every behaviour is either that of a   *)
(* server with the given Handlers and MaxLost, or that of one that handles  *)
(* one request at a time and gets every callback.                           *)
(***************************************************************************)
EXTENDS AppCallback

CONSTANTS s1, c1, c2, c3, u1

VARIABLE serial   \* which of the two

Serial == INSTANCE AppCallback WITH Handlers <- 1, MaxLost <- 0

OneStart   == {s1}
Two        == {c1, c2}
Three      == {c1, c2, c3}
OwnedByS1  == [c \in Container |-> s1]
OneSwitch  == {u1}
NoSwitch   == {}

ConcurrentInit == Init /\ serial = FALSE
Concurrently == ConcurrentInit /\ [][Next /\ UNCHANGED serial]_<<vars, serial>>

InOrder(A) == serial /\ A /\ UNCHANGED serial

EitherInit == Init /\ serial \in BOOLEAN
EitherNext == (~serial /\ Next /\ UNCHANGED serial) \/ InOrder(Serial!Next)
EitherSpec == EitherInit /\ [][EitherNext]_<<vars, serial>>
EitherWay ==
  /\ EitherSpec
  /\ \A s \in Start : WF_<<vars, serial>>(InOrder(Serial!StartStep(s)))
  /\ \A c \in Container : WF_<<vars, serial>>(InOrder(Serial!ContainerStep(c)))
  /\ \A k \in Trigger : WF_<<vars, serial>>(InOrder(Serial!RemovalStep(k)))

\* With one request at a time, once every container has called back the
\* application has been stopped (api_stop_app).
LastContainerStopsInOrder == serial => LastContainerStops

\* With one request at a time and no callback lost, the application ends up
\* stopped and with nothing running, whether its start is rolled back or stops
\* fail; subscriptions are left by a deployment that failed, and by nothing else.
EventuallyOverInOrder == serial => EventuallyOver
=============================================================================
