---------------------------- MODULE AppCompletion ----------------------------
(***************************************************************************)
(* What the callback mechanism promises of one execution of an             *)
(* application: its containers finish one by one, in any order, and the    *)
(* application is completed at most once, when none is left.               *)
(***************************************************************************)
CONSTANT Container

VARIABLES
  unfinished,  \* the containers that have not finished
  completed    \* the platform has decided to stop the application

vars == <<unfinished, completed>>

Init == unfinished = Container /\ completed = FALSE

Finish(c) ==
  /\ c \in unfinished
  /\ unfinished' = unfinished \ {c}
  /\ UNCHANGED completed

Complete ==
  /\ unfinished = {} /\ ~completed
  /\ completed' = TRUE
  /\ UNCHANGED unfinished

Next == Complete \/ \E c \in Container : Finish(c)

Spec == Init /\ [][Next]_vars
=============================================================================
