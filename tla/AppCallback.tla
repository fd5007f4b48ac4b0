----------------------------- MODULE AppCallback -----------------------------
(***************************************************************************)
(* How the web server learns that an application has finished, when        *)
(* enable_app_callback is on.  start_app_task (ui/background_tasks.py)     *)
(* writes the number of containers it asks for in a redis counter of the   *)
(* application, deploys them and starts the application inside each one,   *)
(* without waiting.  The wrapper around the start script                   *)
(* (templates/start_wrapper.sh) posts one callback from its EXIT trap, and *)
(* api_stop_app (ui/views/common/views.py) counts the callbacks down: it   *)
(* reads the counter, and then writes it one lower or removes it and stops *)
(* the application.  Requests are handled by the threads of the server.    *)
(*                                                                         *)
(* "Add new containers to app" is the same form as "Start app": a second   *)
(* start_app_task of the application, over the same counter.               *)
(***************************************************************************)
EXTENDS Naturals, FiniteSets

CONSTANTS
  Start,      \* executions of start_app_task for the application
  Container,  \* the containers they ask for
  owner,      \* owner[c]: the execution that asks for container c
  Handlers,   \* requests the server handles at the same time
  MaxErrors,  \* bound on failing deployments, starts inside and stops
  MaxLost,    \* bound on the callbacks that never reach the server
  Switch      \* uses of the switch "Stop app"

ContainersOf(s) == {c \in Container : owner[c] = s}

ASSUME ContainerAssumption ==
  /\ IsFiniteSet(Container)
  /\ owner \in [Container -> Start]
  /\ \A s \in Start : ContainersOf(s) # {}
  /\ Switch \cap Container = {}
ASSUME BoundAssumption ==
  Handlers \in Nat \ {0} /\ MaxErrors \in Nat /\ MaxLost \in Nat

Trigger == Container \cup Switch   \* what a remove_containers_from_app is due to

VARIABLES
  counter,     \* "app:<name>" in redis; Absent: the key does not exist
  state,       \* state of the application in the State Database
  subscribed,  \* containers of the application in the State Database
  step,        \* step[s]: where the start task s is
  instance,    \* instance[c]: the application inside container c
  stop,        \* stop[c]: what became of the stop of c's instance on its host
  callback,    \* callback[c]: what became of the callback of c
  seen,        \* seen[c]: the counter its handler read
  removal,     \* removal[k]: where the remove_containers_from_app due to k is
  list,        \* list[k]: the containers it has still to remove
  errors, lost \* events so far, for the bounds

redis  == <<counter, seen>>
hosts  == <<instance, stop, callback>>
tasks  == <<removal, list>>
bounds == <<errors, lost>>
vars   == <<redis, state, subscribed, step, hosts, tasks, bounds>>

Absent == 0
Count(S) == Cardinality(S)

TypeOK ==
  /\ counter \in 0..Count(Container)
  /\ state \in {"stopped", "running"}
  /\ subscribed \subseteq Container
  /\ step \in [Start -> {"queued", "counted", "deploying", "starting", "rollback",
                         "started", "undeployed", "failed"}]
  /\ instance \in [Container -> {"none", "running", "error", "ended"}]
  /\ stop \in [Container -> {"none", "done", "failed"}]
  /\ callback \in [Container -> {"none", "sent", "lost", "read", "last", "done"}]
  /\ seen \in [Container -> 0..Count(Container)]
  /\ removal \in [Trigger -> {"none", "queued", "stopping"}]
  /\ list \in [Trigger -> SUBSET Container]
  /\ errors \in Nat /\ lost \in Nat

Init ==
  /\ counter = Absent /\ state = "stopped" /\ subscribed = {}
  /\ step = [s \in Start |-> "queued"]
  /\ instance = [c \in Container |-> "none"]
  /\ stop = [c \in Container |-> "none"]
  /\ callback = [c \in Container |-> "none"]
  /\ seen = [c \in Container |-> 0]
  /\ removal = [k \in Trigger |-> "none"]
  /\ list = [k \in Trigger |-> {}]
  /\ errors = 0 /\ lost = 0

-----------------------------------------------------------------------------
(* start_app_task *)

Goto(s, l) == step' = [step EXCEPT ![s] = l]

\* Fault: one container more than the wrappers that will call back.
CreateCounterOneMore(s) ==
  /\ step[s] = "queued"
  /\ counter' = Count(ContainersOf(s)) + 1
  /\ Goto(s, "counted")
  /\ UNCHANGED <<seen, state, subscribed, hosts, tasks, bounds>>

CreateCounter(s) ==
  /\ step[s] = "queued"
  /\ counter' = Count(ContainersOf(s))
  /\ Goto(s, "counted")
  /\ UNCHANGED <<seen, state, subscribed, hosts, tasks, bounds>>

SetRunning(s) ==
  /\ step[s] = "counted"
  /\ state' = "running"
  /\ Goto(s, "deploying")
  /\ UNCHANGED <<redis, subscribed, hosts, tasks, bounds>>

Deploy(s) ==
  /\ step[s] = "deploying"
  /\ subscribed' = subscribed \cup ContainersOf(s)
  /\ Goto(s, "starting")
  /\ UNCHANGED <<redis, state, hosts, tasks, bounds>>

\* The deployment raises: add_containers.py may have subscribed some containers,
\* deploy_app_containers stops the instances only, and rollback_start_flow has no
\* list of containers to unsubscribe.
DeployFails(s) ==
  /\ step[s] = "deploying" /\ errors < MaxErrors
  /\ errors' = errors + 1
  /\ \E some \in SUBSET ContainersOf(s) : subscribed' = subscribed \cup some
  /\ state' = "stopped"
  /\ Goto(s, "undeployed")
  /\ UNCHANGED <<redis, hosts, tasks, lost>>

\* The wrapper is launched in the background of a container of the group ...
StartInside(c) ==
  /\ step[owner[c]] = "starting" /\ instance[c] = "none" /\ stop[c] # "done"
  /\ instance' = [instance EXCEPT ![c] = "running"]
  /\ UNCHANGED <<redis, state, subscribed, step, stop, callback, tasks, bounds>>

\* ... or its playbook fails, as it does once the container has been removed.
StartInsideFails(c) ==
  /\ step[owner[c]] = "starting" /\ instance[c] = "none"
  /\ \/ stop[c] = "done" /\ UNCHANGED errors
     \/ errors < MaxErrors /\ errors' = errors + 1
  /\ instance' = [instance EXCEPT ![c] = "error"]
  /\ UNCHANGED <<redis, state, subscribed, step, stop, callback, tasks, lost>>

\* result.get(): the group has ended, well or raising.
Started(s) ==
  /\ step[s] = "starting"
  /\ \A c \in ContainersOf(s) : instance[c] # "none"
  /\ Goto(s, IF \E c \in ContainersOf(s) : instance[c] = "error" THEN "rollback" ELSE "started")
  /\ UNCHANGED <<redis, state, subscribed, hosts, tasks, bounds>>

-----------------------------------------------------------------------------
(* The wrapper in a container *)

\* The EXIT trap posts the callback; curl does not try again.
Exit(c) ==
  /\ instance[c] = "running"
  /\ instance' = [instance EXCEPT ![c] = "ended"]
  /\ \/ callback' = [callback EXCEPT ![c] = "sent"] /\ UNCHANGED lost
     \/ /\ lost < MaxLost
        /\ lost' = lost + 1
        /\ callback' = [callback EXCEPT ![c] = "lost"]
  /\ UNCHANGED <<redis, state, subscribed, step, stop, tasks, errors>>

\* Stopping the instance ends a wrapper, whose trap may still post; the failure of
\* a stop is ignored, and leaves the wrapper running.
StopContainer(c) ==
  \/ /\ stop' = [stop EXCEPT ![c] = "done"]
     /\ \/ instance[c] # "running" /\ UNCHANGED <<instance, callback>>
        \/ /\ instance[c] = "running"
           /\ instance' = [instance EXCEPT ![c] = "ended"]
           /\ \E r \in {"sent", "lost"} : callback' = [callback EXCEPT ![c] = r]
     /\ UNCHANGED errors
  \/ /\ errors < MaxErrors /\ stop[c] # "done"
     /\ errors' = errors + 1
     /\ stop' = [stop EXCEPT ![c] = "failed"]
     /\ UNCHANGED <<instance, callback>>

-----------------------------------------------------------------------------
(* rollback_start_flow *)

RollbackStop(c) ==
  /\ step[owner[c]] = "rollback" /\ stop[c] # "done"
  /\ StopContainer(c)
  /\ UNCHANGED <<redis, state, subscribed, step, tasks, lost>>

RollbackEnd(s) ==
  /\ step[s] = "rollback"
  /\ \A c \in ContainersOf(s) : stop[c] # "none"
  /\ subscribed' = subscribed \ ContainersOf(s)
  /\ state' = "stopped"
  /\ Goto(s, "failed")
  /\ UNCHANGED <<redis, hosts, tasks, bounds>>

-----------------------------------------------------------------------------
(* api_stop_app *)

InHandler == {c \in Container : callback[c] \in {"read", "last"}}

Answer(c, r) == callback' = [callback EXCEPT ![c] = r]

\* get_app_counter; it raises, and the callback is wasted, on an absent key.
ReadCounter(c) ==
  /\ callback[c] = "sent" /\ Count(InHandler) < Handlers
  /\ seen' = [seen EXCEPT ![c] = counter]
  /\ Answer(c, IF counter = Absent THEN "done" ELSE "read")
  /\ UNCHANGED <<counter, state, subscribed, step, instance, stop, tasks, bounds>>

Decrement(c) ==
  /\ callback[c] = "read" /\ seen[c] > 1
  /\ counter' = seen[c] - 1
  /\ Answer(c, "done")
  /\ UNCHANGED <<seen, state, subscribed, step, instance, stop, tasks, bounds>>

\* Fault: the comparison with 1 is off by one.
RemoveCounterEarly(c) ==
  /\ callback[c] = "read" /\ seen[c] <= 2
  /\ counter' = Absent
  /\ Answer(c, "last")
  /\ UNCHANGED <<seen, state, subscribed, step, instance, stop, tasks, bounds>>

RemoveCounter(c) ==
  /\ callback[c] = "read" /\ seen[c] <= 1
  /\ counter' = Absent
  /\ Answer(c, "last")
  /\ UNCHANGED <<seen, state, subscribed, step, instance, stop, tasks, bounds>>

\* Fault: the containers of the application are not read again.
QueueEmptyRemoval(k) ==
  /\ removal[k] = "none"
  /\ removal' = [removal EXCEPT ![k] = "queued"]
  /\ UNCHANGED list

\* processStopApp: remove every container the State Database gives the app.
QueueRemoval(k) ==
  /\ removal[k] = "none"
  /\ removal' = [removal EXCEPT ![k] = "queued"]
  /\ list' = [list EXCEPT ![k] = subscribed]

StopApp(c) ==
  /\ callback[c] = "last"
  /\ QueueRemoval(c)
  /\ Answer(c, "done")
  /\ UNCHANGED <<redis, state, subscribed, step, instance, stop, bounds>>

\* The switch is on the page of an application with containers, and leaves the
\* counter alone.
UserStop(k) ==
  /\ k \in Switch /\ subscribed # {}
  /\ QueueRemoval(k)
  /\ UNCHANGED <<redis, state, subscribed, step, hosts, bounds>>

-----------------------------------------------------------------------------
(* remove_containers_from_app *)

Unsubscribe(k) ==
  /\ removal[k] = "queued"
  /\ removal' = [removal EXCEPT ![k] = "stopping"]
  /\ state' = "stopped"
  /\ subscribed' = subscribed \ list[k]
  /\ UNCHANGED <<redis, step, hosts, list, bounds>>

RemovalStop(k, c) ==
  /\ removal[k] = "stopping" /\ c \in list[k]
  /\ list' = [list EXCEPT ![k] = @ \ {c}]
  /\ StopContainer(c)
  /\ UNCHANGED <<redis, state, subscribed, step, removal, lost>>

-----------------------------------------------------------------------------
StartStep(s) ==
  \/ CreateCounter(s) \/ SetRunning(s) \/ Deploy(s) \/ DeployFails(s)
  \/ Started(s) \/ RollbackEnd(s)

ContainerStep(c) ==
  \/ StartInside(c) \/ StartInsideFails(c) \/ Exit(c) \/ RollbackStop(c)
  \/ ReadCounter(c) \/ Decrement(c) \/ RemoveCounter(c) \/ StopApp(c)

RemovalStep(k) == Unsubscribe(k) \/ \E c \in Container : RemovalStop(k, c)

Next ==
  \/ \E s \in Start : StartStep(s)
  \/ \E c \in Container : ContainerStep(c)
  \/ \E k \in Trigger : RemovalStep(k)
  \/ \E k \in Switch : UserStop(k)

\* Tasks and requests are carried on with, and the application is a batch job
\* that ends by itself.  Nobody has to use the switch.
Fairness ==
  /\ \A s \in Start : WF_vars(StartStep(s))
  /\ \A c \in Container : WF_vars(ContainerStep(c))
  /\ \A k \in Trigger : WF_vars(RemovalStep(k))

Spec     == Init /\ [][Next]_vars
FairSpec == Spec /\ Fairness
-----------------------------------------------------------------------------
(* Properties *)

\* "Only stop app if this is the last container": whoever decides to stop the
\* application, its start is over and nothing of it runs any more.
OnlyLastStops ==
  \A c \in Container : callback[c] = "last" =>
    \A d \in Container : instance[d] = "ended"

\* Once every container has called back, the application has been stopped.
LastContainerStops ==
  (\A c \in Container : callback[c] = "done")
    => \E c \in Container : removal[c] # "none"

\* The application ends up stopped, with nothing running in its containers and
\* without subscriptions but for what a deployment that failed leaves behind:
\* rollback_start_flow is given no containers then.
LeftSubscribed == {c \in Container : step[owner[c]] = "undeployed"}
Over ==
  /\ state = "stopped" /\ subscribed \subseteq LeftSubscribed
  /\ \A c \in Container : instance[c] # "running"

EventuallyOver == <>[]Over

\* What the callbacks implement: a completion after all the containers.
Completion == INSTANCE AppCompletion
  WITH unfinished <- {c \in Container : instance[c] # "ended"},
       completed <- \E c \in Container : callback[c] = "last" \/ removal[c] # "none"
Completes == Completion!Spec
=============================================================================
